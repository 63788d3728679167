------------------------ MODULE ClientServiceProofs ------------------------
(***************************************************************************)
(* What the health reports of a client rest on, for any number of          *)
(* processes and services, restarts and supersessions.                     *)
(***************************************************************************)
EXTENDS ClientService, TLAPS

USE ServiceAssumption

\* No Checker runs and nothing is reported before the first Run.
LEMMA ServiceInitInv == Init => ServiceInv
  BY DEF Init, ServiceInv, ClientTypeOK, OkBacked, Report

\* Every step of the service loop and of the Checker keeps the invariant.
LEMMA ServiceNextInv == ServiceInv /\ [Next]_vars => ServiceInv'
  <1> SUFFICES ASSUME ServiceInv, [Next]_vars PROVE ServiceInv'
    OBVIOUS
  <1> USE DEF ServiceInv, ClientTypeOK, OkBacked, Report, Goto
  <1>1. CASE UNCHANGED vars
    BY <1>1 DEF vars
  <1>2. ASSUME NEW s \in Service, Run(s) PROVE ServiceInv'
    <2>1. /\ probe' \in [Service -> {"none", "probing", "waiting", "ended"} \union Report]
          /\ \A t \in Service \ HealthEnabled : probe'[t] = "none"
      BY <1>2 DEF Run, GoChecker
    <2>2. /\ seen' \in [Service -> SUBSET Report]
          /\ healthy' = healthy \ {s}
          /\ \A t \in Service \ {s} : seen'[t] = seen[t]
      BY <1>2 DEF Run, NewChecker
    <2>3. pc' = [pc EXCEPT ![s] = "connecting"] /\ UNCHANGED <<ctx, returned, current, up, wire>>
      BY <1>2 DEF Run
    <2> QED
      BY <2>1, <2>2, <2>3
  <1>3. ASSUME NEW s \in Service, Connect(s) PROVE ServiceInv'
    BY <1>3 DEF Connect
  <1>4. ASSUME NEW s \in Service, Shutdown(s) PROVE ServiceInv'
    BY <1>4 DEF Shutdown, EndSession
  <1>5. ASSUME NEW s \in Service, LoopCancelled(s) PROVE ServiceInv'
    BY <1>5 DEF LoopCancelled
  <1>6. ASSUME NEW s \in Service, RestartTimer(s) PROVE ServiceInv'
    BY <1>6 DEF RestartTimer
  <1>7. ASSUME NEW s \in Service, RestartCancelled(s) PROVE ServiceInv'
    BY <1>7 DEF RestartCancelled
  <1>8. ASSUME NEW s \in Service, Superseded(s) PROVE ServiceInv'
    BY <1>8 DEF Superseded, EndSession
  <1>9. ASSUME NEW s \in Service, SessionLost(s) PROVE ServiceInv'
    BY <1>9 DEF SessionLost, EndSession
  <1>10. ASSUME NEW s \in Service, ProbeCheck(s) PROVE ServiceInv'
    BY <1>10 DEF ProbeCheck
  <1>11. ASSUME NEW s \in Service, ProbeStore(s) PROVE ServiceInv'
    BY <1>11 DEF ProbeStore
  <1>12. ASSUME NEW s \in Service, Tick(s) PROVE ServiceInv'
    BY <1>12 DEF Tick
  <1>13. ASSUME NEW s \in Service, CheckerEnds(s) PROVE ServiceInv'
    BY <1>13 DEF CheckerEnds
  <1>14. ASSUME NEW s \in Service, Poll(s) PROVE ServiceInv'
    BY <1>14 DEF Poll
  <1>15. ASSUME NEW s \in Service, Flip(s) PROVE ServiceInv'
    BY <1>15 DEF Flip
  <1>16. ASSUME NEW q \in Proc, Signal(q) PROVE ServiceInv'
    BY <1>16 DEF Signal
  <1>17. ASSUME NEW q \in Proc, MainReturns(q) PROVE ServiceInv'
    BY <1>17 DEF MainReturns
  <1> QED
    BY <1>1, <1>2, <1>3, <1>4, <1>5, <1>6, <1>7, <1>8, <1>9,
       <1>10, <1>11, <1>12, <1>13, <1>14, <1>15, <1>16, <1>17
       DEF Next, LoopStep, CheckerStep

\* The inductive invariant of the client service holds in every state.
THEOREM ServiceInvariance == Spec => []ServiceInv
  BY ServiceInitInv, ServiceNextInv, PTL DEF Spec

\* Type correctness of the service loop; a service without health.enabled
\* never runs a Checker or reports anything.
THEOREM ClientTypeCorrect == Spec => []ClientTypeOK
  <1>1. ServiceInv => ClientTypeOK
    BY DEF ServiceInv
  <1> QED
    BY <1>1, ServiceInvariance, PTL

\* No session reports ok on the word of an earlier Client's probes.
THEOREM OkReportsBacked == Spec => []OkBacked
  <1>1. ServiceInv => OkBacked
    BY DEF ServiceInv
  <1> QED
    BY <1>1, ServiceInvariance, PTL
=============================================================================
