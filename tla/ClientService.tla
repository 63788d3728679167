---------------------------- MODULE ClientService ----------------------------
(***************************************************************************)
(* The client processes: the service loop of cmd/client/main.go, Client.Run *)
(* and the health Checker of internal/client/client.go.  pollmux's          *)
(* ReconnectLoop, its connector and the server it talks to are external:    *)
(* modelled by how Run and the loop in main use them.  Per client_id the    *)
(* server serves the session that connected last (see TunnelRegistry).      *)
(***************************************************************************)
EXTENDS Naturals

CONSTANTS
    Proc,       \* client processes
    ID,         \* client_ids
    Service,    \* the configured services: pairs of a process and a client_id
    HealthEnabled,  \* the services with health.enabled
    NoOwner     \* no session of the client_id is connected

ASSUME ServiceAssumption ==
    /\ Service \subseteq Proc \X ID
    /\ HealthEnabled \subseteq Service
    /\ NoOwner \notin Service

VARIABLES
    pc,         \* pc[s]: where the service goroutine of s is
    ctx,        \* the processes whose context is cancelled
    returned,   \* the processes whose main has returned
    current,    \* current[i]: the service whose session the server holds for i
    up,         \* up[s]: the local target of s answers probes
    probe,      \* probe[s]: what the current Checker of s is doing
    healthy,    \* the services whose current Checker has its healthy flag set
    seen,       \* history: what the probes of the current Checker have found
    wire        \* wire[s]: the last X-Local-Health of the current session

vars == <<pc, ctx, returned, current, up, probe, healthy, seen, wire>>

Report == {"ok", "down"}

\* Without health.enabled a service has no Checker and reports nothing.
ClientTypeOK ==
    /\ pc \in [Service -> {"new", "connecting", "serving", "restart", "exited"}]
    /\ ctx \subseteq Proc
    /\ returned \subseteq Proc
    /\ current \in [ID -> Service \union {NoOwner}]
    /\ up \in [Service -> BOOLEAN]
    /\ probe \in [Service -> {"none", "probing", "waiting", "ended"} \union Report]
    /\ healthy \subseteq Service
    /\ seen \in [Service -> SUBSET Report]
    /\ wire \in [Service -> Report \union {"none"}]
    /\ \A s \in Service \ HealthEnabled : probe[s] = "none" /\ wire[s] = "none"

Cancelled(s) == s[1] \in ctx
Goto(s, l)   == pc' = [pc EXCEPT ![s] = l]

\* A process whose main has returned is gone, its Checkers included.
Running(s) == s[1] \notin returned

-----------------------------------------------------------------------------
(* The service loop.                                                       *)

\* Variant: NewChecker assumes a healthy target.
NewCheckerHealthy(s) ==
    /\ healthy' = healthy \union {s}
    /\ seen' = [seen EXCEPT ![s] = {}]

\* NewChecker: the healthy flag is false until a probe sets it.
NewChecker(s) ==
    /\ healthy' = healthy \ {s}
    /\ seen' = [seen EXCEPT ![s] = {}]

\* if c.cfg.Health.Enabled { go c.health.Run(ctx) }
GoChecker(s) == probe' = [probe EXCEPT ![s] = IF s \in HealthEnabled THEN "probing" ELSE "none"]

\* client.New and the start of Run: a new Checker goroutine.  The Checker of
\* the previous round runs on until the process ends, but only the flag of the
\* new one is read from now on.
Run(s) ==
    /\ pc[s] = "new"
    /\ Goto(s, "connecting")
    /\ NewChecker(s)
    /\ GoChecker(s)
    /\ UNCHANGED <<ctx, returned, current, up, wire>>

\* ReconnectLoop: Connect succeeds (it is retried until then) and the server
\* supersedes the session it held for this client_id.
Connect(s) ==
    /\ pc[s] = "connecting"
    /\ ~Cancelled(s)
    /\ Goto(s, "serving")
    /\ current' = [current EXCEPT ![s[2]] = s]
    /\ wire' = [wire EXCEPT ![s] = "none"]
    /\ UNCHANGED <<ctx, returned, up, probe, healthy, seen>>

\* serveSession ends and the session with it; the next step of the loop is l.
EndSession(s, l) ==
    /\ pc[s] = "serving"
    /\ Goto(s, l)
    /\ current' = IF current[s[2]] = s THEN [current EXCEPT ![s[2]] = NoOwner] ELSE current
    /\ UNCHANGED <<ctx, returned, up, probe, healthy, seen, wire>>

\* Variant: the service goroutine returns whenever Run has.
SupersededExits(s) == current[s[2]] \notin {s, NoOwner} /\ EndSession(s, "exited")

\* OutcomeSuperseded: ReconnectLoop returns nil, and main restarts the service.
Superseded(s) == current[s[2]] \notin {s, NoOwner} /\ EndSession(s, "restart")

\* OutcomeTransportFailed, OutcomePeerClosed: ReconnectLoop connects again.
SessionLost(s) == EndSession(s, "connecting")

\* OutcomeShutdown: Run returns context.Canceled and the goroutine ends.
\* (main's branch for any other error has no step: ReconnectLoop retries after
\* every failure and returns only nil or the context's error.)
Shutdown(s) == Cancelled(s) /\ EndSession(s, "exited")

\* Variant: the retries do not look at the context.
LoopRetries(s) == FALSE /\ UNCHANGED vars

\* ReconnectLoop notices the cancelled context while it is not serving.
LoopCancelled(s) ==
    /\ pc[s] = "connecting"
    /\ Cancelled(s)
    /\ Goto(s, "exited")
    /\ UNCHANGED <<ctx, returned, current, up, probe, healthy, seen, wire>>

\* select: <-time.After(time.Second)
RestartTimer(s) ==
    /\ pc[s] = "restart"
    /\ Goto(s, "new")
    /\ UNCHANGED <<ctx, returned, current, up, probe, healthy, seen, wire>>

\* select: <-ctx.Done()
RestartCancelled(s) ==
    /\ pc[s] = "restart"
    /\ Cancelled(s)
    /\ Goto(s, "exited")
    /\ UNCHANGED <<ctx, returned, current, up, probe, healthy, seen, wire>>

\* SIGINT or SIGTERM: signal.NotifyContext cancels the process's context.
Signal(q) ==
    /\ q \notin ctx
    /\ ctx' = ctx \union {q}
    /\ UNCHANGED <<pc, returned, current, up, probe, healthy, seen, wire>>

\* wg.Wait returns.
MainReturns(q) ==
    /\ q \notin returned
    /\ \A s \in Service : s[1] = q => pc[s] = "exited"
    /\ returned' = returned \union {q}
    /\ UNCHANGED <<pc, ctx, current, up, probe, healthy, seen, wire>>

-----------------------------------------------------------------------------
(* The Checker.                                                            *)

\* probe: check() finds the target up or down.
ProbeCheck(s) ==
    /\ Running(s)
    /\ probe[s] = "probing"
    /\ probe' = [probe EXCEPT ![s] = IF up[s] THEN "ok" ELSE "down"]
    /\ UNCHANGED <<pc, ctx, returned, current, up, healthy, seen, wire>>

\* probe: c.healthy.Store(ok)
ProbeStore(s) ==
    /\ Running(s)
    /\ probe[s] \in Report
    /\ healthy' = IF probe[s] = "ok" THEN healthy \union {s} ELSE healthy \ {s}
    /\ seen' = [seen EXCEPT ![s] = @ \union {probe[s]}]
    /\ probe' = [probe EXCEPT ![s] = "waiting"]
    /\ UNCHANGED <<pc, ctx, returned, current, up, wire>>

\* Variant: there is only the first probe.
NoTick(s) == FALSE /\ UNCHANGED vars

\* Checker.Run: <-t.C
Tick(s) ==
    /\ Running(s)
    /\ probe[s] = "waiting"
    /\ probe' = [probe EXCEPT ![s] = "probing"]
    /\ UNCHANGED <<pc, ctx, returned, current, up, healthy, seen, wire>>

\* Checker.Run: <-ctx.Done()
CheckerEnds(s) ==
    /\ Running(s)
    /\ probe[s] = "waiting"
    /\ Cancelled(s)
    /\ probe' = [probe EXCEPT ![s] = "ended"]
    /\ UNCHANGED <<pc, ctx, returned, current, up, healthy, seen, wire>>

\* The connector's poll carries LocalHealth(), if buildConnector set it.
Poll(s) ==
    /\ pc[s] = "serving"
    /\ s \in HealthEnabled
    /\ wire' = [wire EXCEPT ![s] = IF s \in healthy THEN "ok" ELSE "down"]
    /\ UNCHANGED <<pc, ctx, returned, current, up, probe, healthy, seen>>

\* The local target comes up or goes down (only probes look at it here).
Flip(s) ==
    /\ s \in HealthEnabled
    /\ up' = [up EXCEPT ![s] = ~@]
    /\ UNCHANGED <<pc, ctx, returned, current, probe, healthy, seen, wire>>

-----------------------------------------------------------------------------
Init ==
    /\ pc = [s \in Service |-> "new"]
    /\ ctx = {}
    /\ returned = {}
    /\ current = [i \in ID |-> NoOwner]
    /\ up = [s \in Service |-> TRUE]
    /\ probe = [s \in Service |-> "none"]
    /\ healthy = {}
    /\ seen = [s \in Service |-> {}]
    /\ wire = [s \in Service |-> "none"]

LoopStep(s) ==
    \/ Run(s)
    \/ Connect(s)
    \/ Shutdown(s)
    \/ LoopCancelled(s)
    \/ RestartTimer(s)
    \/ RestartCancelled(s)

CheckerStep(s) == ProbeCheck(s) \/ ProbeStore(s) \/ Tick(s)

Next ==
    \/ \E s \in Service :
          \/ LoopStep(s)
          \/ Superseded(s)
          \/ SessionLost(s)
          \/ CheckerStep(s)
          \/ CheckerEnds(s)
          \/ Poll(s)
          \/ Flip(s)
    \/ \E q \in Proc : Signal(q) \/ MainReturns(q)

\* Goroutines and timers keep running, the connector polls and its retries
\* reach the server in the end.  Sessions need not end, targets need not
\* change and signals need not come.
Fairness ==
    /\ \A s \in Service :
          /\ WF_vars(LoopStep(s))
          /\ WF_vars(CheckerStep(s))
          /\ WF_vars(Poll(s))
    /\ \A q \in Proc : WF_vars(MainReturns(q))

Spec     == Init /\ [][Next]_vars
FairSpec == Spec /\ Fairness

-----------------------------------------------------------------------------
(* Properties.                                                             *)

\* A signal ends the process, wherever its services are: serving, waiting for
\* a reconnect, or in the pause after a supersession.
SignalEndsProcess == \A q \in Proc : q \in ctx ~> q \in returned

\* The comment in main: a transient supersession does not kill the tunnel for
\* good.  Whatever ends its sessions, a service serves again and again unless
\* its process is told to stop, also when two processes keep superseding each
\* other.
SupersededComesBack ==
    \A s \in Service : []<>(pc[s] = "serving" \/ Cancelled(s))

\* While a target stays up and its session lasts, the reports turn to ok,
\* whatever the probes saw before and although a restart forgets them.
ReportTurnsOk ==
    \A s \in HealthEnabled :
        pc[s] = "serving" /\ up[s]
        ~> wire[s] = "ok" \/ ~up[s] \/ pc[s] # "serving" \/ Cancelled(s)

\* A session reports ok only after a probe of its own Client found the target
\* up: no verdict is inherited from the session or the Client before.
OkBacked == \A s \in Service : wire[s] = "ok" /\ pc[s] = "serving" => "ok" \in seen[s]

\* The inductive invariant behind OkBacked: the flag of the current Checker is
\* only set by a successful probe of its own.
ServiceInv ==
    /\ ClientTypeOK
    /\ \A s \in healthy : "ok" \in seen[s]
    /\ OkBacked
=============================================================================
