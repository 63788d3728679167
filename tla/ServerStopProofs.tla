------------------------- MODULE ServerStopProofs -------------------------
(***************************************************************************)
(* What Stop achieves for any number of sessions, requests and servers,    *)
(* whatever connects, requests and disconnects run at the same time.       *)
(***************************************************************************)
EXTENDS ServerStop, PublicProxyProofs, DirectoryProofs, TLAPS

USE SrvAssumption

\* What every step does to the store: sessions enter it once.
StoreStep ==
    /\ StoreInv'
    /\ \A s \in Session : conn[s] # "idle" => conn'[s] # "idle"
    /\ \A s \in Session : conn[s] # "idle" /\ s \notin store => s \notin store'

\* A step that leaves store and connects alone, and closes at most more.
LEMMA StoreSame ==
    ASSUME StoreInv, UNCHANGED <<conn, store>>, sessionClosed \subseteq sessionClosed'
    PROVE  StoreStep
  BY DEF StoreInv, StoreStep

\* The hooks and pollmux keep the store in order.
LEMMA HookStore ==
    ASSUME StoreInv, NEW s \in Session, HookStep(s) \/ DrainClose(s)
    PROVE  StoreStep
  <1>1. ASSUME NEW c \in Client, AuthenticateConnect(s, c) PROVE StoreStep
    BY <1>1 DEF AuthenticateConnect, StoreInv, StoreStep, ConnState
  <1>2. ASSUME NEW ok \in BOOLEAN, PollLookup(s, ok) PROVE StoreStep
    BY <1>2, StoreSame DEF PollLookup
  <1>3. CASE RegisterReplace(s)
    BY <1>3 DEF RegisterReplace, StoreInv, StoreStep, ConnState
  <1>4. CASE RegisterAppend(s)
    BY <1>4 DEF RegisterAppend, StoreInv, StoreStep, ConnState
  <1>5. CASE RegisterRefused(s)
    BY <1>5 DEF RegisterRefused, StoreInv, StoreStep, ConnState
  <1>6. CASE RegisterDone(s)
    BY <1>6 DEF RegisterDone, StoreInv, StoreStep, ConnState
  <1>7. CASE CloseSession(s)
    BY <1>7 DEF CloseSession, StoreInv, StoreStep, ConnState
  <1>8. CASE PollStore(s)
    BY <1>8, StoreSame DEF PollStore
  <1>9. CASE DisconnectLookup(s)
    BY <1>9, StoreSame DEF DisconnectLookup
  <1>10. CASE DisconnectRemove(s)
    BY <1>10, StoreSame DEF DisconnectRemove
  <1>11. CASE DisconnectUnknown(s)
    BY <1>11, StoreSame DEF DisconnectUnknown
  <1>12. CASE TransportCollapse(s)
    BY <1>12, StoreSame DEF TransportCollapse
  <1>13. CASE DrainClose(s)
    BY <1>13, StoreSame DEF DrainClose
  <1> QED
    BY <1>1, <1>2, <1>3, <1>4, <1>5, <1>6, <1>7, <1>8,
       <1>9, <1>10, <1>11, <1>12, <1>13 DEF HookStep

\* So does whatever the running server does.
LEMMA ServeStore == StoreInv /\ Serve => StoreStep
  <1> SUFFICES ASSUME StoreInv, Serve PROVE StoreStep
    OBVIOUS
  <1>1. CASE UNCHANGED vars
    BY <1>1, StoreSame DEF vars
  <1>2. ASSUME NEW s \in Session, DrainIdle(s) \/ DrainExpired(s) PROVE StoreStep
    BY <1>2, StoreSame DEF DrainIdle, DrainExpired, DrainEnds
  <1>3. ASSUME NEW r \in Request, RequestStep(r) PROVE StoreStep
    BY <1>1, <1>3 DEF RequestStep, Pick, CheckHealth, Admit, OpenStream,
                      CountStream, StreamEnds, UncountStream, vars
  <1> QED
    BY <1>2, <1>3, HookStore DEF Serve, ProxyNext

\* Each request has its place throughout.
LEMMA ServeShape ==
    ASSUME HandlerShape, ProxyNext
    PROVE  HandlerShape'
  <1>1. ASSUME NEW r \in Request, RequestStep(r) PROVE HandlerShape'
    BY <1>1 DEF RequestStep, Pick, CheckHealth, Admit, OpenStream, CountStream,
                StreamEnds, UncountStream, Answer, Goto, vars, HandlerShape
  <1>2. ASSUME NEW s \in Session, DrainIdle(s) \/ DrainExpired(s) PROVE HandlerShape'
    BY <1>2 DEF DrainIdle, DrainExpired, DrainEnds, proxyVars, HandlerShape
  <1> QED
    BY <1>1, <1>2 DEF ProxyNext, proxyVars, HandlerShape

\* With the public listener closed, the handlers Shutdown waits for stay idle,
\* whatever the upgraded requests do.
LEMMA IdleStays ==
    ASSUME StoreInv, HandlerShape, HandlersIdle, Serve, listener # "open"
    PROVE  HandlersIdle'
  <1>0. ~Accepts /\ UNCHANGED hijacked
    BY DEF Serve, stopVars
  <1>1. CASE UNCHANGED <<conn, req>>
    BY <1>0, <1>1 DEF HandlersIdle
  <1>2. ASSUME NEW r \in Request, UNCHANGED conn,
               \/ CheckHealth(r) \/ Admit(r) \/ OpenStream(r) \/ CountStream(r)
               \/ \E status \in Outcome : StreamEnds(r, status)
               \/ UncountStream(r)
        PROVE  HandlersIdle'
    <2>1. r \in hijacked
      BY <1>2 DEF HandlersIdle, CheckHealth, Admit, OpenStream, CountStream,
                  StreamEnds, UncountStream
    <2>2. \A q \in Request \ {r} : req'[q] = req[q]
      BY <1>2 DEF CheckHealth, Admit, OpenStream, CountStream, StreamEnds,
                  UncountStream, Answer, Goto, HandlerShape
    <2> QED
      BY <1>0, <1>2, <2>1, <2>2 DEF HandlersIdle
  <1>3. ASSUME NEW s \in Session, DrainIdle(s) \/ DrainExpired(s) PROVE HandlersIdle'
    BY <1>1, <1>3 DEF DrainIdle, DrainExpired, DrainEnds, proxyVars
  <1>4. ASSUME NEW s \in Session,
               \/ RegisterReplace(s) \/ RegisterAppend(s) \/ RegisterRefused(s)
               \/ RegisterDone(s)
        PROVE  FALSE
    BY <1>4 DEF HandlersIdle, RegisterReplace, RegisterAppend, RegisterRefused,
                RegisterDone
  <1>5. ASSUME NEW s \in Session, UNCHANGED proxyVars,
               \/ CloseSession(s) \/ DisconnectLookup(s) \/ DisconnectRemove(s)
               \/ DisconnectUnknown(s) \/ TransportCollapse(s) \/ DrainClose(s)
               \/ PollStore(s) \/ \E ok \in BOOLEAN : PollLookup(s, ok)
        PROVE  HandlersIdle'
    BY <1>1, <1>5 DEF CloseSession, DisconnectLookup, DisconnectRemove,
                      DisconnectUnknown, TransportCollapse, DrainClose, PollStore,
                      PollLookup, proxyVars
  <1>6. ASSUME NEW s \in Session, HookStep(s) \/ DrainClose(s), UNCHANGED proxyVars
        PROVE  HandlersIdle'
    <2>1. ASSUME NEW c \in Client, AuthenticateConnect(s, c) PROVE FALSE
      BY <1>0, <2>1 DEF Accepts, AuthenticateConnect, StoreInv
    <2> QED
      BY <1>4, <1>5, <1>6, <2>1 DEF HookStep
  <1>7. ASSUME NEW r \in Request, NEW h \in Host, Pick(r, h) PROVE FALSE
    BY <1>0, <1>7 DEF Accepts, Pick, Answer, HandlerShape
  <1>8. ASSUME NEW r \in Request, RequestStep(r) PROVE HandlersIdle'
    <2>1. UNCHANGED conn
      BY <1>8 DEF RequestStep, Pick, CheckHealth, Admit, OpenStream, CountStream,
                  StreamEnds, UncountStream, vars
    <2> QED
      BY <1>2, <1>7, <1>8, <2>1 DEF RequestStep
  <1> QED
    BY <1>3, <1>6, <1>8 DEF Serve, ProxyNext

\* The invariant holds before Start.
LEMMA StopInitInv == StopInit => StopInv
  <1> SUFFICES ASSUME StopInit PROVE StopInv
    OBVIOUS
  <1>1. StopTypeOK
    <2>1. expired \in BOOLEAN
      BY Zenon DEF StopInit
    <2> QED
      BY <2>1 DEF StopInit, StopTypeOK
  <1>2. StoreInv /\ HandlerShape
    BY DEF StopInit, ProxyInit, Init, StoreInv, ConnState, HandlerShape
  <1> QED
    BY <1>1, <1>2 DEF StopInit, StopInv

\* The running server keeps it.
LEMMA ServeInv == StopInv /\ Serve => StopInv'
  <1> SUFFICES ASSUME StopInv, Serve PROVE StopInv'
    OBVIOUS
  <1>1. UNCHANGED stopVars
    BY DEF Serve
  <1>2. StoreStep
    BY ServeStore DEF StopInv
  <1>3. StopTypeOK' /\ HandlerShape'
    BY <1>1, ServeShape DEF StopInv, StopTypeOK, stopVars, Serve
  <1>4. exit = "0" => HandlersIdle'
    BY IdleStays DEF StopInv
  <1>5. snapshot \subseteq Session
    BY DEF StopInv, StopTypeOK
  <1>6. /\ \A s \in snapshot' : conn'[s] # "idle"
        /\ \A s \in snapshot' : s \in todo' \/ s \notin store'
    BY <1>1, <1>2, <1>5 DEF StopInv, StoreStep, stopVars
  <1> QED
    BY <1>1, <1>2, <1>3, <1>4, <1>6 DEF StopInv, StoreStep, stopVars

\* A step of Start or Stop that leaves the registry and the requests alone.
LEMMA RegistrySame ==
    ASSUME StopInv, UNCHANGED allVars, hijacked \subseteq hijacked'
    PROVE  /\ StoreInv' /\ HandlerShape'
           /\ HandlersIdle => HandlersIdle'
           /\ UNCHANGED <<conn, store>>
  BY DEF StopInv, StoreInv, HandlerShape, HandlersIdle, allVars, vars, proxyVars

\* Start, its listeners, an upgrade, the deadline and the signal keep it.
LEMMA StartInv ==
    ASSUME StopInv,
           \/ Start \/ StartFails \/ StopBegin \/ Deadline \/ StopHookDone
           \/ Listen("open") \/ Listen("failed")
           \/ \E r \in Request : Upgrade(r)
    PROVE  StopInv'
  <1>1. UNCHANGED allVars /\ hijacked \subseteq hijacked'
    BY DEF Start, StartFails, StopBegin, Deadline, StopHookDone, Listen, Upgrade
  <1>2. /\ StoreInv' /\ HandlerShape' /\ (HandlersIdle => HandlersIdle')
        /\ UNCHANGED <<conn, store>>
    BY <1>1, RegistrySame
  <1> USE DEF StopInv, StopTypeOK, Stopping
  <1>3. CASE Start
    BY <1>2, <1>3 DEF Start
  <1>4. CASE StartFails
    BY <1>2, <1>4 DEF StartFails
  <1>5. CASE StopBegin
    BY <1>2, <1>5 DEF StopBegin, StoreInv
  <1>6. CASE Deadline
    BY <1>2, <1>6 DEF Deadline
  <1>7. CASE StopHookDone
    BY <1>2, <1>7 DEF StopHookDone
  <1>8. ASSUME NEW o \in {"open", "failed"}, Listen(o) PROVE StopInv'
    BY <1>2, <1>8 DEF Listen
  <1>9. ASSUME NEW r \in Request, Upgrade(r) PROVE StopInv'
    BY <1>2, <1>9 DEF Upgrade
  <1> QED
    BY <1>3, <1>4, <1>5, <1>6, <1>7, <1>8, <1>9

\* One turn of Stop's loop.
LEMMA StopCloseInv ==
    ASSUME StopInv, NEW s \in Session, StopClose(s)
    PROVE  StopInv'
  <1>1. UNCHANGED <<conn, req, listener, phase, exit, snapshot, expired, hijacked>>
    BY DEF StopClose, proxyVars
  <1>2. HandlersIdle => HandlersIdle'
    BY <1>1 DEF HandlersIdle
  <1>3. store' = store \ {s} /\ todo' = todo \ {s}
    BY DEF StopClose
  <1>4. StoreInv' /\ HandlerShape'
    BY <1>1, <1>3 DEF StopInv, StoreInv, StopClose, HandlerShape
  <1>5. StopTypeOK'
    BY <1>1, <1>3 DEF StopInv, StopTypeOK, StopClose
  <1> QED
    BY <1>1, <1>2, <1>3, <1>4, <1>5 DEF StopInv

\* Entering the Shutdown of a server, or the end.
LEMMA EnterInv ==
    ASSUME StopInv, NEW p \in {"public", "http80", "status", "stopped"}, Enter(p),
           UNCHANGED <<allVars, snapshot, todo, hook, expired, hijacked>>,
           todo = {}, hook = NoTunnel, exit' \in {"none", "0", "1"},
           exit' = "0" => HandlersIdle /\ p # "public" /\ listener = "closed"
    PROVE  StopInv'
  <1>1. /\ StoreInv' /\ HandlerShape' /\ (HandlersIdle => HandlersIdle')
        /\ UNCHANGED <<conn, store>>
    BY RegistrySame
  <1>2. phase' = p /\ listener' = IF p = "public" THEN "closed" ELSE listener
    BY DEF Enter
  <1>3. StopTypeOK'
    BY <1>2 DEF StopInv, StopTypeOK, Stopping
  <1> QED
    BY <1>1, <1>2, <1>3 DEF StopInv

\* Every step keeps the invariant.
LEMMA StopNextInv == StopInv /\ [StopNext]_srvVars => StopInv'
  <1> SUFFICES ASSUME StopInv, [StopNext]_srvVars PROVE StopInv'
    OBVIOUS
  <1>1. CASE UNCHANGED srvVars
    <2>1. UNCHANGED allVars /\ UNCHANGED stopVars /\ UNCHANGED hijacked
      BY <1>1 DEF srvVars, stopVars
    <2>2. /\ StoreInv' /\ HandlerShape' /\ (HandlersIdle => HandlersIdle')
          /\ UNCHANGED <<conn, store>>
      BY <2>1, RegistrySame
    <2> QED
      BY <2>1, <2>2 DEF StopInv, StopTypeOK, stopVars
  <1>2. CASE StopLoopEnds
    BY <1>2, EnterInv DEF StopLoopEnds, StopInv, StopTypeOK
  <1>3. ASSUME NEW v \in Srv, ShutdownReturns(v) PROVE StopInv'
    <2>1. phase = v /\ v \in {"public", "http80", "status"}
      BY <1>3 DEF ShutdownReturns
    <2>2. NextPhase(v) \in {"http80", "status", "stopped"}
      BY DEF NextPhase
    <2>3. todo = {} /\ hook = NoTunnel
      BY <2>1 DEF StopInv, StopTypeOK
    <2>4. exit' = "0" => HandlersIdle /\ listener = "closed"
      BY <1>3, <2>1 DEF ShutdownReturns, ExitStatus, StopInv
    <2>5. exit' \in {"none", "0", "1"}
      BY <1>3 DEF ShutdownReturns, ExitStatus, StopInv, StopTypeOK
    <2> QED
      BY <1>3, <2>2, <2>3, <2>4, <2>5, EnterInv DEF ShutdownReturns
  <1> QED
    BY <1>1, <1>2, <1>3, StopCloseInv, StartInv, ServeInv DEF StopNext, StopStep

\* The inductive invariant of start and stop holds in every state.
THEOREM StopInvariance == StopSpec => []StopInv
  BY StopInitInv, StopNextInv, PTL DEF StopSpec

\* Type correctness of start and stop, and nothing of the loop outlives it.
THEOREM StopTypeCorrect == StopSpec => []StopTypeOK
  <1>1. StopInv => StopTypeOK
    BY DEF StopInv
  <1> QED
    BY <1>1, StopInvariance, PTL

\* After Stop's loop every session it found in the store is closed and gone.
THEOREM SnapshotIsClosed == StopSpec => []SnapshotClosed
  <1>1. StopInv => SnapshotClosed
    BY DEF StopInv, StopTypeOK, StoreInv, SnapshotClosed
  <1> QED
    BY <1>1, StopInvariance, PTL

\* The server exits with status 0 only if every connect handler and every
\* public request that was not hijacked has ended, and nothing has started
\* since.
THEOREM ExitsClean == StopSpec => []CleanExit
  <1>1. StopInv => CleanExit
    BY DEF StopInv, CleanExit, HandlersIdle
  <1> QED
    BY <1>1, StopInvariance, PTL

-----------------------------------------------------------------------------
(* The registry and the streams while the server stops.  Stop may close a  *)
(* session whose connect handler has not come to Register yet: its         *)
(* OnDisconnect then finds nothing, and the tunnel is registered after it. *)

\* A turn of Stop's loop leaves the pools alone.
LEMMA StopClosePool ==
    ASSUME PoolInv, NEW s \in Session, StopClose(s)
    PROVE  PoolInv'
  <1> USE DEF PoolInv
  <1>1. UNCHANGED <<owner, conn, members, bySess, drain, poll>>
    BY DEF StopClose
  <1>2. TypeOK'
    BY DEF StopClose, TypeOK, DiscState
  <1>3. /\ \A t \in Session : InPool(t)' <=> InPool(t)
        /\ UniqueMember' /\ PoolBound'
    BY <1>1, SamePools
  <1>4. Lifecycle' /\ OneWriter' /\ IndexConsistent' /\ DrainingOutOfPool' /\ ReportSameClient'
    BY <1>1, <1>3 DEF Lifecycle, OneWriter, IndexConsistent, DrainingOutOfPool,
                      ReportSameClient, Draining
  <1> QED
    BY <1>2, <1>3, <1>4

\* To the registry, a step of the stopping server is one of its own steps, a
\* turn of Stop's loop, or nothing.
LEMMA StopStepCases ==
    ASSUME [StopNext]_srvVars
    PROVE  \/ [ProxyNext]_allVars
           \/ \E s \in Session : StopClose(s)
  BY DEF StopNext, StopStep, Serve, Start, StartFails, Listen, StopBegin, Deadline,
         StopHookDone, StopLoopEnds, ShutdownReturns, Upgrade, srvVars

\* Every step of the stopping server leaves the pools and the counts in order.
LEMMA StopNextPool == PoolInv /\ ProxyInv /\ [StopNext]_srvVars => PoolInv' /\ ProxyInv'
  <1> SUFFICES ASSUME PoolInv, ProxyInv, [StopNext]_srvVars PROVE PoolInv' /\ ProxyInv'
    OBVIOUS
  <1>1. CASE [ProxyNext]_allVars
    <2>1. PoolInv'
      BY <1>1, ProxyStepRefines, PoolStep, PoolStutter DEF Next
    <2> QED
      BY <1>1, <2>1, ProxyNextInv DEF PoolInv
  <1>2. ASSUME NEW s \in Session, StopClose(s) PROVE PoolInv' /\ ProxyInv'
    <2>1. UNCHANGED proxyVars
      BY <1>2 DEF StopClose
    <2>2. ProxyInv'
      BY <2>1 DEF proxyVars, ProxyInv, ProxyTypeOK, HoldsTunnel, StreamCountExact, Counted
    <2> QED
      BY <1>2, <2>2, StopClosePool
  <1> QED
    BY <1>1, <1>2, StopStepCases

\* Whenever the server is told to stop, and however the closing of sessions
\* falls between the steps of their connect handlers, the pools and the stream
\* counts stay in order.
THEOREM PoolsWhileStopping == StopSpec => [](PoolInv /\ ProxyInv)
  <1>1. StopInit => PoolInv /\ ProxyInv
    BY InitInv, ProxyInitInv DEF StopInit, ProxyInit, RegistryInv
  <1> QED
    BY <1>1, StopNextPool, PTL DEF StopSpec

\* The two indexes of the registry agree until the process ends, although Stop
\* closes sessions that are still on the way to Register.
THEOREM IndexesWhileStopping == StopSpec => []IndexConsistent
  <1>1. PoolInv => IndexConsistent
    BY DEF PoolInv
  <1> QED
    BY <1>1, PoolsWhileStopping, PTL

\* ActiveStreams stays exact while Stop closes the tunnels under the requests.
THEOREM StreamsWhileStopping == StopSpec => []StreamCountExact
  <1>1. ProxyInv => StreamCountExact
    BY DEF ProxyInv
  <1> QED
    BY <1>1, PoolsWhileStopping, PTL

\* Nor does Stop make the disconnect of one session evict another's tunnel.
THEOREM OwnEvictionWhileStopping == StopSpec => NoForeignEviction
  <1>1. ASSUME PoolInv, [StopNext]_srvVars PROVE [Eviction]_vars
    <2>1. CASE [ProxyNext]_allVars
      BY <1>1, <2>1, ProxyStepRefines, EvictionStep
    <2>2. ASSUME NEW s \in Session, StopClose(s) PROVE Eviction
      BY <2>2 DEF StopClose, Eviction, InPool, Members, Pos
    <2> QED
      BY <1>1, <2>1, <2>2, StopStepCases
  <1>2. StopSpec => [][Eviction]_vars
    BY <1>1, PoolsWhileStopping, PTL DEF StopSpec
  <1> QED
    BY <1>2 DEF NoForeignEviction, Eviction
=============================================================================
