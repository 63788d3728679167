---------------------------- MODULE PublicProxy ----------------------------
(***************************************************************************)
(* Public requests on top of the tunnel registry: servePublic and the      *)
(* reverse proxy (internal/server/proxy.go) and the counted streams they   *)
(* open (internal/server/bridge.go).  The module composes TunnelRegistry   *)
(* with one process per request; the two meet in Pick, in the yamux        *)
(* session a stream lives on and in ActiveStreams, which the drain         *)
(* goroutine of a superseded tunnel reads.                                 *)
(***************************************************************************)
EXTENDS TunnelRegistry, FiniteSets

CONSTANTS
    Request,                \* the public requests of one behaviour
    MaxStreamsPerTunnel     \* tunnel.max_streams_per_tunnel

ASSUME RequestAssumption ==
    /\ IsFiniteSet(Request)
    /\ MaxStreamsPerTunnel \in Nat \ {0}

VARIABLES
    req,            \* req[r]: where request r is, on which tunnel, its answer
    activeStreams   \* activeStreams[s]: the tunnel's ActiveStreams counter

proxyVars == <<req, activeStreams>>
allVars   == <<vars, proxyVars>>

\* picked: Pick returned a tunnel.  healthy: servePublic saw LocalHealthy.
\* admitted: ActiveStreams was below the limit too.
\* opened: yamux gave a stream that is not counted yet.  active: counted.
\* closing: the Transport closed the stream, which is still counted.
PC      == {"idle", "picked", "healthy", "admitted", "opened", "active", "closing",
            "done"}
Outcome == {"200", "502", "504"}
Status  == Outcome \union {"none", "503"}

ProxyTypeOK ==
    /\ req \in [Request -> [pc : PC, tunnel : Session \union {NoTunnel},
                            status : Status]]
    /\ activeStreams \in [Session -> Nat]

Goto(r, pc)        == req' = [req EXCEPT ![r].pc = pc]
Answer(r, status)  == req' = [req EXCEPT ![r].pc = "done", ![r].status = status]

-----------------------------------------------------------------------------
\* servePublic for a request routed to subdomain h: Pool.Pick, or 503.
Pick(r, h) ==
    /\ req[r].pc = "idle"
    /\ IF PickFirst(h) = NoTunnel
       THEN Answer(r, "503")
       ELSE req' = [req EXCEPT ![r].pc = "picked", ![r].tunnel = PickFirst(h)]
    /\ UNCHANGED <<vars, activeStreams>>

\* servePublic loads LocalHealthy again, or 503.
CheckHealth(r) ==
    /\ req[r].pc = "picked"
    /\ IF req[r].tunnel \in localHealthy THEN Goto(r, "healthy") ELSE Answer(r, "503")
    /\ UNCHANGED <<vars, activeStreams>>

\* servePublic loads ActiveStreams and compares it with the limit, or 503.
Admit(r) ==
    /\ req[r].pc = "healthy"
    /\ IF activeStreams[req[r].tunnel] < MaxStreamsPerTunnel
       THEN Goto(r, "admitted")
       ELSE Answer(r, "503")
    /\ UNCHANGED <<vars, activeStreams>>

\* OpenStream: Yamux.Open fails on a closed yamux session, which the error
\* handler turns into 502.
OpenStream(r) ==
    /\ req[r].pc = "admitted"
    /\ IF req[r].tunnel \in yamuxClosed
       THEN Answer(r, "502")
       ELSE Goto(r, "opened")
    /\ UNCHANGED <<vars, activeStreams>>

\* OpenStream: ActiveStreams.Add(1).
CountStream(r) ==
    /\ req[r].pc = "opened"
    /\ Goto(r, "active")
    /\ activeStreams' = [activeStreams EXCEPT ![req[r].tunnel] = @ + 1]
    /\ UNCHANGED vars

\* The exchange on the stream ends and the Transport closes the stream.  The
\* answer is what proxyErrorHandler makes of the outcome: the backend's, 504
\* when the response header timeout fired, 502 for every other error (the
\* client gave up, the client process could not reach its backend, the yamux
\* session went away underneath).
StreamEnds(r, status) ==
    /\ req[r].pc = "active"
    /\ req' = [req EXCEPT ![r] = [pc |-> "closing", tunnel |-> @.tunnel, status |-> status]]
    /\ UNCHANGED <<vars, activeStreams>>

\* Variant: a stream that failed with its tunnel is not uncounted.
UncountStreamUnlessLost(r) ==
    /\ req[r].pc = "closing"
    /\ Goto(r, "done")
    /\ activeStreams' = IF req[r].status = "502" THEN activeStreams
                        ELSE [activeStreams EXCEPT ![req[r].tunnel] = @ - 1]
    /\ UNCHANGED vars

\* countedConn.Close after the stream is closed: ActiveStreams.Add(-1).
UncountStream(r) ==
    /\ req[r].pc = "closing"
    /\ Goto(r, "done")
    /\ activeStreams' = [activeStreams EXCEPT ![req[r].tunnel] = @ - 1]
    /\ UNCHANGED vars

\* The drain loop sees ActiveStreams at zero.
DrainIdle(s) ==
    /\ activeStreams[s] = 0
    /\ DrainEnds(s, "idle")
    /\ UNCHANGED proxyVars

\* Variant: the drain loop has no deadline.
DrainNeverExpires(s) ==
    /\ drain[s] = "waiting"
    /\ activeStreams[s] = 0
    /\ DrainEnds(s, "expired")
    /\ UNCHANGED proxyVars

\* The drain loop's deadline passes.
DrainExpired(s) ==
    /\ DrainEnds(s, "expired")
    /\ UNCHANGED proxyVars

-----------------------------------------------------------------------------
ProxyInit ==
    /\ Init
    /\ req = [r \in Request |-> [pc |-> "idle", tunnel |-> NoTunnel, status |-> "none"]]
    /\ activeStreams = [s \in Session |-> 0]

RequestStep(r) ==
    \/ \E h \in Host : Pick(r, h)
    \/ CheckHealth(r)
    \/ Admit(r)
    \/ OpenStream(r)
    \/ CountStream(r)
    \/ \E status \in Outcome : StreamEnds(r, status)
    \/ UncountStream(r)

ProxyNext ==
    \/ \E r \in Request : RequestStep(r)
    \/ \E s \in Session :
          \/ HookStep(s) /\ UNCHANGED proxyVars
          \/ DrainIdle(s)
          \/ DrainExpired(s)
          \/ DrainClose(s) /\ UNCHANGED proxyVars

\* Handlers keep running: a connect or disconnect hook is not abandoned half
\* way, pollmux's sweeper ends a session that is closed and therefore no longer
\* polled, and a stream on a closed yamux session fails.  A
\* live exchange may go on for ever: only response headers have a timeout, so
\* nothing is assumed about StreamEnds there.  The drain loop polls every
\* 100 ms, so its deadline is noticed whatever the counter does.  A session
\* that stays in the store polls on (the sweeper would close it otherwise), and
\* a report whose tunnel was found is stored.
ProxyFairness ==
    /\ \A r \in Request :
          /\ WF_allVars(CheckHealth(r))
          /\ WF_allVars(Admit(r))
          /\ WF_allVars(OpenStream(r))
          /\ WF_allVars(CountStream(r))
          /\ WF_allVars(/\ req[r].tunnel \in yamuxClosed
                        /\ \E status \in Outcome : StreamEnds(r, status))
          /\ WF_allVars(UncountStream(r))
    /\ \A s \in Session :
          /\ WF_allVars(/\ RegisterReplace(s) \/ RegisterAppend(s) \/ RegisterRefused(s)
                        /\ UNCHANGED proxyVars)
          /\ WF_allVars(RegisterDone(s) /\ UNCHANGED proxyVars)
          /\ WF_allVars(s \in sessionClosed /\ CloseSession(s) /\ UNCHANGED proxyVars)
          /\ WF_allVars(DisconnectLookup(s) /\ UNCHANGED proxyVars)
          /\ WF_allVars(/\ DisconnectRemove(s) \/ DisconnectUnknown(s)
                        /\ UNCHANGED proxyVars)
          /\ WF_allVars(DrainExpired(s))
          /\ WF_allVars(DrainClose(s) /\ UNCHANGED proxyVars)
          /\ WF_allVars(TransportCollapse(s) /\ UNCHANGED proxyVars)
          /\ WF_allVars((\E ok \in BOOLEAN : PollLookup(s, ok)) /\ UNCHANGED proxyVars)
          /\ WF_allVars(PollStore(s) /\ UNCHANGED proxyVars)

ProxySpec     == ProxyInit /\ [][ProxyNext]_allVars
FairProxySpec == ProxySpec /\ ProxyFairness

-----------------------------------------------------------------------------
(* Properties.                                                             *)

\* The requests whose stream on tunnel s is counted.
Counted(s) == {r \in Request : req[r].tunnel = s /\ req[r].pc \in {"active", "closing"}}

\* ActiveStreams is exactly the number of requests that hold a counted stream
\* on the tunnel: every path that opened one releases it once, whether the
\* exchange succeeds, times out or loses its tunnel.  (The drain of a
\* superseded tunnel and the stream limit both rest on this counter.)
StreamCountExact == \A s \in Session : activeStreams[s] = Cardinality(Counted(s))

\* A superseded tunnel is closed in the end even if its streams never finish:
\* the drain loop has a deadline.
SupersededCloses ==
    \A s \in Session : drain[s] = "waiting" ~> (s \in yamuxClosed /\ s \in sessionClosed)

\* When a tunnel is closed, by drain or by disconnect, the requests on it end
\* and its counter returns to zero.
ClosedReleasesStreams ==
    \A s \in Session : s \in yamuxClosed ~> activeStreams[s] = 0

\* The client of tunnel s reports on it, and no bad report is under way.
WellReported(s) ==
    /\ InPool(s) /\ conn[s] = "connected" /\ s \in store
    /\ owner[s] \in HealthEnabled
    /\ \A t \in Session : poll[t].target = s => poll[t].ok

\* A tunnel is not left out of service by an old report: while it stays in its
\* pool, its client goes on polling and every report that finds it is a good
\* one, it becomes healthy, although reports of a superseded session may have
\* reached it and two reports may have been stored in the other order.
HealthRecovers ==
    \A s \in Session : WellReported(s) ~> (s \in localHealthy \/ ~WellReported(s))

\* The comment on beginSupersedeDrain: a replaced tunnel stays alive until its
\* in-flight streams finish or drainTimeout elapses.  So a drain that was not
\* ended by the deadline closes a tunnel without streams.
DrainKeepsStreams ==
    [][\A s \in Session :
          drain[s] = "idle" /\ drain'[s] = "done" /\ s \notin yamuxClosed
          => \A r \in Request : req[r].tunnel = s => req[r].pc \notin {"opened", "active"}]_allVars
=============================================================================
