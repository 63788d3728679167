----------------------------- MODULE ServerStop -----------------------------
(***************************************************************************)
(* Starting and stopping the server process (cmd/server/main.go and Start, *)
(* Stop of internal/server/server.go) around the running PublicProxy:      *)
(* Start returns before anything listens, and Stop closes the sessions it  *)
(* finds in one snapshot of the store before it shuts the listeners down.  *)
(*                                                                         *)
(* The server stops at any time, so a session may be closed by Stop while  *)
(* its connect handler is still on the way to Register.                    *)
(***************************************************************************)
EXTENDS PublicProxy

CONSTANT Srv    \* the http.Servers this configuration starts

ASSUME SrvAssumption == "public" \in Srv /\ Srv \subseteq {"public", "http80", "status"}

VARIABLES
    phase,      \* how far main has come
    listener,   \* the listening goroutine of the public server
    snapshot,   \* sessionStore.All() as Stop read it
    todo,       \* the sessions of the snapshot Stop has yet to close
    hook,       \* the session whose OnDisconnect Stop is running, or NoTunnel
    expired,    \* the deadline of the shutdown context has passed
    exit,       \* the exit status of the process
    hijacked    \* the public requests whose connection was hijacked

stopVars == <<phase, listener, snapshot, todo, hook, expired, exit, hijacked>>
srvVars  == <<allVars, stopVars>>

\* closing: Stop is in its CloseSession loop.  A server's name: Stop is in the
\* Shutdown call of that server.
Stopping == {"closing", "public", "http80", "status"}

\* Once Stop is past its loop, nothing of the loop is left.
StopTypeOK ==
    /\ phase \in {"new", "running", "stopped"} \union Stopping
    /\ listener \in {"none", "opening", "open", "failed", "closed"}
    /\ snapshot \subseteq Session
    /\ todo \subseteq snapshot
    /\ hook \in Session \union {NoTunnel}
    /\ expired \in BOOLEAN
    /\ exit \in {"none", "0", "1"}
    /\ hijacked \subseteq Request
    /\ phase # "closing" => todo = {} /\ hook = NoTunnel

-----------------------------------------------------------------------------
\* Start: the sweeper runs, each server gets its listening goroutine, nil.
\* The redirect and status servers keep no state of the model.
Start ==
    /\ phase = "new"
    /\ phase' = "running"
    /\ listener' = "opening"
    /\ UNCHANGED <<allVars, snapshot, todo, hook, expired, exit, hijacked>>

\* Start: setupTLS fails (only with TLS), and main ends with logger.Fatal.
StartFails ==
    /\ phase = "new"
    /\ "http80" \in Srv
    /\ phase' = "stopped"
    /\ exit' = "1"
    /\ UNCHANGED <<allVars, listener, snapshot, todo, hook, expired, hijacked>>

\* ListenAndServe binds its address, or fails, which is logged and no more.
Listen(outcome) ==
    /\ listener = "opening"
    /\ listener' = outcome
    /\ UNCHANGED <<allVars, phase, snapshot, todo, hook, expired, exit, hijacked>>

\* This step is the start of a handler, a connect or a request.  (A poll may
\* come over a connection that is already open, the client's WebSocket.)
Accepts ==
    \/ \E s \in Session : conn[s] = "idle" /\ conn'[s] # "idle"
    \/ \E r \in Request : req[r].pc = "idle" /\ req'[r].pc # "idle"

\* Handlers only start through the public listener; what they have begun goes
\* on until the process ends.
Serve ==
    /\ phase # "stopped"
    /\ ProxyNext
    /\ Accepts => listener = "open"
    /\ UNCHANGED stopVars

\* The client answered 101 to a public WebSocket: ReverseProxy hijacks the
\* connection of the request, which goes on as a stream of the tunnel.
Upgrade(r) ==
    /\ phase # "stopped"
    /\ req[r].pc = "active"
    /\ r \notin hijacked
    /\ hijacked' = hijacked \union {r}
    /\ UNCHANGED <<allVars, phase, listener, snapshot, todo, hook, expired, exit>>

-----------------------------------------------------------------------------
\* A signal: main makes the shutdown context and calls Stop, which reads the
\* session store.
StopBegin ==
    /\ phase = "running"
    /\ phase' = "closing"
    /\ snapshot' = store
    /\ todo' = store
    /\ UNCHANGED <<allVars, listener, hook, expired, exit, hijacked>>

\* Variant: the session is closed but not taken out of the store.
StopCloseKeeps(s) ==
    /\ phase = "closing"
    /\ hook = NoTunnel
    /\ s \in todo
    /\ todo' = todo \ {s}
    /\ sessionClosed' = sessionClosed \union {s}
    /\ UNCHANGED <<store, owner, conn, members, bySess, yamuxClosed, localHealthy,
                   drain, poll, disc, proxyVars, phase, listener, snapshot, hook,
                   expired, exit, hijacked>>

\* CloseSession for one session of the snapshot, whatever its connect handler
\* is doing; OnDisconnect follows on this goroutine.  A session that somebody
\* else has closed meanwhile is skipped.
StopClose(s) ==
    /\ phase = "closing"
    /\ hook = NoTunnel
    /\ s \in todo
    /\ todo' = todo \ {s}
    /\ IF s \in store
       THEN /\ store' = store \ {s}
            /\ sessionClosed' = sessionClosed \union {s}
            /\ disc' = [disc EXCEPT ![s] = "closing"]
            /\ hook' = s
       ELSE UNCHANGED <<store, sessionClosed, disc, hook>>
    /\ UNCHANGED <<owner, conn, members, bySess, yamuxClosed, localHealthy, drain,
                   poll, proxyVars, phase, listener, snapshot, expired, exit, hijacked>>

\* OnDisconnect has returned to the loop.
StopHookDone ==
    /\ hook # NoTunnel
    /\ disc[hook] = "done"
    /\ hook' = NoTunnel
    /\ UNCHANGED <<allVars, phase, listener, snapshot, todo, expired, exit, hijacked>>

\* if s.http80Srv != nil, if s.statusSrv != nil, in this order
NextPhase(v) == IF v = "public" /\ "http80" \in Srv THEN "http80"
                ELSE IF v # "status" /\ "status" \in Srv THEN "status"
                ELSE "stopped"

\* Stop enters p, the Shutdown of a server (which closes its listener first)
\* or the end: done is closed and main returns.
Enter(p) ==
    /\ phase' = p
    /\ listener' = IF p = "public" THEN "closed" ELSE listener

\* The loop ends; stopSweeper, then httpSrv.Shutdown.
StopLoopEnds ==
    /\ phase = "closing"
    /\ todo = {}
    /\ hook = NoTunnel
    /\ Enter("public")
    /\ UNCHANGED <<allVars, snapshot, todo, hook, expired, exit, hijacked>>

\* What Shutdown waits for: no connect handler is at work, and no public
\* request but the ones whose connection was hijacked.  (A poll comes over a
\* hijacked connection too, the client's WebSocket; polls are not counted.)
HandlersIdle ==
    /\ \A s \in Session : conn[s] \notin {"stored", "adding"}
    /\ \A r \in Request \ hijacked : req[r].pc \in {"idle", "done"}

\* Variant: the error of Shutdown is dropped, as it is for the other servers.
StatusDropped == {"0"}

\* if err := s.httpSrv.Shutdown(ctx); err != nil, and main's os.Exit(1): once
\* the deadline has passed, either may be what Shutdown noticed first.
ExitStatus == {x \in {"0", "1"} : IF x = "0" THEN HandlersIdle ELSE expired}

\* Variant: Shutdown is given a context without deadline.
ShutdownPatient(v) ==
    /\ phase = v
    /\ HandlersIdle
    /\ Enter(NextPhase(v))
    /\ exit' = "0"
    /\ UNCHANGED <<allVars, snapshot, todo, hook, expired, hijacked>>

\* Shutdown of v returns: its handlers have returned, or the deadline passed.
\* Only the public server has handlers here.
ShutdownReturns(v) ==
    /\ phase = v
    /\ v = "public" => HandlersIdle \/ expired
    /\ Enter(NextPhase(v))
    /\ exit' \in IF v = "public" THEN ExitStatus ELSE {exit}
    /\ UNCHANGED <<allVars, snapshot, todo, hook, expired, hijacked>>

\* The shutdown context's timeout, session_timeout.
Deadline ==
    /\ phase \in Stopping
    /\ ~expired
    /\ expired' = TRUE
    /\ UNCHANGED <<allVars, phase, listener, snapshot, todo, hook, exit, hijacked>>

-----------------------------------------------------------------------------
StopInit ==
    /\ ProxyInit
    /\ phase = "new"
    /\ listener = "none"
    /\ snapshot = {}
    /\ todo = {}
    /\ hook = NoTunnel
    /\ expired = FALSE
    /\ exit = "none"
    /\ hijacked = {}

StopStep ==
    \/ \E s \in Session : StopClose(s)
    \/ StopHookDone
    \/ StopLoopEnds
    \/ \E v \in Srv : ShutdownReturns(v)

StopNext ==
    \/ Start
    \/ StartFails
    \/ Listen("open")
    \/ Listen("failed")
    \/ Serve
    \/ \E r \in Request : Upgrade(r)
    \/ StopBegin
    \/ StopStep
    \/ Deadline

\* Stop's goroutine keeps running, the context has a timeout, and the hooks
\* that hold or wait for Registry.mu come to their end.  Nothing is assumed
\* about the exchanges of public requests.
StopFairness ==
    /\ WF_srvVars(StopStep)
    /\ WF_srvVars(Deadline)
    /\ \A s \in Session :
          /\ WF_srvVars(/\ phase # "stopped" /\ RegisterDone(s)
                        /\ UNCHANGED <<proxyVars, stopVars>>)
          /\ WF_srvVars(/\ phase # "stopped"
                        /\ \/ DisconnectLookup(s)
                           \/ DisconnectRemove(s)
                           \/ DisconnectUnknown(s)
                        /\ UNCHANGED <<proxyVars, stopVars>>)

StopSpec     == StopInit /\ [][StopNext]_srvVars
FairStopSpec == StopSpec /\ StopFairness

-----------------------------------------------------------------------------
(* Properties.                                                             *)

\* When Stop leaves its loop every session of the snapshot is closed and out
\* of the store, also the ones that were connecting, that other goroutines
\* closed at the same time, or that a newer session had superseded.
SnapshotClosed ==
    phase \in {"public", "http80", "status"} =>
        \A s \in snapshot : s \notin store /\ s \in sessionClosed

\* A clean exit cuts off nothing but WebSockets: with status 0 no connect
\* handler is under way, and a public request that still is has had its
\* connection hijacked; none has started between the Shutdown calls and the
\* end of main.
CleanExit ==
    exit = "0" =>
        /\ \A s \in Session : conn[s] \notin {"stored", "adding"}
        /\ \A r \in Request : req[r].pc \notin {"idle", "done"} => r \in hijacked

\* A session that has left the store is closed, whoever took it out.
StoreInv ==
    /\ conn \in [Session -> ConnState]
    /\ store \subseteq Session
    /\ \A s \in Session :
          /\ s \in store => conn[s] # "idle"
          /\ conn[s] # "idle" => s \in store \/ s \in sessionClosed

\* Each request has its place.
HandlerShape ==
    /\ DOMAIN req = Request
    /\ \A r \in Request : "pc" \in DOMAIN req[r]

\* The inductive invariant from which the two are proved: what Stop has done
\* so far stays done, for the store takes no session twice and a closed
\* listener brings no new handler.
StopInv ==
    /\ StopTypeOK
    /\ StoreInv
    /\ HandlerShape
    /\ \A s \in snapshot : conn[s] # "idle"
    /\ \A s \in snapshot : s \in todo \/ s \notin store
    /\ phase = "public" => listener = "closed"
    /\ exit = "0" => /\ phase \in {"http80", "status", "stopped"}
                     /\ listener = "closed"
                     /\ HandlersIdle

\* Stop returns: the OnDisconnect hooks it runs get Registry.mu, and the
\* deadline ends a Shutdown that waits for an exchange without end.
StopReturns == phase = "closing" ~> phase = "stopped"
=============================================================================
