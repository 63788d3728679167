--------------------------- MODULE TunnelRegistry ---------------------------
(***************************************************************************)
(* The server's registry of client tunnels (internal/registry) together    *)
(* with the pollmux hooks that drive it (internal/server/server.go):       *)
(* connect and register, supersede and drain, health reports, disconnect.  *)
(*                                                                         *)
(* onConnect builds one ClientTunnel per pollmux session, so a tunnel is   *)
(* named by its session.  A step is one critical section of the code, or   *)
(* one access to an atomic field outside any of them.                      *)
(***************************************************************************)
EXTENDS Integers, Sequences

CONSTANTS
    Client,         \* the client_ids of the configured bindings
    Session,        \* pollmux session ids; each is handed out once
    Host,           \* the subdomains that own a TunnelPool
    Subdomain,      \* Subdomain[c]: the subdomain of client c's binding
    MaxClients,     \* MaxClients[c]: the max_clients of client c's binding
    HealthEnabled,  \* the clients whose polls carry X-Local-Health
    NoTunnel,       \* Go's nil *ClientTunnel
    NoClient        \* the owner of a session id that is not in use yet

ASSUME BindingAssumption ==
    /\ Subdomain \in [Client -> Host]
    /\ MaxClients \in [Client -> Nat \ {0}]
    /\ HealthEnabled \subseteq Client

ASSUME NilAssumption ==
    /\ NoTunnel \notin Session
    /\ NoClient \notin Client

VARIABLES
    store,          \* sessions in pollmux's SessionStore
    owner,          \* owner[s]: the client_id in the session's meta
    conn,           \* conn[s]: how far the connect handler of s has come
    members,        \* members[h]: TunnelPool.members of subdomain h
    bySess,         \* the keys of Registry.bySess
    sessionClosed,  \* sessions for which Session.IsClosed() is true
    yamuxClosed,    \* sessions for which Yamux.IsClosed() is true
    localHealthy,   \* tunnels whose LocalHealthy flag is set
    drain,          \* drain[s]: the goroutine of beginSupersedeDrain(s)
    disc,           \* disc[s]: how far the OnDisconnect hook of s has come
    poll            \* poll[s]: the SetLocalHealth call of s under way

vars == <<store, owner, conn, members, bySess, sessionClosed, yamuxClosed,
          localHealthy, drain, disc, poll>>

ConnState  == {"idle", "stored", "adding", "connected", "refused"}
DrainState == {"none", "waiting", "idle", "expired", "done"}
DiscState  == {"none", "closing", "looked", "done"}

\* A SetLocalHealth call between its ByID and its Store; NoPoll when none.
Poll   == [target : Session \union {NoTunnel}, ok : BOOLEAN]
NoPoll == [target |-> NoTunnel, ok |-> FALSE]

TypeOK ==
    /\ store \subseteq Session
    /\ owner \in [Session -> Client \union {NoClient}]
    /\ conn \in [Session -> ConnState]
    /\ members \in [Host -> Seq(Session)]
    /\ bySess \subseteq Session
    /\ sessionClosed \subseteq Session
    /\ yamuxClosed \subseteq Session
    /\ localHealthy \subseteq Session
    /\ drain \in [Session -> DrainState]
    /\ disc \in [Session -> DiscState]
    /\ poll \in [Session -> Poll]

-----------------------------------------------------------------------------
(* Reading the registry.                                                   *)

Pos(h)     == DOMAIN members[h]
Members(h) == {members[h][i] : i \in Pos(h)}
InPool(s)  == \E h \in Host : s \in Members(h)

\* The least of a non-empty set of positions.
First(I) == CHOOSE i \in I : \A j \in I : i <= j

\* The positions of the members of h that belong to client c.
IndexOf(h, c) == {i \in Pos(h) : owner[members[h][i]] = c}

\* TunnelPool.ByID: the first member with that client_id, or nil.
ByID(h, c) ==
    IF IndexOf(h, c) = {} THEN NoTunnel ELSE members[h][First(IndexOf(h, c))]

Alive(s)    == s \notin yamuxClosed /\ s \notin sessionClosed
Draining(s) == drain[s] # "none"

\* firstAvailable accepts a member that is alive, healthy and not draining.
Available(s) == Alive(s) /\ s \in localHealthy /\ ~Draining(s)

\* firstAvailable.Pick: the first acceptable member of the pool, or nil.
PickFirst(h) ==
    LET I == {i \in Pos(h) : Available(members[h][i])}
    IN  IF I = {} THEN NoTunnel
        ELSE members[h][First(I)]

\* Registry.mu is write-locked from pool.Add to the end of Register; every
\* other writer's critical section is one step.
MuFree == \A s \in Session : conn[s] # "adding"

\* m with position i cut out, as append(m[:i], m[i+1:]...) does.
CutAt(m, i) == [j \in 1..(Len(m) - 1) |-> IF j < i THEN m[j] ELSE m[j + 1]]

\* Variant: TunnelPool.Remove is forgotten.
WithoutNone(h, c) == members[h]

\* TunnelPool.Remove: the members of h without the first one of client c.
Without(h, c) == IF IndexOf(h, c) = {} THEN members[h]
                 ELSE CutAt(members[h], First(IndexOf(h, c)))

-----------------------------------------------------------------------------
(* Connecting: authenticateConnect, then pollmux stores the session, then  *)
(* onConnect registers the tunnel.                                         *)

\* Client c has a tunnel in its pool: this connect is a reconnect.
IsMember(c) == ByID(Subdomain[c], c) # NoTunnel

\* Variant: off by one.
HasRoomPlusOne(c) == Len(members[Subdomain[c]]) <= MaxClients[c]

\* The pool of client c is not full by the max_clients of c's binding.
HasRoom(c) == Len(members[Subdomain[c]]) < MaxClients[c]

\* ConnectHandler: authenticateConnect accepts client c and pollmux puts a
\* fresh session in its store before it calls OnConnect.  A request that is
\* refused here changes nothing.
AuthenticateConnect(s, c) ==
    /\ conn[s] = "idle"
    /\ IsMember(c) \/ HasRoom(c)
    /\ conn' = [conn EXCEPT ![s] = "stored"]
    /\ owner' = [owner EXCEPT ![s] = c]
    /\ store' = store \union {s}
    /\ UNCHANGED <<members, bySess, sessionClosed, yamuxClosed, localHealthy,
                   drain, disc, poll>>

\* Variants: Add appends the new tunnel beside the old one; Register leaves
\* the old tunnel in bySess; Add does not start the drain.
PutBeside(m, i, s)     == Append(m, s)
UnindexNone(old)       == bySess
BeginNoDrain(old)      == drain

\* p.members[i] = t
PutAt(m, i, s)           == [m EXCEPT ![i] = s]
\* delete(r.bySess, old.Session.ID)
Unindex(old)             == bySess \ {old}
\* Draining is set and the drain goroutine started.
BeginSupersedeDrain(old) == [drain EXCEPT ![old] = "waiting"]

\* Register up to the end of pool.Add, the client being already a member:
\* the new tunnel takes the slot of the old one, which leaves bySess and
\* starts to drain.
RegisterReplace(s) ==
    LET c   == owner[s]
        h   == Subdomain[c]
        old == ByID(h, c)
    IN  /\ conn[s] = "stored"
        /\ MuFree
        /\ IsMember(c)
        /\ members' = [members EXCEPT ![h] = PutAt(@, First(IndexOf(h, c)), s)]
        /\ bySess' = Unindex(old)
        /\ drain' = BeginSupersedeDrain(old)
        /\ conn' = [conn EXCEPT ![s] = "adding"]
        /\ UNCHANGED <<store, owner, sessionClosed, yamuxClosed, localHealthy,
                       disc, poll>>

\* Register up to the end of pool.Add, the client being new to the pool.
RegisterAppend(s) ==
    /\ conn[s] = "stored"
    /\ MuFree
    /\ ~IsMember(owner[s])
    /\ HasRoom(owner[s])
    /\ members' = [members EXCEPT ![Subdomain[owner[s]]] = Append(@, s)]
    /\ conn' = [conn EXCEPT ![s] = "adding"]
    /\ UNCHANGED <<store, owner, bySess, sessionClosed, yamuxClosed,
                   localHealthy, drain, disc, poll>>

\* Register fails with ErrPoolFull: onConnect closes yamux and returns 409,
\* and pollmux discards the session.
RegisterRefused(s) ==
    /\ conn[s] = "stored"
    /\ MuFree
    /\ ~IsMember(owner[s])
    /\ ~HasRoom(owner[s])
    /\ conn' = [conn EXCEPT ![s] = "refused"]
    /\ yamuxClosed' = yamuxClosed \union {s}
    /\ sessionClosed' = sessionClosed \union {s}
    /\ store' = store \ {s}
    /\ UNCHANGED <<owner, members, bySess, localHealthy, drain, disc, poll>>

\* The rest of Register: LocalHealthy.Store(true), bySess, r.mu.Unlock.
RegisterDone(s) ==
    /\ conn[s] = "adding"
    /\ conn' = [conn EXCEPT ![s] = "connected"]
    /\ localHealthy' = localHealthy \union {s}
    /\ bySess' = bySess \union {s}
    /\ UNCHANGED <<store, owner, members, sessionClosed, yamuxClosed, drain,
                   disc, poll>>

-----------------------------------------------------------------------------
(* Health reports: onPoll calls SetLocalHealth with the subdomain and the  *)
(* client_id of the session's meta.                                        *)

\* if t := pool.ByID(clientID); t != nil
Found(t) == t # NoTunnel

\* Variant: any tunnel of the subdomain will do.
ReportTargetFirst(s) ==
    LET m == members[Subdomain[owner[s]]]
    IN  IF m = <<>> THEN NoTunnel ELSE m[1]

\* Variant: the tunnel a request would get, so never an unhealthy one.
ReportTargetPick(s) == PickFirst(Subdomain[owner[s]])

\* pool.ByID(clientID), by the subdomain and client_id of session s
ReportTarget(s) == ByID(Subdomain[owner[s]], owner[s])

\* SetLocalHealth finds the client's tunnel.  r.mu is held only to find the
\* pool, which never goes away, so this may fall inside another Register.
PollLookup(s, ok) ==
    LET t == ReportTarget(s)
    IN  /\ conn[s] = "connected"
        /\ s \in store
        /\ owner[s] \in HealthEnabled
        /\ poll[s] = NoPoll
        /\ Found(t)
        /\ poll' = [poll EXCEPT ![s] = [target |-> t, ok |-> ok]]
        /\ UNCHANGED <<store, owner, conn, members, bySess, sessionClosed,
                       yamuxClosed, localHealthy, drain, disc>>

\* SetLocalHealth stores the reported value in the tunnel it found.
PollStore(s) ==
    /\ poll[s] # NoPoll
    /\ localHealthy' = IF poll[s].ok THEN localHealthy \union {poll[s].target}
                                     ELSE localHealthy \ {poll[s].target}
    /\ poll' = [poll EXCEPT ![s] = NoPoll]
    /\ UNCHANGED <<store, owner, conn, members, bySess, sessionClosed,
                   yamuxClosed, drain, disc>>

-----------------------------------------------------------------------------
(* The end of a session.                                                   *)

\* pollmux.CloseSession (client DELETE, sweeper, server stop): the session
\* leaves the store and is closed; OnDisconnect runs next, once.
CloseSession(s) ==
    /\ conn[s] = "connected"
    /\ s \in store
    /\ store' = store \ {s}
    /\ sessionClosed' = sessionClosed \union {s}
    /\ disc' = [disc EXCEPT ![s] = "closing"]
    /\ UNCHANGED <<owner, conn, members, bySess, yamuxClosed, localHealthy,
                   drain, poll>>

\* Variant: onDisconnect goes straight to the client_id of the session.
IsRegisteredAlways(s) == TRUE

\* t, ok := r.bySess[sessionID]
IsRegistered(s) == s \in bySess

\* onDisconnect: GetBySessionID, and Yamux.Close if it found the tunnel.
DisconnectLookup(s) ==
    /\ disc[s] = "closing"
    /\ MuFree
    /\ disc' = [disc EXCEPT ![s] = "looked"]
    /\ yamuxClosed' = IF IsRegistered(s) THEN yamuxClosed \union {s} ELSE yamuxClosed
    /\ UNCHANGED <<store, owner, conn, members, bySess, sessionClosed,
                   localHealthy, drain, poll>>

\* RemoveBySessionID with a registered session: TunnelPool.Remove drops the
\* first member that has the tunnel's client_id.
DisconnectRemove(s) ==
    LET h == Subdomain[owner[s]]
    IN  /\ disc[s] = "looked"
        /\ MuFree
        /\ IsRegistered(s)
        /\ disc' = [disc EXCEPT ![s] = "done"]
        /\ bySess' = bySess \ {s}
        /\ members' = [members EXCEPT ![h] = Without(h, owner[s])]
        /\ UNCHANGED <<store, owner, conn, sessionClosed, yamuxClosed,
                       localHealthy, drain, poll>>

\* RemoveBySessionID returns early: the session is not registered (any more).
DisconnectUnknown(s) ==
    /\ disc[s] = "looked"
    /\ MuFree
    /\ ~IsRegistered(s)
    /\ disc' = [disc EXCEPT ![s] = "done"]
    /\ UNCHANGED <<store, owner, conn, members, bySess, sessionClosed,
                   yamuxClosed, localHealthy, drain, poll>>

\* yamux runs over the session: when one of them is closed the other follows.
TransportCollapse(s) ==
    /\ conn[s] \in {"adding", "connected"}
    /\ s \in sessionClosed \union yamuxClosed
    /\ ~(s \in sessionClosed /\ s \in yamuxClosed)
    /\ sessionClosed' = sessionClosed \union {s}
    /\ yamuxClosed' = yamuxClosed \union {s}
    /\ UNCHANGED <<store, owner, conn, members, bySess, localHealthy, drain,
                   disc, poll>>

-----------------------------------------------------------------------------
(* The drain goroutine of a superseded tunnel.                             *)

\* The wait loop ends: no active stream was seen ("idle") or the deadline
\* passed ("expired").  The count of streams belongs to PublicProxy.
DrainEnds(s, why) ==
    /\ drain[s] = "waiting"
    /\ drain' = [drain EXCEPT ![s] = why]
    /\ UNCHANGED <<store, owner, conn, members, bySess, sessionClosed,
                   yamuxClosed, localHealthy, disc, poll>>

\* old.Close() closes yamux and the session.
DrainClose(s) ==
    /\ drain[s] \in {"idle", "expired"}
    /\ drain' = [drain EXCEPT ![s] = "done"]
    /\ yamuxClosed' = yamuxClosed \union {s}
    /\ sessionClosed' = sessionClosed \union {s}
    /\ UNCHANGED <<store, owner, conn, members, bySess, localHealthy, disc, poll>>

-----------------------------------------------------------------------------
Init ==
    /\ store = {}
    /\ owner = [s \in Session |-> NoClient]
    /\ conn = [s \in Session |-> "idle"]
    /\ members = [h \in Host |-> <<>>]
    /\ bySess = {}
    /\ sessionClosed = {}
    /\ yamuxClosed = {}
    /\ localHealthy = {}
    /\ drain = [s \in Session |-> "none"]
    /\ disc = [s \in Session |-> "none"]
    /\ poll = [s \in Session |-> NoPoll]

\* The steps of the hooks and of pollmux for session s.
HookStep(s) ==
    \/ \E c \in Client : AuthenticateConnect(s, c)
    \/ RegisterReplace(s)
    \/ RegisterAppend(s)
    \/ RegisterRefused(s)
    \/ RegisterDone(s)
    \/ \E ok \in BOOLEAN : PollLookup(s, ok)
    \/ PollStore(s)
    \/ CloseSession(s)
    \/ DisconnectLookup(s)
    \/ DisconnectRemove(s)
    \/ DisconnectUnknown(s)
    \/ TransportCollapse(s)

DrainStep(s) ==
    \/ \E why \in {"idle", "expired"} : DrainEnds(s, why)
    \/ DrainClose(s)

Next == \E s \in Session : HookStep(s) \/ DrainStep(s)

Spec == Init /\ [][Next]_vars

-----------------------------------------------------------------------------
(* Properties.                                                             *)

\* The tunnel that ByID finds for client c.
Current(c) == ByID(Subdomain[c], c)

\* The two indexes of the registry agree.  Whenever r.mu is free, bySess has
\* exactly the sessions whose tunnels are in a pool; inside Register only the
\* tunnel being added is in its pool and not yet in bySess.
\* (Register deletes the entry of the tunnel it replaces, RemoveBySessionID
\* removes from both.)
IndexConsistent ==
    \A s \in Session : s \in bySess <=> (InPool(s) /\ conn[s] # "adding")

\* A pool never holds two tunnels of one client_id, and only holds tunnels of
\* clients bound to its subdomain: ByID and Remove, which stop at the first
\* match, are then exact.
UniqueMember ==
    \A h \in Host : \A i, j \in Pos(h) :
        /\ owner[members[h][i]] \in Client
        /\ Subdomain[owner[members[h][i]]] = h
        /\ owner[members[h][i]] = owner[members[h][j]] => i = j

\* The member in position i of a pool belongs to a client whose binding allows
\* at least i clients, although authenticateConnect tests the size long before
\* Register adds the tunnel, other connects come in between, and members leave
\* and are replaced.  So a pool is never larger than the max_clients of its
\* last member.
PoolBound ==
    \A h \in Host : \A i \in Pos(h) : i <= MaxClients[owner[members[h][i]]]

\* No tunnel is lost: a registered tunnel whose yamux session is still open
\* is in its pool, or its drain goroutine has yet to close it.  (A tunnel that
\* is in neither can be reached by nobody and would leak.)
NoOrphanTunnel ==
    \A s \in Session :
        conn[s] = "connected" /\ s \notin yamuxClosed
        => InPool(s) \/ drain[s] \in {"waiting", "idle", "expired"}

\* A superseded tunnel never comes back: what drains is in no pool, so no new
\* request can be routed to it.
DrainingOutOfPool == \A s \in Session : Draining(s) => ~InPool(s)

\* A health report is on its way to a tunnel of the client that sent it (a
\* part of PoolInv, from which PoolServes follows).
ReportSameClient ==
    \A s \in Session : poll[s] # NoPoll => owner[poll[s].target] = owner[s]

\* How the stages of a session's life go together: what is in a pool has come
\* through Register, and what drains or reports its health has left it.
Lifecycle ==
    \A s \in Session :
        /\ conn[s] # "idle" => owner[s] \in Client
        /\ InPool(s) => conn[s] \in {"adding", "connected"}
        /\ conn[s] = "adding" => InPool(s)
        /\ Draining(s) \/ poll[s] # NoPoll => conn[s] = "connected"
        /\ poll[s] # NoPoll => /\ poll[s].target \in Session
                               /\ conn[poll[s].target] \in {"adding", "connected"}

\* What disconnects has come through Register and left the store, and a
\* session that onDisconnect found registered has its yamux session closed.
\* (Stop does not keep to this: it may close a session that still connects.)
Disconnecting ==
    \A s \in Session :
        /\ disc[s] # "none" => conn[s] = "connected"
        /\ s \in store => disc[s] = "none"
        /\ disc[s] = "looked" /\ s \in bySess => s \in yamuxClosed

\* Register runs for one session at a time.
OneWriter == \A s, t \in Session : conn[s] = "adding" /\ conn[t] = "adding" => s = t

\* What holds of the pools whoever closes sessions, and when.
PoolInv ==
    /\ TypeOK
    /\ Lifecycle
    /\ OneWriter
    /\ UniqueMember
    /\ IndexConsistent
    /\ DrainingOutOfPool
    /\ PoolBound
    /\ ReportSameClient

\* The inductive invariant from which the others are proved: the state the
\* hooks leave the registry in between any two of their critical sections.
RegistryInv ==
    /\ PoolInv
    /\ Disconnecting
    /\ NoOrphanTunnel

\* A tunnel leaves its pool only in the OnDisconnect hook of its own session
\* or because a newer tunnel of the same client_id takes its slot.  In
\* particular the late disconnect of a superseded session does not evict the
\* replacement, although TunnelPool.Remove goes by client_id.
NoForeignEviction ==
    [][\A s \in Session :
          InPool(s) /\ ~InPool(s)' =>
              \/ disc[s] = "looked" /\ disc'[s] = "done"
              \/ \E n \in Session : /\ owner[n] = owner[s]
                                    /\ ~InPool(n) /\ InPool(n)']_vars

\* The open tunnel of a client without a health check serves: once Register
\* has returned, and as long as it is in its pool, Pick accepts it, through
\* supersessions, disconnects and the health reports of the other clients of
\* that subdomain.
PoolServes ==
    \A s \in Session :
        (/\ conn[s] = "connected" /\ InPool(s) /\ Alive(s)
         /\ owner[s] \notin HealthEnabled)
            => Available(s)

\* A closed session does not hold its place: its tunnel leaves the pool, by
\* disconnect or by supersession (a dead member keeps others out with 409).
ClosedLeavesPool ==
    \A s \in Session : s \in sessionClosed ~> ~InPool(s)

\* The registry implements ClientDirectory: per client_id one current session,
\* which only a newer one or its own end displaces.
Directory == INSTANCE ClientDirectory WITH
                 NoSession <- NoTunnel,
                 current   <- [c \in Client |-> Current(c)],
                 used      <- {s \in Session : conn[s] \in {"adding", "connected"}},
                 ended     <- {s \in Session : disc[s] # "none"}
DirectorySpec == Directory!Spec
=============================================================================
