-------------------------- MODULE DirectoryProofs --------------------------
(***************************************************************************)
(* The registry implements ClientDirectory, and what that means for the    *)
(* pools step by step: no tunnel is evicted by another session's end.      *)
(***************************************************************************)
EXTENDS TunnelRegistryProofs

USE BindingAssumption, NilAssumption

\* What ByID returns, said through the set of pooled tunnels: the one pooled
\* tunnel of the client, or nil if it has none.
CurrentExact(c) ==
    \/ /\ Current(c) = NoTunnel
       /\ \A t \in Session : InPool(t) => owner[t] # c
    \/ /\ Current(c) \in Session
       /\ InPool(Current(c))
       /\ owner[Current(c)] = c
       /\ \A t \in Session : InPool(t) /\ owner[t] = c => t = Current(c)

\* ByID is exact in every state of the inductive invariant.
LEMMA CurrentFacts == RegistryInv => \A c \in Client : CurrentExact(c)
  <1> SUFFICES ASSUME RegistryInv, NEW c \in Client PROVE CurrentExact(c)
    OBVIOUS
  <1>1. TypeOK /\ UniqueMember
    BY DEF RegistryInv, PoolInv
  <1>2. PICK h \in Host : h = Subdomain[c]
    OBVIOUS
  <1>3. Pos(h) = 1..Len(members[h]) /\ Current(c) = ByID(h, c)
    BY <1>1, <1>2 DEF TypeOK, Pos, Current
  <1>4. \A t \in Session : InPool(t) /\ owner[t] = c => \E i \in Pos(h) : members[h][i] = t
    <2> SUFFICES ASSUME NEW t \in Session, InPool(t), owner[t] = c
                 PROVE  \E i \in Pos(h) : members[h][i] = t
      OBVIOUS
    <2>1. PICK k \in Host : \E i \in Pos(k) : members[k][i] = t
      BY InPoolPos
    <2>2. k = h
      BY <1>1, <1>2, <2>1 DEF UniqueMember
    <2> QED
      BY <2>1, <2>2
  <1>5. CASE ByID(h, c) = NoTunnel
    <2>1. \A i \in Pos(h) : owner[members[h][i]] # c
      BY <1>1, <1>5, ByIDFacts
    <2> QED
      BY <1>3, <1>4, <1>5, <2>1 DEF CurrentExact
  <1>6. CASE ByID(h, c) # NoTunnel
    <2>1. PICK i \in Pos(h) :
             /\ ByID(h, c) = members[h][i]
             /\ ByID(h, c) \in Session
             /\ owner[ByID(h, c)] = c
      BY <1>1, <1>3, <1>6, ByIDFacts
    <2>2. InPool(ByID(h, c))
      BY <2>1, InPoolPos
    <2>3. \A j \in Pos(h) : owner[members[h][j]] = c => j = i
      BY <1>1, <2>1 DEF UniqueMember
    <2> QED
      BY <1>3, <1>4, <2>1, <2>2, <2>3 DEF CurrentExact
  <1> QED
    BY <1>5, <1>6

\* The same in the state after a step.
LEMMA CurrentFactsNext == (RegistryInv => \A c \in Client : CurrentExact(c))'
  BY CurrentFacts, PTL

\* A client's current tunnel stays when no tunnel of that client enters or
\* leaves a pool.
LEMMA CurrentStays ==
    ASSUME NEW c \in Client, CurrentExact(c), CurrentExact(c)',
           \A t \in Session : (InPool(t)' /\ owner'[t] = c) <=> (InPool(t) /\ owner[t] = c)
    PROVE  Current(c)' = Current(c)
  BY DEF CurrentExact

-----------------------------------------------------------------------------
(* Evictions.                                                              *)

\* The action of the property NoForeignEviction.
Eviction ==
    \A s \in Session :
        InPool(s) /\ ~InPool(s)' =>
            \/ disc[s] = "looked" /\ disc'[s] = "done"
            \/ \E n \in Session : /\ owner[n] = owner[s]
                                  /\ ~InPool(n) /\ InPool(n)'

\* Only RegisterReplace and DisconnectRemove take a tunnel out of a pool.
LEMMA EvictionStep == PoolInv /\ [Next]_vars => Eviction \/ UNCHANGED vars
  <1> SUFFICES ASSUME PoolInv, Next PROVE Eviction
    BY DEF Next
  <1>1. PICK s \in Session : HookStep(s) \/ DrainStep(s)
    BY DEF Next
  <1>2. CASE RegisterReplace(s)
    <2>1. ~InPool(s) /\ InPool(s)'
      BY <1>2, ReplaceFacts DEF RegisterReplace, PoolInv, Lifecycle
    <2> QED
      BY <1>2, <2>1, ReplaceFacts DEF Eviction
  <1>3. CASE RegisterAppend(s)
    BY <1>3, AppendFacts DEF Eviction
  <1>4. CASE DisconnectRemove(s)
    <2>1. \A t \in Session : InPool(t)' <=> InPool(t) /\ t # s
      BY <1>4, RemoveFacts
    <2>2. disc[s] = "looked" /\ disc'[s] = "done"
      BY <1>4 DEF DisconnectRemove, PoolInv, TypeOK
    <2> QED
      BY <2>1, <2>2 DEF Eviction
  <1>5. CASE members' = members
    BY <1>5 DEF Eviction, InPool, Members, Pos
  <1> QED
    BY <1>1, <1>2, <1>3, <1>4, <1>5 DEF HookStep, DrainStep, AuthenticateConnect,
       RegisterRefused, RegisterDone, PollLookup, PollStore, CloseSession,
       DisconnectLookup, DisconnectUnknown, TransportCollapse, DrainEnds, DrainClose

\* A tunnel leaves its pool only through its own session's disconnect or to
\* make place for a newer tunnel of the same client_id, for any bindings and
\* any interleaving of connects, disconnects, reports and drains.
THEOREM OnlyOwnEviction == Spec => NoForeignEviction
  <1>1. RegistryInv /\ [Next]_vars => [Eviction]_vars
    BY EvictionStep DEF RegistryInv
  <1>2. Spec => [][Eviction]_vars
    BY <1>1, Invariance, PTL DEF Spec
  <1> QED
    BY <1>2 DEF NoForeignEviction, Eviction

-----------------------------------------------------------------------------
(* The refinement of ClientDirectory.                                      *)

\* The values the refinement mapping gives to the directory's variables.
AbsCurrent == [c \in Client |-> Current(c)]
AbsUsed    == {s \in Session : conn[s] \in {"adding", "connected"}}
AbsEnded   == {s \in Session : disc[s] # "none"}

\* An empty registry is an empty directory.
LEMMA DirectoryInit == Init => Directory!Init
  <1> SUFFICES ASSUME Init PROVE Directory!Init
    OBVIOUS
  <1>1. \A c \in Client : Current(c) = NoTunnel
    BY InitInv, CurrentFacts DEF Init, CurrentExact, InPool, Members, Pos
  <1> QED
    BY <1>1 DEF Init, Directory!Init

\* Registering session s makes it the current one of its client, at the
\* moment pool.Add puts it in the pool.
LEMMA RegisterConnects ==
    ASSUME NEW s \in Session, NEW c \in Client,
           \A d \in Client : CurrentExact(d) /\ CurrentExact(d)',
           conn \in [Session -> ConnState],
           c = owner[s], owner' = owner, disc' = disc,
           conn[s] = "stored", conn' = [conn EXCEPT ![s] = "adding"],
           InPool(s)',
           \A t \in Session : owner[t] # c => (InPool(t)' <=> InPool(t))
    PROVE  Directory!Connect(c, s)
  <1>1. Current(c)' = s
    BY DEF CurrentExact
  <1>2. \A d \in Client \ {c} : Current(d)' = Current(d)
    BY CurrentStays
  <1>3. AbsCurrent' = [AbsCurrent EXCEPT ![c] = s]
    BY <1>1, <1>2 DEF AbsCurrent
  <1>4. s \notin AbsUsed /\ AbsUsed' = AbsUsed \union {s} /\ AbsEnded' = AbsEnded
    BY DEF AbsUsed, AbsEnded
  <1> QED
    BY <1>3, <1>4 DEF Directory!Connect, AbsCurrent, AbsUsed, AbsEnded

\* A step that moves no tunnel in or out of a pool.
LEMMA DirectoryStutters ==
    ASSUME \A d \in Client : CurrentExact(d) /\ CurrentExact(d)',
           \A t \in Session : InPool(t)' <=> InPool(t),
           \A t \in Session : InPool(t) => owner'[t] = owner[t],
           AbsUsed' = AbsUsed, AbsEnded' = AbsEnded
    PROVE  UNCHANGED Directory!vars
  <1>1. \A c \in Client : Current(c)' = Current(c)
    BY CurrentStays
  <1>2. AbsCurrent' = AbsCurrent
    BY <1>1 DEF AbsCurrent
  <1> QED
    BY <1>2 DEF Directory!vars, AbsCurrent, AbsUsed, AbsEnded

\* Every step of the registry is a step of the directory or changes nothing
\* that the directory shows.
LEMMA DirectoryStep ==
    ASSUME RegistryInv, RegistryInv', [Next]_vars
    PROVE  [Directory!Next]_(Directory!vars)
  <1>1. \A d \in Client : CurrentExact(d)
    BY CurrentFacts
  <1>2. \A d \in Client : CurrentExact(d)'
    BY CurrentFactsNext
  <1>3. TypeOK
    BY DEF RegistryInv, PoolInv
  <1>4. CASE UNCHANGED vars
    BY <1>1, <1>2, <1>4, DirectoryStutters
       DEF vars, InPool, Members, Pos, AbsUsed, AbsEnded
  <1>5. ASSUME NEW s \in Session, RegisterReplace(s) PROVE Directory!Next
    <2>1. PICK c \in Client : c = owner[s]
      BY <1>5 DEF RegisterReplace, RegistryInv, PoolInv, Lifecycle
    <2>2. InPool(s)' /\ \A t \in Session : owner[t] # c => (InPool(t)' <=> InPool(t))
      BY <1>5, <2>1, ReplaceFacts DEF RegistryInv
    <2>3. Directory!Connect(c, s)
      BY <1>1, <1>2, <1>3, <1>5, <2>1, <2>2, RegisterConnects DEF RegisterReplace, TypeOK
    <2> QED
      BY <2>3 DEF Directory!Next
  <1>6. ASSUME NEW s \in Session, RegisterAppend(s) PROVE Directory!Next
    <2>1. PICK c \in Client : c = owner[s]
      BY <1>6 DEF RegisterAppend, RegistryInv, PoolInv, Lifecycle
    <2>2. InPool(s)' /\ \A t \in Session : owner[t] # c => (InPool(t)' <=> InPool(t))
      BY <1>6, <2>1, AppendFacts DEF RegistryInv
    <2>3. Directory!Connect(c, s)
      BY <1>1, <1>2, <1>3, <1>6, <2>1, <2>2, RegisterConnects DEF RegisterAppend, TypeOK
    <2> QED
      BY <2>3 DEF Directory!Next
  <1>7. ASSUME NEW s \in Session, CloseSession(s) PROVE Directory!Next
    <2>1. \A c \in Client : Current(c)' = Current(c)
      BY <1>1, <1>2, <1>7, CurrentStays DEF CloseSession, InPool, Members, Pos
    <2>2. AbsCurrent' = AbsCurrent
      BY <2>1 DEF AbsCurrent
    <2>3. AbsUsed' = AbsUsed /\ AbsEnded' = AbsEnded \union {s} /\ s \in AbsUsed \ AbsEnded
      BY <1>3, <1>7 DEF CloseSession, RegistryInv, PoolInv, Disconnecting, TypeOK,
                           AbsUsed, AbsEnded
    <2>4. Directory!End(s)
      BY <2>2, <2>3 DEF Directory!End, AbsCurrent, AbsUsed, AbsEnded
    <2> QED
      BY <2>4 DEF Directory!Next
  <1>8. ASSUME NEW s \in Session, DisconnectRemove(s) PROVE Directory!Next
    <2>1. \A t \in Session : InPool(t)' <=> InPool(t) /\ t # s
      BY <1>8, RemoveFacts DEF RegistryInv
    <2>2. InPool(s)
      BY <1>8 DEF DisconnectRemove, IsRegistered, RegistryInv, PoolInv, IndexConsistent
    <2>3. PICK c \in Client : c = owner[s]
      BY <2>2 DEF RegistryInv, PoolInv, Lifecycle
    <2>4. Current(c) = s
      BY <1>1, <2>2, <2>3 DEF CurrentExact
    <2>5. Current(c)' = NoTunnel
      BY <1>2, <1>8, <2>1, <2>3, <2>4, <1>1 DEF CurrentExact, DisconnectRemove
    <2>6. \A d \in Client \ {c} : Current(d)' = Current(d)
      BY <1>1, <1>2, <1>8, <2>1, <2>3, CurrentStays DEF DisconnectRemove
    <2>7. AbsCurrent' = [AbsCurrent EXCEPT ![c] = NoTunnel]
      BY <2>5, <2>6 DEF AbsCurrent
    <2>8. AbsCurrent[c] = s /\ s \in AbsEnded /\ AbsUsed' = AbsUsed /\ AbsEnded' = AbsEnded
      BY <1>3, <1>8, <2>4 DEF DisconnectRemove, TypeOK, AbsCurrent, AbsUsed, AbsEnded
    <2>9. Directory!Withdraw(c)
      BY <2>7, <2>8 DEF Directory!Withdraw, AbsCurrent, AbsUsed, AbsEnded
    <2> QED
      BY <2>9 DEF Directory!Next
  <1>9. ASSUME NEW s \in Session, NEW c \in Client, AuthenticateConnect(s, c)
        PROVE  UNCHANGED Directory!vars
    <2>1. \A t \in Session : InPool(t)' <=> InPool(t)
      BY <1>9 DEF AuthenticateConnect, InPool, Members, Pos
    <2>2. \A t \in Session : InPool(t) => owner'[t] = owner[t]
      <3>1. ~InPool(s)
        BY <1>9 DEF AuthenticateConnect, RegistryInv, PoolInv, Lifecycle
      <3>2. owner' = [owner EXCEPT ![s] = c]
        BY <1>9 DEF AuthenticateConnect
      <3> QED
        BY <1>3, <3>1, <3>2 DEF TypeOK
    <2>3. AbsUsed' = AbsUsed /\ AbsEnded' = AbsEnded
      BY <1>3, <1>9 DEF AuthenticateConnect, TypeOK, AbsUsed, AbsEnded
    <2> QED
      BY <1>1, <1>2, <2>1, <2>2, <2>3, DirectoryStutters
  <1>10. ASSUME members' = members, owner' = owner,
                AbsUsed' = AbsUsed, AbsEnded' = AbsEnded
         PROVE  UNCHANGED Directory!vars
    <2>1. \A t \in Session : InPool(t)' <=> InPool(t)
      BY <1>10 DEF InPool, Members, Pos
    <2> QED
      BY <1>1, <1>2, <1>10, <2>1, DirectoryStutters
  <1>11. ASSUME NEW s \in Session,
                \/ RegisterRefused(s) \/ RegisterDone(s) \/ PollStore(s)
                \/ DisconnectLookup(s) \/ DisconnectUnknown(s)
                \/ TransportCollapse(s) \/ DrainClose(s)
                \/ \E ok \in BOOLEAN : PollLookup(s, ok)
                \/ \E why \in {"idle", "expired"} : DrainEnds(s, why)
         PROVE  UNCHANGED Directory!vars
    <2>1. members' = members /\ owner' = owner
      BY <1>11 DEF RegisterRefused, RegisterDone, PollStore, DisconnectLookup,
         DisconnectUnknown, TransportCollapse, DrainClose, PollLookup, DrainEnds
    <2>2. AbsUsed' = AbsUsed
      BY <1>3, <1>11 DEF RegisterRefused, RegisterDone, PollStore, DisconnectLookup,
         DisconnectUnknown, TransportCollapse, DrainClose, PollLookup, DrainEnds,
         TypeOK, AbsUsed
    <2>3. AbsEnded' = AbsEnded
      BY <1>3, <1>11 DEF RegisterRefused, RegisterDone, PollStore, DisconnectLookup,
         DisconnectUnknown, TransportCollapse, DrainClose, PollLookup, DrainEnds,
         TypeOK, AbsEnded
    <2> QED
      BY <1>10, <2>1, <2>2, <2>3
  <1> QED
    BY <1>4, <1>5, <1>6, <1>7, <1>8, <1>9, <1>11 DEF Next, HookStep, DrainStep

\* The registry implements the directory: whatever the pools, indexes, locks
\* and goroutines do, a client_id has at most one current session, which only
\* a newer one or its own end displaces.
THEOREM ImplementsDirectory == Spec => DirectorySpec
  <1>1. RegistryInv /\ RegistryInv' /\ [Next]_vars => [Directory!Next]_(Directory!vars)
    BY DirectoryStep
  <1>2. Spec => Directory!Spec
    BY <1>1, DirectoryInit, Invariance, PTL DEF Spec, Directory!Spec
  <1> QED
    BY <1>2 DEF DirectorySpec
=============================================================================
