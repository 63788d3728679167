------------------------ MODULE TunnelRegistryProofs ------------------------
(***************************************************************************)
(* Proofs about TunnelRegistry for any sets of clients, sessions and       *)
(* subdomains and any bindings.                                            *)
(***************************************************************************)
EXTENDS TunnelRegistry, TLAPS

USE BindingAssumption, NilAssumption

-----------------------------------------------------------------------------
(* What the helpers on member sequences return.                            *)

\* CutAt, the model of append(m[:i], m[i+1:]...), returns a sequence one
\* shorter with every element but the one at i, in order.
LEMMA CutAtFacts ==
    ASSUME NEW m \in Seq(Session), NEW i \in 1..Len(m)
    PROVE  /\ CutAt(m, i) \in Seq(Session)
           /\ Len(CutAt(m, i)) = Len(m) - 1
           /\ DOMAIN CutAt(m, i) = 1..(Len(m) - 1)
           /\ \A j \in 1..(Len(m) - 1) :
                 CutAt(m, i)[j] = IF j < i THEN m[j] ELSE m[j + 1]
  <1>1. Len(m) - 1 \in Nat
    OBVIOUS
  <1>2. \A j \in 1..(Len(m) - 1) : (IF j < i THEN m[j] ELSE m[j + 1]) \in Session
    OBVIOUS
  <1>3. CutAt(m, i) \in [1..(Len(m) - 1) -> Session]
    BY <1>2 DEF CutAt
  <1>4. CutAt(m, i) \in Seq(Session)
    BY <1>1, <1>3
  <1> QED
    BY <1>1, <1>3, <1>4 DEF CutAt

\* With one member per client_id, ByID finds the client's only tunnel, at the
\* position First gives, or there is none.
LEMMA ByIDFacts ==
    ASSUME TypeOK, UniqueMember, NEW h \in Host, NEW c \in Client
    PROVE  \/ /\ IndexOf(h, c) = {}
              /\ ByID(h, c) = NoTunnel
              /\ \A i \in Pos(h) : owner[members[h][i]] # c
           \/ /\ First(IndexOf(h, c)) \in 1..Len(members[h])
              /\ IndexOf(h, c) = {First(IndexOf(h, c))}
              /\ ByID(h, c) = members[h][First(IndexOf(h, c))]
              /\ ByID(h, c) \in Session
              /\ owner[ByID(h, c)] = c
  <1>0. Pos(h) = 1..Len(members[h]) /\ members[h] \in Seq(Session)
    BY DEF TypeOK, Pos
  <1>1. CASE IndexOf(h, c) = {}
    BY <1>1 DEF ByID, IndexOf
  <1>2. CASE IndexOf(h, c) # {}
    <2>1. PICK i \in Pos(h) : i \in IndexOf(h, c)
      BY <1>2 DEF IndexOf
    <2>2. IndexOf(h, c) = {i}
      BY <2>1 DEF IndexOf, UniqueMember
    <2>3. i \in Int
      BY <1>0
    <2>4. First({i}) = i
      BY <2>3 DEF First
    <2>5. First(IndexOf(h, c)) = i
      BY <2>2, <2>4, Zenon
    <2>6. ByID(h, c) = members[h][i]
      BY <1>2, <2>5 DEF ByID
    <2>7. owner[members[h][i]] = c
      BY <2>1 DEF IndexOf
    <2>8. IndexOf(h, c) = {First(IndexOf(h, c))}
      BY <2>2, <2>5, Zenon
    <2>9. i \in 1..Len(members[h]) /\ members[h][i] \in Session
      BY <1>0
    <2>10. /\ First(IndexOf(h, c)) \in 1..Len(members[h])
           /\ ByID(h, c) = members[h][First(IndexOf(h, c))]
           /\ ByID(h, c) \in Session
           /\ owner[ByID(h, c)] = c
      BY <2>5, <2>6, <2>7, <2>9, Zenon
    <2> QED
      BY <2>8, <2>10, Zenon
  <1> QED
    BY <1>1, <1>2

-----------------------------------------------------------------------------
(* What each change of a pool does to the set of pooled tunnels.           *)

\* InPool through positions.
LEMMA InPoolPos ==
    ASSUME NEW s
    PROVE  InPool(s) <=> \E h \in Host : \E i \in Pos(h) : members[h][i] = s
  BY DEF InPool, Members, Pos

\* RegisterReplace puts s in the one slot of the client's old tunnel.
LEMMA ReplaceFacts ==
    ASSUME PoolInv, NEW s \in Session, RegisterReplace(s)
    PROVE  \E old \in Session, h \in Host : \E i \in Pos(h) :
              /\ members[h][i] = old
              /\ owner[old] = owner[s]
              /\ Subdomain[owner[s]] = h
              /\ old # s
              /\ old \in bySess
              /\ bySess' = bySess \ {old}
              /\ drain' = [drain EXCEPT ![old] = "waiting"]
              /\ members' \in [Host -> Seq(Session)]
              /\ \A k \in Host : Len(members'[k]) = Len(members[k]) /\ Pos(k)' = Pos(k)
              /\ \A k \in Host : \A j \in Pos(k) :
                    members'[k][j] = IF k = h /\ j = i THEN s ELSE members[k][j]
              /\ \A t \in Session : InPool(t)' <=> t = s \/ (InPool(t) /\ t # old)
  <1>0. owner[s] \in Client /\ Subdomain[owner[s]] \in Host
    BY DEF PoolInv, Lifecycle, RegisterReplace
  <1>1. PICK c \in Client, h \in Host : c = owner[s] /\ h = Subdomain[c]
    BY <1>0
  <1>2. TypeOK /\ UniqueMember
    BY DEF PoolInv
  <1>a. ByID(h, c) # NoTunnel
    BY <1>1 DEF RegisterReplace, IsMember
  <1>b. /\ First(IndexOf(h, c)) \in 1..Len(members[h])
        /\ ByID(h, c) = members[h][First(IndexOf(h, c))]
        /\ ByID(h, c) \in Session
        /\ owner[ByID(h, c)] = c
    BY <1>2, <1>a, ByIDFacts
  <1>c. PICK i \in 1..Len(members[h]), old \in Session :
            i = First(IndexOf(h, c)) /\ old = ByID(h, c)
    BY <1>b
  <1>3. /\ i \in 1..Len(members[h])
        /\ old = members[h][i]
        /\ old \in Session
        /\ owner[old] = c
    BY <1>b, <1>c
  <1>4. members[h] \in Seq(Session) /\ Pos(h) = 1..Len(members[h])
    BY <1>1, <1>2 DEF TypeOK, Pos
  <1>5. members' = [members EXCEPT ![h] = PutAt(members[h], i, s)]
    BY <1>1, <1>2, <1>c DEF TypeOK, RegisterReplace
  <1>6. /\ PutAt(members[h], i, s) \in Seq(Session)
        /\ Len(PutAt(members[h], i, s)) = Len(members[h])
        /\ DOMAIN PutAt(members[h], i, s) = 1..Len(members[h])
        /\ \A j \in 1..Len(members[h]) :
              PutAt(members[h], i, s)[j] = IF j = i THEN s ELSE members[h][j]
    BY <1>3, <1>4 DEF PutAt
  <1>7. members' \in [Host -> Seq(Session)]
    BY <1>1, <1>2, <1>5, <1>6 DEF TypeOK
  <1>8. /\ \A k \in Host : Len(members'[k]) = Len(members[k]) /\ Pos(k)' = Pos(k)
        /\ \A k \in Host : \A j \in Pos(k) :
              members'[k][j] = IF k = h /\ j = i THEN s ELSE members[k][j]
    BY <1>1, <1>2, <1>4, <1>5, <1>6 DEF TypeOK, Pos
  <1>9. InPool(old) /\ ~InPool(s) /\ old # s
    <2>1. InPool(old)
      BY <1>1, <1>3, <1>4, InPoolPos
    <2>2. ~InPool(s)
      BY DEF RegisterReplace, PoolInv, Lifecycle
    <2> QED
      BY <2>1, <2>2
  <1>10. old \in bySess
    BY <1>3, <1>9 DEF PoolInv, IndexConsistent, RegisterReplace, MuFree
  <1>11. bySess' = bySess \ {old} /\ drain' = [drain EXCEPT ![old] = "waiting"]
    BY <1>1, <1>c DEF RegisterReplace, Unindex, BeginSupersedeDrain
  <1>12. \A k \in Host : \A j \in Pos(k) : members[k][j] = old => k = h /\ j = i
    BY <1>1, <1>2, <1>3, <1>4 DEF UniqueMember
  <1>13. \A t \in Session : InPool(t)' <=> t = s \/ (InPool(t) /\ t # old)
    <2> TAKE t \in Session
    <2>1. InPool(t)' <=> \E k \in Host : \E j \in Pos(k) : members'[k][j] = t
      BY <1>8 DEF InPool, Members, Pos
    <2>2. InPool(t) <=> \E k \in Host : \E j \in Pos(k) : members[k][j] = t
      BY InPoolPos
    <2>3. members'[h][i] = s /\ i \in Pos(h)
      BY <1>1, <1>3, <1>4, <1>8
    <2>4. ASSUME InPool(t)' PROVE t = s \/ (InPool(t) /\ t # old)
      <3>1. PICK k \in Host : \E j \in Pos(k) : members'[k][j] = t
        BY <2>1, <2>4
      <3>2. PICK j \in Pos(k) : members'[k][j] = t
        BY <3>1
      <3>3. CASE k = h /\ j = i
        BY <1>8, <3>2, <3>3
      <3>4. CASE ~(k = h /\ j = i)
        BY <1>8, <1>12, <2>2, <3>2, <3>4
      <3> QED
        BY <3>3, <3>4
    <2>5. ASSUME InPool(t), t # old PROVE InPool(t)'
      <3>1. PICK k \in Host : \E j \in Pos(k) : members[k][j] = t
        BY <2>2, <2>5
      <3>2. PICK j \in Pos(k) : members[k][j] = t
        BY <3>1
      <3>3. ~(k = h /\ j = i)
        BY <1>3, <2>5, <3>2
      <3>4. members'[k][j] = t
        BY <1>8, <3>2, <3>3
      <3> QED
        BY <2>1, <3>4
    <2>6. InPool(s)'
      BY <1>8, <2>3 DEF InPool, Members, Pos
    <2> QED
      BY <2>4, <2>5, <2>6
  <1> i \in Pos(h)
    BY <1>3, <1>4
  <1> WITNESS old \in Session, h \in Host
  <1> WITNESS i \in Pos(h)
  <1> QED
    BY <1>1, <1>3, <1>7, <1>8, <1>9, <1>10, <1>11, <1>13, Zenon

\* RegisterAppend adds s at the end of its client's pool.
LEMMA AppendFacts ==
    ASSUME PoolInv, NEW s \in Session, RegisterAppend(s)
    PROVE  \E h \in Host :
              /\ h = Subdomain[owner[s]]
              /\ owner[s] \in Client
              /\ members' \in [Host -> Seq(Session)]
              /\ Len(members'[h]) = Len(members[h]) + 1
              /\ Len(members'[h]) <= MaxClients[owner[s]]
              /\ \A j \in Pos(h) : owner[members[h][j]] # owner[s]
              /\ \A k \in Host \ {h} : members'[k] = members[k]
              /\ Pos(h)' = Pos(h) \union {Len(members[h]) + 1}
              /\ members'[h][Len(members[h]) + 1] = s
              /\ \A j \in Pos(h) : members'[h][j] = members[h][j]
              /\ \A t \in Session : InPool(t)' <=> t = s \/ InPool(t)
  <1>0. owner[s] \in Client /\ Subdomain[owner[s]] \in Host
    BY DEF PoolInv, Lifecycle, RegisterAppend
  <1>1. PICK c \in Client, h \in Host : c = owner[s] /\ h = Subdomain[c]
    BY <1>0
  <1>2. TypeOK /\ UniqueMember
    BY DEF PoolInv
  <1>3. members[h] \in Seq(Session) /\ Pos(h) = 1..Len(members[h])
    BY <1>1, <1>2 DEF TypeOK, Pos
  <1>4. \A j \in Pos(h) : owner[members[h][j]] # c
    BY <1>1, <1>2, ByIDFacts DEF RegisterAppend, IsMember
  <1>5. members' = [members EXCEPT ![h] = Append(members[h], s)]
    BY <1>1, <1>2 DEF TypeOK, RegisterAppend
  <1>6. members' \in [Host -> Seq(Session)]
    BY <1>1, <1>2, <1>3, <1>5 DEF TypeOK
  <1>7. /\ members'[h] = Append(members[h], s)
        /\ \A k \in Host \ {h} : members'[k] = members[k]
    BY <1>1, <1>2, <1>5 DEF TypeOK
  <1>8. /\ Len(members'[h]) = Len(members[h]) + 1
        /\ Pos(h)' = Pos(h) \union {Len(members[h]) + 1}
        /\ members'[h][Len(members[h]) + 1] = s
        /\ \A j \in Pos(h) : members'[h][j] = members[h][j]
    BY <1>3, <1>7 DEF Pos
  <1>9. Len(members'[h]) <= MaxClients[c]
    BY <1>1, <1>3, <1>8 DEF RegisterAppend, HasRoom
  <1>10. \A t \in Session : InPool(t)' <=> t = s \/ InPool(t)
    <2> TAKE t \in Session
    <2>1. InPool(t)' <=> \E k \in Host : \E j \in Pos(k)' : members'[k][j] = t
      BY DEF InPool, Members, Pos
    <2>2. InPool(t) <=> \E k \in Host : \E j \in Pos(k) : members[k][j] = t
      BY InPoolPos
    <2>3. \A k \in Host \ {h} : Pos(k)' = Pos(k)
      BY <1>7 DEF Pos
    <2>4. ASSUME InPool(t)' PROVE t = s \/ InPool(t)
      <3>1. PICK k \in Host : \E j \in Pos(k)' : members'[k][j] = t
        BY <2>1, <2>4
      <3>2. PICK j \in Pos(k)' : members'[k][j] = t
        BY <3>1
      <3>3. CASE k # h
        BY <1>7, <2>2, <2>3, <3>2, <3>3
      <3>4. CASE k = h
        BY <1>8, <2>2, <3>2, <3>4
      <3> QED
        BY <3>3, <3>4
    <2>5. ASSUME InPool(t) PROVE InPool(t)'
      <3>1. PICK k \in Host : \E j \in Pos(k) : members[k][j] = t
        BY <2>2, <2>5
      <3>2. PICK j \in Pos(k) : members[k][j] = t
        BY <3>1
      <3>3. CASE k # h
        BY <1>7, <2>1, <2>3, <3>2, <3>3
      <3>4. CASE k = h
        BY <1>8, <2>1, <3>2, <3>4
      <3> QED
        BY <3>3, <3>4
    <2>6. ASSUME t = s PROVE InPool(t)'
      BY <1>8, <2>1, <2>6
    <2> QED
      BY <2>4, <2>5, <2>6
  <1> QED
    BY <1>1, <1>4, <1>6, <1>7, <1>8, <1>9, <1>10

\* DisconnectRemove cuts out the slot of s, and of no other tunnel.
LEMMA RemoveFacts ==
    ASSUME PoolInv, NEW s \in Session, DisconnectRemove(s)
    PROVE  \E h \in Host : \E i \in Pos(h) :
              /\ members[h][i] = s
              /\ members' \in [Host -> Seq(Session)]
              /\ Len(members'[h]) = Len(members[h]) - 1
              /\ \A k \in Host \ {h} : members'[k] = members[k]
              /\ Pos(h)' = 1..(Len(members[h]) - 1)
              /\ \A j \in Pos(h)' :
                    members'[h][j] = IF j < i THEN members[h][j] ELSE members[h][j + 1]
              /\ \A t \in Session : InPool(t)' <=> InPool(t) /\ t # s
  <1>1. InPool(s)
    BY DEF PoolInv, IndexConsistent, DisconnectRemove, IsRegistered
  <1>2. TypeOK /\ UniqueMember
    BY DEF PoolInv
  <1>3. PICK h \in Host : \E i \in Pos(h) : members[h][i] = s
    BY <1>1, InPoolPos
  <1>a. PICK i \in Pos(h) : members[h][i] = s
    BY <1>3
  <1>4. PICK c \in Client : c = owner[s] /\ h = Subdomain[c]
    BY <1>2, <1>a DEF UniqueMember
  <1>5. members[h] \in Seq(Session) /\ Pos(h) = 1..Len(members[h])
    BY <1>2 DEF TypeOK, Pos
  <1>6. i \in IndexOf(h, c)
    BY <1>a, <1>4 DEF IndexOf
  <1>7. First(IndexOf(h, c)) = i /\ IndexOf(h, c) # {}
    <2>1. IndexOf(h, c) # {}
      BY <1>6
    <2>2. IndexOf(h, c) = {First(IndexOf(h, c))}
      BY <1>2, <2>1, ByIDFacts, Zenon
    <2>3. i \in {First(IndexOf(h, c))}
      BY <1>6, <2>2, Zenon
    <2> QED
      BY <2>1, <2>3
  <1>8. members' = [members EXCEPT ![h] = CutAt(members[h], i)]
    BY <1>2, <1>4, <1>7 DEF TypeOK, DisconnectRemove, Without
  <1>9. i \in 1..Len(members[h]) /\ members[h][i] = s
    BY <1>a, <1>5
  <1>10. /\ CutAt(members[h], i) \in Seq(Session)
         /\ Len(CutAt(members[h], i)) = Len(members[h]) - 1
         /\ DOMAIN CutAt(members[h], i) = 1..(Len(members[h]) - 1)
         /\ \A n \in 1..(Len(members[h]) - 1) :
               CutAt(members[h], i)[n] = IF n < i THEN members[h][n] ELSE members[h][n + 1]
    BY <1>5, <1>9, CutAtFacts
  <1>11. members' \in [Host -> Seq(Session)]
    BY <1>2, <1>4, <1>8, <1>10 DEF TypeOK
  <1>12. /\ Len(members'[h]) = Len(members[h]) - 1
         /\ Pos(h)' = 1..(Len(members[h]) - 1)
         /\ \A n \in Pos(h)' :
               members'[h][n] = IF n < i THEN members[h][n] ELSE members[h][n + 1]
         /\ \A l \in Host \ {h} : members'[l] = members[l]
    BY <1>2, <1>4, <1>8, <1>10 DEF TypeOK, Pos
  <1>13. \A l \in Host : \A n \in Pos(l) : members[l][n] = s => l = h /\ n = i
    BY <1>2, <1>4, <1>5, <1>9 DEF UniqueMember
  <1>14. \A t \in Session : InPool(t)' <=> InPool(t) /\ t # s
    <2> TAKE t \in Session
    <2>1. InPool(t)' <=> \E l \in Host : \E n \in Pos(l)' : members'[l][n] = t
      BY DEF InPool, Members, Pos
    <2>2. InPool(t) <=> \E l \in Host : \E n \in Pos(l) : members[l][n] = t
      BY InPoolPos
    <2>3. \A l \in Host \ {h} : Pos(l)' = Pos(l)
      BY <1>12 DEF Pos
    <2>4. ASSUME InPool(t)' PROVE InPool(t) /\ t # s
      <3>0. PICK l \in Host : \E n \in Pos(l)' : members'[l][n] = t
        BY <2>1, <2>4
      <3>1. PICK n \in Pos(l)' : members'[l][n] = t
        BY <3>0
      <3>2. CASE l # h
        BY <1>12, <1>13, <2>2, <2>3, <3>1, <3>2
      <3>3. CASE l = h
        <4>1. CASE n < i
          BY <1>5, <1>9, <1>12, <1>13, <2>2, <3>1, <3>3, <4>1
        <4>2. CASE ~(n < i)
          <5>1. n \in 1..(Len(members[h]) - 1) /\ Len(members[h]) \in Nat
            BY <1>5, <1>12, <3>1, <3>3
          <5>2. n + 1 \in Pos(h) /\ n + 1 # i
            BY <1>5, <1>9, <4>2, <5>1
          <5>3. members[h][n + 1] = t
            BY <1>12, <3>1, <3>3, <4>2
          <5> QED
            BY <1>4, <1>13, <2>2, <5>2, <5>3
        <4> QED
          BY <4>1, <4>2
      <3> QED
        BY <3>2, <3>3
    <2>5. ASSUME InPool(t), t # s PROVE InPool(t)'
      <3>0. PICK l \in Host : \E n \in Pos(l) : members[l][n] = t
        BY <2>2, <2>5
      <3>1. PICK n \in Pos(l) : members[l][n] = t
        BY <3>0
      <3>2. CASE l # h
        BY <1>12, <2>1, <2>3, <3>1, <3>2
      <3>3. CASE l = h
        <4>1. n # i
          BY <1>9, <2>5, <3>1, <3>3
        <4>2. CASE n < i
          <5>1. n \in Pos(h)'
            <6>1. n \in 1..Len(members[h]) /\ Len(members[h]) \in Nat
              BY <1>5, <3>1, <3>3
            <6> QED
              BY <6>1, <1>9, <1>12, <4>2
          <5>2. members'[h][n] = members[h][n]
            BY <1>12, <4>2, <5>1
          <5>3. members'[h][n] = t
            BY <3>1, <3>3, <5>2
          <5> QED
            BY <1>4, <2>1, <5>1, <5>3
        <4>3. CASE n > i
          <5>1. n - 1 \in Pos(h)' /\ ~(n - 1 < i) /\ (n - 1) + 1 = n
            <6>1. n \in 1..Len(members[h]) /\ Len(members[h]) \in Nat
              BY <1>5, <3>1, <3>3
            <6> QED
              BY <6>1, <1>9, <1>12, <4>3
          <5>2. members'[h][n - 1] = t
            BY <1>12, <3>1, <3>3, <5>1
          <5> QED
            BY <1>4, <2>1, <5>1, <5>2
        <4> QED
          BY <1>5, <1>9, <3>1, <3>3, <4>1, <4>2, <4>3
      <3> QED
        BY <3>2, <3>3
    <2> QED
      BY <2>4, <2>5
  <1> QED
    BY <1>4, <1>5, <1>9, <1>11, <1>12, <1>14

-----------------------------------------------------------------------------
(* The inductive invariant.                                                *)

\* An action that leaves the pools and the owners of the sessions alone
\* leaves everything that is said about them alone.
LEMMA SamePools ==
    ASSUME members' = members, owner' = owner
    PROVE  /\ \A t \in Session : InPool(t)' <=> InPool(t)
           /\ UniqueMember => UniqueMember'
           /\ PoolBound => PoolBound'
  BY DEF InPool, Members, Pos, UniqueMember, PoolBound

\* The registry starts empty.
LEMMA InitInv == Init => RegistryInv
  <1> SUFFICES ASSUME Init PROVE RegistryInv
    OBVIOUS
  <1>1. TypeOK
    BY DEF Init, TypeOK, ConnState, DrainState, DiscState, Poll, NoPoll
  <1>2. \A s \in Session : ~InPool(s)
    BY DEF Init, InPool, Members, Pos
  <1>3. UniqueMember /\ PoolBound
    BY DEF Init, UniqueMember, PoolBound, Pos
  <1>4. Lifecycle /\ Disconnecting /\ OneWriter /\ IndexConsistent /\ DrainingOutOfPool
    BY <1>2 DEF Init, Lifecycle, Disconnecting, OneWriter, IndexConsistent,
                DrainingOutOfPool, Draining
  <1>5. NoOrphanTunnel /\ ReportSameClient
    BY DEF Init, NoOrphanTunnel, ReportSameClient
  <1> QED
    BY <1>1, <1>3, <1>4, <1>5 DEF RegistryInv, PoolInv

\* A refused connect never was in a pool.
LEMMA RegisterRefusedInv ==
    ASSUME PoolInv, NEW s \in Session, RegisterRefused(s)
    PROVE  PoolInv'
  <1> USE DEF PoolInv
  <1>1. TypeOK'
    BY DEF RegisterRefused, TypeOK, ConnState, DrainState, DiscState, Poll, NoPoll
  <1>2. /\ \A t \in Session : InPool(t)' <=> InPool(t)
        /\ UniqueMember' /\ PoolBound'
    BY SamePools DEF RegisterRefused
  <1>3. Lifecycle'
    BY <1>2 DEF RegisterRefused, TypeOK, Lifecycle, Draining, MuFree
  <1>4. OneWriter'
    BY DEF RegisterRefused, TypeOK, OneWriter, MuFree
  <1>5. IndexConsistent'
    BY <1>2 DEF RegisterRefused, TypeOK, IndexConsistent, Lifecycle
  <1>6. DrainingOutOfPool'
    BY <1>2 DEF RegisterRefused, TypeOK, DrainingOutOfPool, Draining
  <1>7. ReportSameClient'
    BY DEF RegisterRefused, TypeOK, ReportSameClient, Lifecycle
  <1> QED
    BY <1>1, <1>2, <1>3, <1>4, <1>5, <1>6, <1>7

\* The end of Register indexes the one tunnel that is in a pool and not indexed.
LEMMA RegisterDoneInv ==
    ASSUME PoolInv, NEW s \in Session, RegisterDone(s)
    PROVE  PoolInv'
  <1> USE DEF PoolInv
  <1>1. TypeOK'
    BY DEF RegisterDone, TypeOK, ConnState, DrainState, DiscState, Poll, NoPoll
  <1>2. /\ \A t \in Session : InPool(t)' <=> InPool(t)
        /\ UniqueMember' /\ PoolBound'
    BY SamePools DEF RegisterDone
  <1>3. Lifecycle'
    BY <1>2 DEF RegisterDone, TypeOK, Lifecycle, Draining, MuFree
  <1>4. OneWriter'
    BY DEF RegisterDone, TypeOK, OneWriter, MuFree
  <1>5. IndexConsistent'
    BY <1>2 DEF RegisterDone, TypeOK, IndexConsistent, Lifecycle
  <1>6. DrainingOutOfPool'
    BY <1>2 DEF RegisterDone, TypeOK, DrainingOutOfPool, Draining
  <1>7. ReportSameClient'
    BY DEF RegisterDone, TypeOK, ReportSameClient, Lifecycle
  <1> QED
    BY <1>1, <1>2, <1>3, <1>4, <1>5, <1>6, <1>7

\* A health report is written to a flag that the invariant does not read.
LEMMA PollStoreInv ==
    ASSUME PoolInv, NEW s \in Session, PollStore(s)
    PROVE  PoolInv'
  <1> USE DEF PoolInv
  <1>1. TypeOK'
    <2>1. poll[s].target \in Session
      BY DEF PollStore, Lifecycle
    <2>2. localHealthy' \subseteq Session
      BY <2>1 DEF PollStore, TypeOK
    <2>3. poll' \in [Session -> Poll]
      BY DEF PollStore, TypeOK, Poll, NoPoll
    <2> QED
      BY <2>2, <2>3 DEF PollStore, TypeOK
  <1>2. /\ \A t \in Session : InPool(t)' <=> InPool(t)
        /\ UniqueMember' /\ PoolBound'
    BY SamePools DEF PollStore
  <1>3. Lifecycle'
    BY <1>2 DEF PollStore, TypeOK, Lifecycle, Draining, MuFree
  <1>4. OneWriter'
    BY DEF PollStore, TypeOK, OneWriter, MuFree
  <1>5. IndexConsistent'
    BY <1>2 DEF PollStore, TypeOK, IndexConsistent, Lifecycle
  <1>6. DrainingOutOfPool'
    BY <1>2 DEF PollStore, TypeOK, DrainingOutOfPool, Draining
  <1>7. ReportSameClient'
    BY DEF PollStore, TypeOK, ReportSameClient, Lifecycle
  <1> QED
    BY <1>1, <1>2, <1>3, <1>4, <1>5, <1>6, <1>7

\* CloseSession starts the disconnect of a connected session.
LEMMA CloseSessionInv ==
    ASSUME PoolInv, NEW s \in Session, CloseSession(s)
    PROVE  PoolInv'
  <1> USE DEF PoolInv
  <1>1. TypeOK'
    BY DEF CloseSession, TypeOK, ConnState, DrainState, DiscState, Poll, NoPoll
  <1>2. /\ \A t \in Session : InPool(t)' <=> InPool(t)
        /\ UniqueMember' /\ PoolBound'
    BY SamePools DEF CloseSession
  <1>3. Lifecycle'
    BY <1>2 DEF CloseSession, TypeOK, Lifecycle, Draining, MuFree
  <1>4. OneWriter'
    BY DEF CloseSession, TypeOK, OneWriter, MuFree
  <1>5. IndexConsistent'
    BY <1>2 DEF CloseSession, TypeOK, IndexConsistent, Lifecycle
  <1>6. DrainingOutOfPool'
    BY <1>2 DEF CloseSession, TypeOK, DrainingOutOfPool, Draining
  <1>7. ReportSameClient'
    BY DEF CloseSession, TypeOK, ReportSameClient, Lifecycle
  <1> QED
    BY <1>1, <1>2, <1>3, <1>4, <1>5, <1>6, <1>7

\* onDisconnect closes yamux of a session it finds registered.
LEMMA DisconnectLookupInv ==
    ASSUME PoolInv, NEW s \in Session, DisconnectLookup(s)
    PROVE  PoolInv'
  <1> USE DEF PoolInv
  <1>1. TypeOK'
    BY DEF DisconnectLookup, TypeOK, ConnState, DrainState, DiscState, Poll, NoPoll, IsRegistered
  <1>2. /\ \A t \in Session : InPool(t)' <=> InPool(t)
        /\ UniqueMember' /\ PoolBound'
    BY SamePools DEF DisconnectLookup
  <1>3. Lifecycle'
    BY <1>2 DEF DisconnectLookup, TypeOK, Lifecycle, Draining, MuFree, IsRegistered
  <1>4. OneWriter'
    BY DEF DisconnectLookup, TypeOK, OneWriter, MuFree
  <1>5. IndexConsistent'
    BY <1>2 DEF DisconnectLookup, TypeOK, IndexConsistent, Lifecycle, IsRegistered
  <1>6. DrainingOutOfPool'
    BY <1>2 DEF DisconnectLookup, TypeOK, DrainingOutOfPool, Draining
  <1>7. ReportSameClient'
    BY DEF DisconnectLookup, TypeOK, ReportSameClient, Lifecycle, IsRegistered
  <1> QED
    BY <1>1, <1>2, <1>3, <1>4, <1>5, <1>6, <1>7

\* The disconnect of a session that is no longer registered touches no pool.
LEMMA DisconnectUnknownInv ==
    ASSUME PoolInv, NEW s \in Session, DisconnectUnknown(s)
    PROVE  PoolInv'
  <1> USE DEF PoolInv
  <1>1. TypeOK'
    BY DEF DisconnectUnknown, TypeOK, ConnState, DrainState, DiscState, Poll, NoPoll, IsRegistered
  <1>2. /\ \A t \in Session : InPool(t)' <=> InPool(t)
        /\ UniqueMember' /\ PoolBound'
    BY SamePools DEF DisconnectUnknown
  <1>3. Lifecycle'
    BY <1>2 DEF DisconnectUnknown, TypeOK, Lifecycle, Draining, MuFree, IsRegistered
  <1>4. OneWriter'
    BY DEF DisconnectUnknown, TypeOK, OneWriter, MuFree
  <1>5. IndexConsistent'
    BY <1>2 DEF DisconnectUnknown, TypeOK, IndexConsistent, Lifecycle, IsRegistered
  <1>6. DrainingOutOfPool'
    BY <1>2 DEF DisconnectUnknown, TypeOK, DrainingOutOfPool, Draining
  <1>7. ReportSameClient'
    BY DEF DisconnectUnknown, TypeOK, ReportSameClient, Lifecycle, IsRegistered
  <1> QED
    BY <1>1, <1>2, <1>3, <1>4, <1>5, <1>6, <1>7

\* Closing the other half of a transport only adds to the closed sets.
LEMMA TransportCollapseInv ==
    ASSUME PoolInv, NEW s \in Session, TransportCollapse(s)
    PROVE  PoolInv'
  <1> USE DEF PoolInv
  <1>1. TypeOK'
    BY DEF TransportCollapse, TypeOK, ConnState, DrainState, DiscState, Poll, NoPoll
  <1>2. /\ \A t \in Session : InPool(t)' <=> InPool(t)
        /\ UniqueMember' /\ PoolBound'
    BY SamePools DEF TransportCollapse
  <1>3. Lifecycle'
    BY <1>2 DEF TransportCollapse, TypeOK, Lifecycle, Draining, MuFree
  <1>4. OneWriter'
    BY DEF TransportCollapse, TypeOK, OneWriter, MuFree
  <1>5. IndexConsistent'
    BY <1>2 DEF TransportCollapse, TypeOK, IndexConsistent, Lifecycle
  <1>6. DrainingOutOfPool'
    BY <1>2 DEF TransportCollapse, TypeOK, DrainingOutOfPool, Draining
  <1>7. ReportSameClient'
    BY DEF TransportCollapse, TypeOK, ReportSameClient, Lifecycle
  <1> QED
    BY <1>1, <1>2, <1>3, <1>4, <1>5, <1>6, <1>7

\* The drain loop ends but the goroutine has yet to close the tunnel.
LEMMA DrainEndsInv ==
    ASSUME PoolInv, NEW s \in Session, NEW why \in {"idle", "expired"}, DrainEnds(s, why)
    PROVE  PoolInv'
  <1> USE DEF PoolInv
  <1>1. TypeOK'
    BY DEF DrainEnds, TypeOK, ConnState, DrainState, DiscState, Poll, NoPoll
  <1>2. /\ \A t \in Session : InPool(t)' <=> InPool(t)
        /\ UniqueMember' /\ PoolBound'
    BY SamePools DEF DrainEnds
  <1>3. Lifecycle'
    BY <1>2 DEF DrainEnds, TypeOK, Lifecycle, Draining, MuFree
  <1>4. OneWriter'
    BY DEF DrainEnds, TypeOK, OneWriter, MuFree
  <1>5. IndexConsistent'
    BY <1>2 DEF DrainEnds, TypeOK, IndexConsistent, Lifecycle
  <1>6. DrainingOutOfPool'
    BY <1>2 DEF DrainEnds, TypeOK, DrainingOutOfPool, Draining
  <1>7. ReportSameClient'
    BY DEF DrainEnds, TypeOK, ReportSameClient, Lifecycle
  <1> QED
    BY <1>1, <1>2, <1>3, <1>4, <1>5, <1>6, <1>7

\* The drain goroutine closes a tunnel that is in no pool.
LEMMA DrainCloseInv ==
    ASSUME PoolInv, NEW s \in Session, DrainClose(s)
    PROVE  PoolInv'
  <1> USE DEF PoolInv
  <1>1. TypeOK'
    BY DEF DrainClose, TypeOK, ConnState, DrainState, DiscState, Poll, NoPoll
  <1>2. /\ \A t \in Session : InPool(t)' <=> InPool(t)
        /\ UniqueMember' /\ PoolBound'
    BY SamePools DEF DrainClose
  <1>3. Lifecycle'
    BY <1>2 DEF DrainClose, TypeOK, Lifecycle, Draining, MuFree
  <1>4. OneWriter'
    BY DEF DrainClose, TypeOK, OneWriter, MuFree
  <1>5. IndexConsistent'
    BY <1>2 DEF DrainClose, TypeOK, IndexConsistent, Lifecycle
  <1>6. DrainingOutOfPool'
    BY <1>2 DEF DrainClose, TypeOK, DrainingOutOfPool, Draining
  <1>7. ReportSameClient'
    BY DEF DrainClose, TypeOK, ReportSameClient, Lifecycle
  <1> QED
    BY <1>1, <1>2, <1>3, <1>4, <1>5, <1>6, <1>7

\* A fresh session belongs to no pool, so giving it an owner changes no pool.
LEMMA AuthenticateConnectInv ==
    ASSUME PoolInv, NEW s \in Session, NEW c \in Client, AuthenticateConnect(s, c)
    PROVE  PoolInv'
  <1> USE DEF PoolInv
  <1>1. TypeOK'
    BY DEF AuthenticateConnect, TypeOK, ConnState
  <1>2. /\ \A t \in Session : InPool(t)' <=> InPool(t)
        /\ \A h \in Host : Pos(h)' = Pos(h)
    BY DEF AuthenticateConnect, InPool, Members, Pos
  <1>3. \A h \in Host : \A i \in Pos(h) :
            /\ members[h][i] \in Session
            /\ owner'[members[h][i]] = owner[members[h][i]]
    <2> TAKE h \in Host
    <2> TAKE i \in Pos(h)
    <2>1. members[h][i] \in Session
      BY DEF TypeOK, Pos
    <2>2. InPool(members[h][i])
      BY InPoolPos
    <2>3. members[h][i] # s
      BY <2>2 DEF AuthenticateConnect, Lifecycle
    <2> QED
      BY <2>1, <2>3 DEF AuthenticateConnect, TypeOK
  <1>4. UniqueMember'
    BY <1>2, <1>3 DEF AuthenticateConnect, UniqueMember
  <1>5. PoolBound'
    BY <1>2, <1>3 DEF AuthenticateConnect, PoolBound
  <1>6. Lifecycle'
    BY <1>2 DEF AuthenticateConnect, TypeOK, Lifecycle, Draining
  <1>7. OneWriter' /\ IndexConsistent' /\ DrainingOutOfPool'
    BY <1>2 DEF AuthenticateConnect, TypeOK, OneWriter, IndexConsistent,
                DrainingOutOfPool, Draining
  <1>8. ReportSameClient'
    <2> SUFFICES ASSUME NEW t \in Session, poll[t] # NoPoll
                 PROVE  owner'[poll[t].target] = owner'[t]
      BY DEF AuthenticateConnect, ReportSameClient
    <2>1. t # s /\ poll[t].target # s /\ poll[t].target \in Session
      BY DEF AuthenticateConnect, Lifecycle
    <2>2. owner[poll[t].target] = owner[t]
      BY DEF ReportSameClient
    <2> QED
      BY <2>1, <2>2 DEF AuthenticateConnect, TypeOK
  <1> QED
    BY <1>1, <1>4, <1>5, <1>6, <1>7, <1>8

\* SetLocalHealth finds a tunnel of the reporting client or nothing.
LEMMA PollLookupInv ==
    ASSUME PoolInv, NEW s \in Session, NEW ok \in BOOLEAN, PollLookup(s, ok)
    PROVE  PoolInv'
  <1> USE DEF PoolInv
  <1>1. owner[s] \in Client /\ Subdomain[owner[s]] \in Host
    BY DEF PollLookup, ReportTarget, Lifecycle
  <1>2. PICK t \in Session : t = ByID(Subdomain[owner[s]], owner[s]) /\ owner[t] = owner[s]
    BY <1>1, ByIDFacts DEF PollLookup, ReportTarget, Found
  <1>3. InPool(t)
    <2>1. PICK h \in Host : h = Subdomain[owner[s]]
      BY <1>1
    <2>2. \E i \in 1..Len(members[h]) : members[h][i] = t
      BY <1>1, <1>2, <2>1, ByIDFacts DEF PollLookup, ReportTarget, Found
    <2>3. Pos(h) = 1..Len(members[h])
      BY DEF TypeOK, Pos
    <2> QED
      BY <2>2, <2>3, InPoolPos
  <1>4. poll' = [poll EXCEPT ![s] = [target |-> t, ok |-> ok]]
    BY <1>2 DEF PollLookup, ReportTarget
  <1>5. TypeOK'
    <2>1. poll' \in [Session -> Poll]
      BY <1>4 DEF TypeOK, Poll
    <2> QED
      BY <2>1 DEF PollLookup, ReportTarget, TypeOK
  <1>6. /\ \A r \in Session : InPool(r)' <=> InPool(r)
        /\ UniqueMember' /\ PoolBound'
    BY SamePools DEF PollLookup, ReportTarget
  <1>7. Lifecycle'
    <2>1. conn[t] \in {"adding", "connected"}
      BY <1>3 DEF Lifecycle
    <2>2. poll'[s].target = t
      BY <1>4 DEF TypeOK
    <2>3. \A r \in Session \ {s} : poll'[r] = poll[r]
      BY <1>4 DEF TypeOK
    <2> QED
      BY <1>6, <2>1, <2>2, <2>3 DEF PollLookup, ReportTarget, Lifecycle, Draining
  <1>8. OneWriter' /\ IndexConsistent' /\ DrainingOutOfPool'
    BY <1>6 DEF PollLookup, ReportTarget, OneWriter, IndexConsistent, DrainingOutOfPool,
                Draining
  <1>9. ReportSameClient'
    BY <1>2, <1>4 DEF PollLookup, ReportTarget, TypeOK, ReportSameClient
  <1> QED
    BY <1>5, <1>6, <1>7, <1>8, <1>9

\* Supersession: the new tunnel takes the place of the old in the pool, the
\* old one leaves the index and its drain goroutine is there to close it.
LEMMA RegisterReplaceInv ==
    ASSUME PoolInv, NEW s \in Session, RegisterReplace(s)
    PROVE  PoolInv'
  <1> USE DEF PoolInv
  <1>1. PICK old \in Session, h \in Host : \E i \in Pos(h) :
              /\ members[h][i] = old
              /\ owner[old] = owner[s]
              /\ Subdomain[owner[s]] = h
              /\ old # s
              /\ old \in bySess
              /\ bySess' = bySess \ {old}
              /\ drain' = [drain EXCEPT ![old] = "waiting"]
              /\ members' \in [Host -> Seq(Session)]
              /\ \A k \in Host : Len(members'[k]) = Len(members[k]) /\ Pos(k)' = Pos(k)
              /\ \A k \in Host : \A j \in Pos(k) :
                    members'[k][j] = IF k = h /\ j = i THEN s ELSE members[k][j]
              /\ \A t \in Session : InPool(t)' <=> t = s \/ (InPool(t) /\ t # old)
    BY ReplaceFacts
  <1>2. PICK i \in Pos(h) :
              /\ members[h][i] = old
              /\ \A k \in Host : \A j \in Pos(k) :
                    members'[k][j] = IF k = h /\ j = i THEN s ELSE members[k][j]
    BY <1>1
  <1>3. TypeOK'
    <2>1. drain' \in [Session -> DrainState] /\ conn' \in [Session -> ConnState]
      BY <1>1 DEF RegisterReplace, TypeOK, DrainState, ConnState
    <2> QED
      BY <1>1, <2>1 DEF RegisterReplace, TypeOK
  <1>4. UniqueMember'
    <2> SUFFICES ASSUME NEW k \in Host, NEW m \in Pos(k), NEW n \in Pos(k)
                 PROVE  /\ owner[members'[k][m]] \in Client
                        /\ Subdomain[owner[members'[k][m]]] = k
                        /\ owner[members'[k][m]] = owner[members'[k][n]] => m = n
      BY <1>1 DEF RegisterReplace, UniqueMember
    <2>1. owner[members'[k][m]] = owner[members[k][m]]
      BY <1>1, <1>2
    <2>2. owner[members'[k][n]] = owner[members[k][n]]
      BY <1>1, <1>2
    <2> QED
      BY <2>1, <2>2 DEF UniqueMember
  <1>5. PoolBound'
    <2> SUFFICES ASSUME NEW k \in Host, NEW m \in Pos(k)
                 PROVE  m <= MaxClients[owner[members'[k][m]]]
      BY <1>1 DEF RegisterReplace, PoolBound
    <2>1. owner[members'[k][m]] = owner[members[k][m]]
      BY <1>1, <1>2
    <2> QED
      BY <2>1 DEF PoolBound
  <1>6. conn[old] = "connected" /\ conn' = [conn EXCEPT ![s] = "adding"]
    BY <1>1 DEF RegisterReplace, MuFree, Lifecycle, IndexConsistent
  <1>7. Lifecycle'
    BY <1>1, <1>6 DEF RegisterReplace, MuFree, TypeOK, Lifecycle, Draining
  <1>8. OneWriter'
    BY <1>6 DEF RegisterReplace, MuFree, TypeOK, OneWriter
  <1>9. IndexConsistent'
    BY <1>1, <1>6 DEF RegisterReplace, MuFree, TypeOK, Lifecycle, IndexConsistent
  <1>10. DrainingOutOfPool'
    <2>1. drain[s] = "none"
      BY DEF RegisterReplace, Lifecycle, Draining
    <2>2. \A t \in Session : t # old => drain'[t] = drain[t]
      BY <1>1 DEF TypeOK
    <2> QED
      BY <1>1, <2>1, <2>2 DEF DrainingOutOfPool, Draining
  <1>11. ReportSameClient'
    BY DEF RegisterReplace, ReportSameClient
  <1> QED
    BY <1>3, <1>4, <1>5, <1>7, <1>8, <1>9, <1>10, <1>11

\* A client new to the pool is appended while there is room.
LEMMA RegisterAppendInv ==
    ASSUME PoolInv, NEW s \in Session, RegisterAppend(s)
    PROVE  PoolInv'
  <1> USE DEF PoolInv
  <1>1. PICK h \in Host :
              /\ h = Subdomain[owner[s]]
              /\ owner[s] \in Client
              /\ members' \in [Host -> Seq(Session)]
              /\ Len(members'[h]) = Len(members[h]) + 1
              /\ Len(members'[h]) <= MaxClients[owner[s]]
              /\ \A j \in Pos(h) : owner[members[h][j]] # owner[s]
              /\ \A k \in Host \ {h} : members'[k] = members[k]
              /\ Pos(h)' = Pos(h) \union {Len(members[h]) + 1}
              /\ members'[h][Len(members[h]) + 1] = s
              /\ \A j \in Pos(h) : members'[h][j] = members[h][j]
              /\ \A t \in Session : InPool(t)' <=> t = s \/ InPool(t)
    BY AppendFacts
  <1>2. conn' = [conn EXCEPT ![s] = "adding"]
    BY DEF RegisterAppend
  <1>3. TypeOK'
    BY <1>1 DEF RegisterAppend, TypeOK, ConnState
  <1>4. UniqueMember'
    <2> SUFFICES ASSUME NEW k \in Host, NEW m \in Pos(k)', NEW n \in Pos(k)'
                 PROVE  /\ owner[members'[k][m]] \in Client
                        /\ Subdomain[owner[members'[k][m]]] = k
                        /\ owner[members'[k][m]] = owner[members'[k][n]] => m = n
      <3>1. owner' = owner
        BY DEF RegisterAppend
      <3> QED
        BY <3>1 DEF UniqueMember
    <2>1. CASE k # h
      <3>1. Pos(k)' = Pos(k) /\ members'[k] = members[k]
        BY <1>1, <2>1 DEF Pos
      <3> QED
        BY <3>1 DEF UniqueMember
    <2>2. CASE k = h
      <3>1. \A j \in Pos(h)' : \/ j = Len(members[h]) + 1 /\ members'[h][j] = s
                               \/ j \in Pos(h) /\ members'[h][j] = members[h][j]
        BY <1>1
      <3>2. /\ owner[s] \in Client
            /\ Subdomain[owner[s]] = h
            /\ \A j \in Pos(h) : owner[members[h][j]] # owner[s]
        BY <1>1
      <3>3. \A j, l \in Pos(h) :
               /\ owner[members[h][j]] \in Client
               /\ Subdomain[owner[members[h][j]]] = h
               /\ owner[members[h][j]] = owner[members[h][l]] => j = l
        BY DEF UniqueMember
      <3>4. m \in Pos(h)' /\ n \in Pos(h)'
        BY <2>2
      <3>5. CASE m \in Pos(h) /\ members'[h][m] = members[h][m]
        <4>1. CASE n \in Pos(h) /\ members'[h][n] = members[h][n]
          BY <2>2, <3>3, <3>5, <4>1
        <4>2. CASE n = Len(members[h]) + 1 /\ members'[h][n] = s
          BY <2>2, <3>2, <3>3, <3>5, <4>2
        <4> QED
          BY <3>1, <3>4, <4>1, <4>2
      <3>6. CASE m = Len(members[h]) + 1 /\ members'[h][m] = s
        <4>1. CASE n \in Pos(h) /\ members'[h][n] = members[h][n]
          BY <2>2, <3>2, <3>6, <4>1
        <4>2. CASE n = Len(members[h]) + 1 /\ members'[h][n] = s
          BY <2>2, <3>2, <3>6, <4>2
        <4> QED
          BY <3>1, <3>4, <4>1, <4>2
      <3> QED
        BY <3>1, <3>4, <3>5, <3>6
    <2> QED
      BY <2>1, <2>2
  <1>5. PoolBound'
    <2> SUFFICES ASSUME NEW k \in Host, NEW m \in Pos(k)'
                 PROVE  m <= MaxClients[owner[members'[k][m]]]
      BY DEF RegisterAppend, PoolBound
    <2>1. CASE k # h
      <3>1. Pos(k)' = Pos(k) /\ members'[k] = members[k]
        BY <1>1, <2>1 DEF Pos
      <3> QED
        BY <3>1 DEF PoolBound
    <2>2. CASE k = h /\ m \in Pos(h)
      <3>1. members'[k][m] = members[k][m]
        BY <1>1, <2>2
      <3> QED
        BY <2>2, <3>1 DEF PoolBound
    <2>3. CASE k = h /\ m = Len(members[h]) + 1
      <3>1. members'[k][m] = s /\ m <= MaxClients[owner[s]]
        BY <1>1, <2>3
      <3> QED
        BY <3>1
    <2> QED
      BY <1>1, <2>1, <2>2, <2>3
  <1>6. Lifecycle'
    BY <1>1, <1>2 DEF RegisterAppend, TypeOK, Lifecycle, Draining
  <1>7. OneWriter'
    BY <1>2 DEF RegisterAppend, MuFree, TypeOK, OneWriter
  <1>8. IndexConsistent'
    BY <1>1, <1>2 DEF RegisterAppend, TypeOK, Lifecycle, IndexConsistent
  <1>9. DrainingOutOfPool'
    BY <1>1 DEF RegisterAppend, Lifecycle, DrainingOutOfPool, Draining
  <1>10. ReportSameClient'
    BY DEF RegisterAppend, ReportSameClient
  <1> QED
    BY <1>3, <1>4, <1>5, <1>6, <1>7, <1>8, <1>9, <1>10

\* The disconnect of a registered session takes its own tunnel out, and
\* yamux of that tunnel has been closed before.
LEMMA DisconnectRemoveInv ==
    ASSUME PoolInv, NEW s \in Session, DisconnectRemove(s)
    PROVE  PoolInv'
  <1> USE DEF PoolInv
  <1>1. PICK h \in Host : \E i \in Pos(h) :
              /\ members[h][i] = s
              /\ members' \in [Host -> Seq(Session)]
              /\ Len(members'[h]) = Len(members[h]) - 1
              /\ \A k \in Host \ {h} : members'[k] = members[k]
              /\ Pos(h)' = 1..(Len(members[h]) - 1)
              /\ \A j \in Pos(h)' :
                    members'[h][j] = IF j < i THEN members[h][j] ELSE members[h][j + 1]
              /\ \A t \in Session : InPool(t)' <=> InPool(t) /\ t # s
    BY RemoveFacts
  <1>2. PICK i \in Pos(h) :
              /\ members[h][i] = s
              /\ \A j \in Pos(h)' :
                    members'[h][j] = IF j < i THEN members[h][j] ELSE members[h][j + 1]
    BY <1>1
  <1>3. Pos(h) = 1..Len(members[h]) /\ members[h] \in Seq(Session)
    BY DEF TypeOK, Pos
  <1>4. TypeOK'
    BY <1>1 DEF DisconnectRemove, TypeOK, DiscState
  <1>5. UniqueMember'
    <2> SUFFICES ASSUME NEW k \in Host, NEW m \in Pos(k)', NEW n \in Pos(k)'
                 PROVE  /\ owner[members'[k][m]] \in Client
                        /\ Subdomain[owner[members'[k][m]]] = k
                        /\ owner[members'[k][m]] = owner[members'[k][n]] => m = n
      BY DEF DisconnectRemove, UniqueMember
    <2>1. CASE k # h
      <3>1. Pos(k)' = Pos(k) /\ members'[k] = members[k]
        BY <1>1, <2>1 DEF Pos
      <3> QED
        BY <3>1 DEF UniqueMember
    <2>2. CASE k = h
      <3>1. PICK m1 \in Pos(h) : /\ m1 = IF m < i THEN m ELSE m + 1
                                 /\ members'[h][m] = members[h][m1]
        BY <1>1, <1>2, <1>3, <2>2
      <3>2. PICK n1 \in Pos(h) : /\ n1 = IF n < i THEN n ELSE n + 1
                                 /\ members'[h][n] = members[h][n1]
        BY <1>1, <1>2, <1>3, <2>2
      <3>3. m1 = n1 => m = n
        BY <1>1, <1>3, <2>2, <3>1, <3>2
      <3> QED
        BY <2>2, <3>1, <3>2, <3>3 DEF UniqueMember
    <2> QED
      BY <2>1, <2>2
  <1>6. PoolBound'
    <2> SUFFICES ASSUME NEW k \in Host, NEW m \in Pos(k)'
                 PROVE  m <= MaxClients[owner[members'[k][m]]]
      BY DEF DisconnectRemove, PoolBound
    <2>1. CASE k # h
      <3>1. Pos(k)' = Pos(k) /\ members'[k] = members[k]
        BY <1>1, <2>1 DEF Pos
      <3> QED
        BY <3>1 DEF PoolBound
    <2>2. CASE k = h
      <3>1. PICK m1 \in Pos(h) : /\ m1 = IF m < i THEN m ELSE m + 1
                                 /\ members'[h][m] = members[h][m1]
        BY <1>1, <1>2, <1>3, <2>2
      <3>2. m1 <= MaxClients[owner[members[h][m1]]]
        BY DEF PoolBound
      <3>3. /\ m \in Int /\ m1 \in Int /\ m <= m1
            /\ MaxClients[owner[members[h][m1]]] \in Int
        <4>1. owner[members[h][m1]] \in Client
          BY DEF UniqueMember
        <4> QED
          BY <1>1, <1>3, <2>2, <3>1, <4>1
      <3> QED
        BY <2>2, <3>1, <3>2, <3>3
    <2> QED
      BY <2>1, <2>2
  <1>7. Lifecycle'
    BY <1>1 DEF DisconnectRemove, MuFree, TypeOK, Lifecycle, Draining
  <1>8. OneWriter'
    BY DEF DisconnectRemove, OneWriter
  <1>9. IndexConsistent'
    BY <1>1 DEF DisconnectRemove, TypeOK, IndexConsistent
  <1>10. DrainingOutOfPool'
    BY <1>1 DEF DisconnectRemove, DrainingOutOfPool, Draining
  <1>11. ReportSameClient'
    BY DEF DisconnectRemove, ReportSameClient
  <1> QED
    BY <1>4, <1>5, <1>6, <1>7, <1>8, <1>9, <1>10, <1>11

\* Every step of the hooks, of pollmux and of the drain goroutines leaves the
\* pools in order.
LEMMA PoolStep ==
    ASSUME PoolInv, NEW s \in Session, HookStep(s) \/ DrainStep(s)
    PROVE  PoolInv'
  <1>1. CASE HookStep(s)
    BY <1>1, AuthenticateConnectInv, RegisterReplaceInv, RegisterAppendInv,
       RegisterRefusedInv, RegisterDoneInv, PollLookupInv, PollStoreInv,
       CloseSessionInv, DisconnectLookupInv, DisconnectRemoveInv,
       DisconnectUnknownInv, TransportCollapseInv DEF HookStep
  <1>2. CASE DrainStep(s)
    BY <1>2, DrainEndsInv, DrainCloseInv DEF DrainStep
  <1> QED
    BY <1>1, <1>2

\* So does a step that changes none of their variables.
LEMMA PoolStutter == PoolInv /\ UNCHANGED vars => PoolInv'
  BY DEF vars, PoolInv, TypeOK, Lifecycle, OneWriter, UniqueMember,
         IndexConsistent, DrainingOutOfPool, PoolBound, ReportSameClient,
         InPool, Members, Pos, Draining

\* A step that changes no pool, starts no drain and connects nobody leaves
\* every open tunnel where it can be found.
LEMMA OrphanSame ==
    ASSUME NoOrphanTunnel, UNCHANGED <<members, conn>>,
           yamuxClosed \subseteq yamuxClosed',
           \A t \in Session : \/ drain'[t] = drain[t]
                              \/ drain'[t] \in {"waiting", "idle", "expired"}
                              \/ t \in yamuxClosed'
    PROVE  NoOrphanTunnel'
  BY DEF NoOrphanTunnel, InPool, Members, Pos

\* The hooks of a session come in their order, and leave no open tunnel where
\* nobody finds it: onDisconnect closes yamux before it takes the tunnel out
\* of its pool, and a superseded tunnel has a drain goroutine to close it.
LEMMA HookOrder ==
    ASSUME RegistryInv, NEW s \in Session, HookStep(s) \/ DrainStep(s)
    PROVE  Disconnecting' /\ NoOrphanTunnel'
  <1> USE DEF RegistryInv
  <1>0. TypeOK /\ Lifecycle
    BY DEF PoolInv
  <1>1. ASSUME NEW c \in Client, AuthenticateConnect(s, c)
        PROVE  Disconnecting' /\ NoOrphanTunnel'
    <2>1. \A t \in Session : InPool(t)' <=> InPool(t)
      BY <1>1 DEF AuthenticateConnect, InPool, Members, Pos
    <2> QED
      BY <1>0, <1>1, <2>1 DEF AuthenticateConnect, TypeOK, Disconnecting, NoOrphanTunnel
  <1>2. CASE RegisterReplace(s)
    <2>1. PICK old \in Session :
              /\ old \in bySess
              /\ bySess' = bySess \ {old}
              /\ drain' = [drain EXCEPT ![old] = "waiting"]
              /\ \A t \in Session : InPool(t)' <=> t = s \/ (InPool(t) /\ t # old)
      BY <1>2, ReplaceFacts
    <2> QED
      BY <1>0, <1>2, <2>1 DEF RegisterReplace, TypeOK, Disconnecting, NoOrphanTunnel
  <1>3. CASE RegisterAppend(s)
    <2>1. \A t \in Session : InPool(t)' <=> t = s \/ InPool(t)
      BY <1>3, AppendFacts
    <2> QED
      BY <1>0, <1>3, <2>1 DEF RegisterAppend, TypeOK, Disconnecting, NoOrphanTunnel
  <1>4. CASE RegisterRefused(s) \/ RegisterDone(s)
    <2>1. \A t \in Session : InPool(t)' <=> InPool(t)
      BY <1>4 DEF RegisterRefused, RegisterDone, InPool, Members, Pos
    <2> QED
      BY <1>0, <1>4, <2>1 DEF RegisterRefused, RegisterDone, TypeOK, Lifecycle,
                              Disconnecting, NoOrphanTunnel
  <1>5. CASE CloseSession(s)
    BY <1>0, <1>5, OrphanSame DEF CloseSession, TypeOK, Disconnecting
  <1>6. CASE DisconnectLookup(s)
    BY <1>0, <1>6, OrphanSame DEF DisconnectLookup, IsRegistered, TypeOK, Disconnecting
  <1>7. CASE DisconnectRemove(s)
    <2>1. \A t \in Session : InPool(t)' <=> InPool(t) /\ t # s
      BY <1>7, RemoveFacts
    <2>2. s \in yamuxClosed
      BY <1>7 DEF DisconnectRemove, IsRegistered, Disconnecting
    <2> QED
      BY <1>0, <1>7, <2>1, <2>2 DEF DisconnectRemove, TypeOK, Disconnecting, NoOrphanTunnel
  <1>8. CASE DisconnectUnknown(s)
    BY <1>0, <1>8, OrphanSame DEF DisconnectUnknown, TypeOK, Disconnecting
  <1>9. CASE TransportCollapse(s)
    BY <1>9, OrphanSame DEF TransportCollapse, Disconnecting
  <1>10. CASE PollStore(s)
    BY <1>10, OrphanSame DEF PollStore, Disconnecting
  <1>11. ASSUME NEW ok \in BOOLEAN, PollLookup(s, ok)
         PROVE  Disconnecting' /\ NoOrphanTunnel'
    BY <1>11, OrphanSame DEF PollLookup, Disconnecting
  <1>12. CASE DrainStep(s)
    BY <1>0, <1>12, OrphanSame DEF DrainStep, DrainEnds, DrainClose, TypeOK, Disconnecting
  <1> QED
    BY <1>1, <1>2, <1>3, <1>4, <1>5, <1>6, <1>7, <1>8, <1>9, <1>10, <1>11, <1>12
       DEF HookStep

\* Every step preserves the inductive invariant.
LEMMA NextInv == RegistryInv /\ [Next]_vars => RegistryInv'
  <1> SUFFICES ASSUME RegistryInv, [Next]_vars PROVE RegistryInv'
    OBVIOUS
  <1>1. CASE UNCHANGED vars
    BY <1>1, PoolStutter, OrphanSame DEF vars, RegistryInv, Disconnecting
  <1>2. ASSUME NEW s \in Session, HookStep(s) \/ DrainStep(s) PROVE RegistryInv'
    BY <1>2, PoolStep, HookOrder DEF RegistryInv
  <1> QED
    BY <1>1, <1>2 DEF Next

-----------------------------------------------------------------------------
(* Health.  Reports only come from clients with a health check, and without *)
(* reports a tunnel stays as healthy as Register made it.                   *)

HealthDefault ==
    \A s \in Session :
        /\ poll[s] # NoPoll => owner[s] \in HealthEnabled
        /\ conn[s] = "connected" /\ owner[s] \notin HealthEnabled => s \in localHealthy

\* Every step keeps it, given the registry's invariant: a report is stored in
\* a tunnel of the client it came from.
LEMMA HealthDefaultStep ==
    ASSUME RegistryInv, HealthDefault, [Next]_vars
    PROVE  HealthDefault'
  <1> USE DEF HealthDefault
  <1>t. /\ conn \in [Session -> ConnState]
        /\ owner \in [Session -> Client \union {NoClient}]
        /\ poll \in [Session -> Poll]
    BY DEF RegistryInv, PoolInv, TypeOK
  <1>l. \A s \in Session : poll[s] # NoPoll => /\ conn[s] = "connected"
                                             /\ owner[poll[s].target] = owner[s]
    BY DEF RegistryInv, PoolInv, Lifecycle, ReportSameClient
  <1>0. CASE UNCHANGED <<conn, owner, poll, localHealthy>>
    BY <1>0
  <1>1. ASSUME NEW s \in Session, NEW c \in Client, AuthenticateConnect(s, c)
        PROVE  HealthDefault'
    BY <1>1, <1>t, <1>l DEF AuthenticateConnect
  <1>2. ASSUME NEW s \in Session,
               RegisterReplace(s) \/ RegisterAppend(s) \/ RegisterRefused(s)
        PROVE  HealthDefault'
    BY <1>2, <1>t DEF RegisterReplace, RegisterAppend, RegisterRefused
  <1>3. ASSUME NEW s \in Session, RegisterDone(s) PROVE HealthDefault'
    BY <1>3, <1>t DEF RegisterDone
  <1>4. ASSUME NEW s \in Session, NEW ok \in BOOLEAN, PollLookup(s, ok)
        PROVE  HealthDefault'
    BY <1>4, <1>t DEF PollLookup
  <1>5. ASSUME NEW s \in Session, PollStore(s) PROVE HealthDefault'
    BY <1>5, <1>t, <1>l DEF PollStore
  <1>6. ASSUME NEW s \in Session,
               \/ CloseSession(s) \/ DisconnectLookup(s) \/ DisconnectRemove(s)
               \/ DisconnectUnknown(s) \/ TransportCollapse(s) \/ DrainStep(s)
        PROVE  HealthDefault'
    BY <1>0, <1>6 DEF CloseSession, DisconnectLookup, DisconnectRemove,
                      DisconnectUnknown, TransportCollapse, DrainStep, DrainEnds,
                      DrainClose
  <1>7. CASE UNCHANGED vars
    BY <1>0, <1>7 DEF vars
  <1> QED
    BY <1>1, <1>2, <1>3, <1>4, <1>5, <1>6, <1>7 DEF Next, HookStep

-----------------------------------------------------------------------------
(* Theorems.                                                               *)

\* The inductive invariant holds in every reachable state, for any bindings.
THEOREM Invariance == Spec => []RegistryInv
  BY InitInv, NextInv, PTL DEF Spec

\* Type correctness of the registry and its hooks; in particular
\* SetLocalHealth never writes through a nil tunnel.
THEOREM TypeCorrect == Spec => []TypeOK
  <1>1. RegistryInv => TypeOK
    BY DEF RegistryInv, PoolInv
  <1> QED
    BY <1>1, Invariance, PTL

\* bySess and the pools always name the same tunnels.
THEOREM IndexesAgree == Spec => []IndexConsistent
  <1>1. RegistryInv => IndexConsistent
    BY DEF RegistryInv, PoolInv
  <1> QED
    BY <1>1, Invariance, PTL

\* One tunnel per client_id in a pool, and only of clients bound to it.
THEOREM MembersUnique == Spec => []UniqueMember
  <1>1. RegistryInv => UniqueMember
    BY DEF RegistryInv, PoolInv
  <1> QED
    BY <1>1, Invariance, PTL

\* No race of connects makes a pool larger than max_clients allows.
THEOREM PoolsBounded == Spec => []PoolBound
  <1>1. RegistryInv => PoolBound
    BY DEF RegistryInv, PoolInv
  <1> QED
    BY <1>1, Invariance, PTL

\* No open tunnel is ever out of reach of both its pool and a drain.
THEOREM NoOrphans == Spec => []NoOrphanTunnel
  <1>1. RegistryInv => NoOrphanTunnel
    BY DEF RegistryInv, PoolInv
  <1> QED
    BY <1>1, Invariance, PTL

\* A superseded tunnel is in no pool, so nothing is routed to what drains.
THEOREM DrainingUnreachable == Spec => []DrainingOutOfPool
  <1>1. RegistryInv => DrainingOutOfPool
    BY DEF RegistryInv, PoolInv
  <1> QED
    BY <1>1, Invariance, PTL

\* Pick accepts the open tunnel of a client without health check as long as
\* it is in its pool: nobody else's report or disconnect makes it unavailable.
THEOREM OpenTunnelServes == Spec => []PoolServes
  <1>1. Init => HealthDefault
    BY DEF Init, HealthDefault
  <1>2. RegistryInv /\ HealthDefault /\ [Next]_vars => HealthDefault'
    BY HealthDefaultStep
  <1>3. RegistryInv /\ HealthDefault => PoolServes
    BY DEF RegistryInv, PoolInv, DrainingOutOfPool, HealthDefault, PoolServes, Available
  <1> QED
    BY <1>1, <1>2, <1>3, Invariance, PTL DEF Spec
=============================================================================
