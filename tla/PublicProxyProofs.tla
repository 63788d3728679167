------------------------- MODULE PublicProxyProofs -------------------------
(***************************************************************************)
(* The composition of requests and registry: it still implements the       *)
(* registry's specification, and ActiveStreams counts what it should, for  *)
(* any bindings, any number of sessions and any finite set of requests.    *)
(***************************************************************************)
EXTENDS PublicProxy, TunnelRegistryProofs, FiniteSetTheorems, WellFoundedInduction

USE BindingAssumption, NilAssumption

-----------------------------------------------------------------------------
(* The composition implements the registry.                                *)

\* A request only reads the registry, and the two ways a drain loop ends are
\* the registry's, so a step of the composition is a step of the registry or
\* leaves it alone.
LEMMA ProxyStepRefines == [ProxyNext]_allVars => [Next]_vars
  BY DEF ProxyNext, RequestStep, Pick, CheckHealth, Admit, OpenStream, CountStream, StreamEnds,
         UncountStream, DrainIdle, DrainExpired, Next, HookStep, DrainStep,
         allVars, vars, proxyVars

\* Every behaviour of the composition is one of the registry: requests cannot
\* break anything that was proved of the registry alone.
THEOREM ProxyRefinesRegistry == ProxySpec => Spec
  <1>1. ProxyInit => Init
    BY DEF ProxyInit
  <1> QED
    BY <1>1, ProxyStepRefines, PTL DEF ProxySpec, Spec

-----------------------------------------------------------------------------
(* Counting streams.                                                       *)

\* A non-empty set of positions has a first one.
LEMMA FirstExists ==
    ASSUME NEW I, I \subseteq Nat, I # {}
    PROVE  First(I) \in I
  <1>1. PICK x \in I : \A y \in I : ~(<<y, x>> \in OpToRel(<, Nat))
    BY NatLessThanWellFounded, WFMin
  <1>2. \A y \in I : ~(y < x)
    BY <1>1 DEF OpToRel
  <1>3. \A y \in I : x <= y
    BY <1>2
  <1> QED
    BY <1>3 DEF First

\* Pick returns a tunnel of the pool or nil.
LEMMA PickFacts ==
    ASSUME TypeOK, NEW h \in Host
    PROVE  PickFirst(h) \in Session \union {NoTunnel}
  <1>1. PICK I : I = {i \in Pos(h) : Available(members[h][i])}
    OBVIOUS
  <1>2. Pos(h) = 1..Len(members[h]) /\ members[h] \in Seq(Session)
    BY DEF TypeOK, Pos
  <1>3. PickFirst(h) = IF I = {} THEN NoTunnel ELSE members[h][First(I)]
    BY <1>1, Zenon DEF PickFirst
  <1>4. I \subseteq 1..Len(members[h]) /\ I \subseteq Nat
    BY <1>1, <1>2
  <1>5. CASE I # {}
    <2>1. First(I) \in I
      BY <1>4, <1>5, FirstExists, Zenon
    <2>2. PICK i \in 1..Len(members[h]) : First(I) = i
      BY <2>1, <1>4, Zenon
    <2>3. members[h][i] \in Session
      BY <1>2
    <2> QED
      BY <1>3, <1>5, <2>2, <2>3, Zenon
  <1> QED
    BY <1>3, <1>5, Zenon

\* A request between Pick and its end holds a tunnel.
HoldsTunnel ==
    \A r \in Request : req[r].pc \notin {"idle", "done"} => req[r].tunnel \in Session

\* What a request step may rely on.
ProxyInv == ProxyTypeOK /\ HoldsTunnel /\ StreamCountExact

LEMMA CountedFinite == \A s : IsFiniteSet(Counted(s))
  BY RequestAssumption, FS_Subset DEF Counted

\* A request that changes its place without taking or giving back a stream.
LEMMA SameCount ==
    ASSUME StreamCountExact, activeStreams' = activeStreams,
           \A s \in Session : Counted(s)' = Counted(s)
    PROVE  StreamCountExact'
  BY DEF StreamCountExact

\* Nothing is counted at the start.
LEMMA ProxyInitInv == ProxyInit => ProxyInv
  <1> SUFFICES ASSUME ProxyInit PROVE ProxyInv
    OBVIOUS
  <1>1. ProxyTypeOK /\ HoldsTunnel
    BY DEF ProxyInit, ProxyTypeOK, HoldsTunnel, PC, Status, Outcome
  <1>2. \A s \in Session : Counted(s) = {}
    BY DEF ProxyInit, Counted
  <1>3. StreamCountExact
    BY <1>2, FS_EmptySet DEF ProxyInit, StreamCountExact
  <1> QED
    BY <1>1, <1>3 DEF ProxyInv

\* The steps of a request that leave the counter alone: the stream of the
\* request is counted after the step if and only if it was before.
LEMMA UncountedStep ==
    ASSUME TypeOK, ProxyInv, NEW r \in Request,
           \/ \E h \in Host : Pick(r, h)
           \/ CheckHealth(r)
           \/ Admit(r)
           \/ OpenStream(r)
           \/ \E status \in Outcome : StreamEnds(r, status)
    PROVE  ProxyInv'
  <1> USE DEF ProxyInv
  <1>1. PICK q \in [pc : PC, tunnel : Session \union {NoTunnel}, status : Status] :
           /\ req' = [req EXCEPT ![r] = q]
           /\ q.pc \notin {"idle", "done"} => q.tunnel \in Session
           /\ \A s \in Session :
                 (q.tunnel = s /\ q.pc \in {"active", "closing"}) <=>
                 (req[r].tunnel = s /\ req[r].pc \in {"active", "closing"})
    <2>1. CASE \E h \in Host : Pick(r, h)
      <3>1. PICK h \in Host : Pick(r, h)
        BY <2>1
      <3>2. PICK p \in Session \union {NoTunnel} : p = PickFirst(h)
        BY PickFacts
      <3>3. CASE p = NoTunnel
        BY <3>1, <3>2, <3>3 DEF Pick, Answer, ProxyTypeOK, PC, Status, Outcome
      <3>4. CASE p # NoTunnel
        <4>1. PICK q : q = [pc |-> "picked", tunnel |-> p, status |-> req[r].status]
          OBVIOUS
        <4>2. q \in [pc : PC, tunnel : Session \union {NoTunnel}, status : Status]
          BY <4>1 DEF ProxyTypeOK, PC
        <4>3. req' = [req EXCEPT ![r] = q]
          BY <3>1, <3>2, <3>4, <4>1 DEF Pick, ProxyTypeOK
        <4>4. q.pc = "picked" /\ q.tunnel = p /\ req[r].pc = "idle" /\ p \in Session
          BY <3>1, <3>4, <4>1 DEF Pick
        <4>5. \A s \in Session :
                 (q.tunnel = s /\ q.pc \in {"active", "closing"}) <=>
                 (req[r].tunnel = s /\ req[r].pc \in {"active", "closing"})
          BY <4>4
        <4> QED
          BY <4>2, <4>3, <4>4, <4>5, Zenon
      <3> QED
        BY <3>3, <3>4
    <2>2. CASE CheckHealth(r)
      BY <2>2 DEF CheckHealth, Goto, Answer, ProxyTypeOK, HoldsTunnel, PC, Status, Outcome
    <2>3. CASE Admit(r)
      BY <2>3 DEF Admit, Goto, Answer, ProxyTypeOK, HoldsTunnel, PC, Status, Outcome
    <2>4. CASE OpenStream(r)
      BY <2>4 DEF OpenStream, Goto, Answer, ProxyTypeOK, HoldsTunnel, PC, Status, Outcome
    <2>5. CASE \E status \in Outcome : StreamEnds(r, status)
      <3>1. PICK st \in Outcome : StreamEnds(r, st)
        BY <2>5
      <3>2. PICK q : q = [pc |-> "closing", tunnel |-> req[r].tunnel, status |-> st]
        OBVIOUS
      <3>3. q \in [pc : PC, tunnel : Session \union {NoTunnel}, status : Status]
        BY <3>2 DEF ProxyTypeOK, PC, Status, Outcome
      <3>4. req' = [req EXCEPT ![r] = q]
        BY <3>1, <3>2 DEF StreamEnds, ProxyTypeOK
      <3>5. /\ req[r].pc = "active" /\ q.pc = "closing"
            /\ q.tunnel = req[r].tunnel /\ q.tunnel \in Session
        BY <3>1, <3>2 DEF StreamEnds, HoldsTunnel
      <3>6. \A s \in Session :
               (q.tunnel = s /\ q.pc \in {"active", "closing"}) <=>
               (req[r].tunnel = s /\ req[r].pc \in {"active", "closing"})
        BY <3>5
      <3> QED
        BY <3>3, <3>4, <3>5, <3>6, Zenon
    <2> QED
      BY <2>1, <2>2, <2>3, <2>4, <2>5
  <1>2. activeStreams' = activeStreams
    BY DEF Pick, CheckHealth, Admit, OpenStream, StreamEnds
  <1>3. ProxyTypeOK'
    BY <1>1, <1>2 DEF ProxyTypeOK
  <1>4. HoldsTunnel'
    BY <1>1 DEF ProxyTypeOK, HoldsTunnel
  <1>5. \A s \in Session : Counted(s)' = Counted(s)
    BY <1>1 DEF ProxyTypeOK, Counted
  <1>6. StreamCountExact'
    BY <1>2, <1>5, SameCount
  <1> QED
    BY <1>3, <1>4, <1>6

\* ActiveStreams.Add(1) is the step in which the stream becomes counted.
LEMMA CountStep ==
    ASSUME ProxyInv, NEW r \in Request, CountStream(r)
    PROVE  ProxyInv'
  <1> USE DEF ProxyInv
  <1>1. PICK t \in Session : t = req[r].tunnel
    BY DEF CountStream, HoldsTunnel
  <1>2. /\ req' = [req EXCEPT ![r].pc = "active"]
        /\ activeStreams' = [activeStreams EXCEPT ![t] = @ + 1]
        /\ req[r].pc = "opened"
    BY <1>1 DEF CountStream, Goto
  <1>3. ProxyTypeOK'
    BY <1>2 DEF ProxyTypeOK, PC
  <1>4. HoldsTunnel'
    BY <1>1, <1>2 DEF ProxyTypeOK, HoldsTunnel
  <1>5. Counted(t)' = Counted(t) \union {r} /\ r \notin Counted(t)
    BY <1>1, <1>2 DEF ProxyTypeOK, Counted
  <1>6. \A s \in Session \ {t} : Counted(s)' = Counted(s)
    BY <1>1, <1>2 DEF ProxyTypeOK, Counted
  <1>7. Cardinality(Counted(t)') = Cardinality(Counted(t)) + 1
    BY <1>5, CountedFinite, FS_AddElement
  <1>8. StreamCountExact'
    BY <1>2, <1>6, <1>7 DEF StreamCountExact, ProxyTypeOK
  <1> QED
    BY <1>3, <1>4, <1>8

\* countedConn.Close gives back exactly the stream it was counted for.
LEMMA UncountStep ==
    ASSUME ProxyInv, NEW r \in Request, UncountStream(r)
    PROVE  ProxyInv'
  <1> USE DEF ProxyInv
  <1>1. PICK t \in Session : t = req[r].tunnel
    BY DEF UncountStream, HoldsTunnel
  <1>2. /\ req' = [req EXCEPT ![r].pc = "done"]
        /\ activeStreams' = [activeStreams EXCEPT ![t] = @ - 1]
        /\ req[r].pc = "closing"
    BY <1>1 DEF UncountStream, Goto
  <1>3. Counted(t)' = Counted(t) \ {r} /\ r \in Counted(t)
    BY <1>1, <1>2 DEF ProxyTypeOK, Counted
  <1>4. \A s \in Session \ {t} : Counted(s)' = Counted(s)
    BY <1>1, <1>2 DEF ProxyTypeOK, Counted
  <1>5. /\ Cardinality(Counted(t)') = Cardinality(Counted(t)) - 1
        /\ Cardinality(Counted(t)') \in Nat
    <2>1. IsFiniteSet(Counted(t)) /\ IsFiniteSet(Counted(t)')
      BY <1>3, CountedFinite, FS_RemoveElement
    <2> QED
      BY <1>3, <2>1, FS_RemoveElement, FS_CardinalityType
  <1>6. activeStreams[t] - 1 \in Nat
    BY <1>5 DEF StreamCountExact
  <1>7. ProxyTypeOK'
    BY <1>2, <1>6 DEF ProxyTypeOK, PC
  <1>8. HoldsTunnel'
    BY <1>2 DEF ProxyTypeOK, HoldsTunnel
  <1>9. StreamCountExact'
    BY <1>2, <1>4, <1>5 DEF StreamCountExact, ProxyTypeOK
  <1> QED
    BY <1>7, <1>8, <1>9

\* Every step of the composition keeps the count.
LEMMA ProxyNextInv == TypeOK /\ ProxyInv /\ [ProxyNext]_allVars => ProxyInv'
  <1> SUFFICES ASSUME TypeOK, ProxyInv, [ProxyNext]_allVars PROVE ProxyInv'
    OBVIOUS
  <1>1. CASE UNCHANGED proxyVars
    BY <1>1 DEF proxyVars, ProxyInv, ProxyTypeOK, HoldsTunnel, StreamCountExact, Counted
  <1>2. ASSUME NEW r \in Request, RequestStep(r) PROVE ProxyInv'
    BY <1>2, UncountedStep, CountStep, UncountStep DEF RequestStep
  <1> QED
    BY <1>1, <1>2 DEF ProxyNext, DrainIdle, DrainExpired, allVars

\* The inductive invariant of the composition holds in every state.
THEOREM ProxyInvariance == ProxySpec => []ProxyInv
  <1>1. ProxySpec => []TypeOK
    BY ProxyRefinesRegistry, TypeCorrect, PTL
  <1> QED
    BY <1>1, ProxyInitInv, ProxyNextInv, PTL DEF ProxySpec

\* Type correctness of the request path; in particular ActiveStreams never
\* goes below zero.
THEOREM ProxyTypeCorrect == ProxySpec => []ProxyTypeOK
  <1>1. ProxyInv => ProxyTypeOK
    BY DEF ProxyInv
  <1> QED
    BY <1>1, ProxyInvariance, PTL

\* The counter that the stream limit and the drain of a superseded tunnel
\* rest on is exact, for any number of concurrent requests.
THEOREM StreamsCounted == ProxySpec => []StreamCountExact
  <1>1. ProxyInv => StreamCountExact
    BY DEF ProxyInv
  <1> QED
    BY <1>1, ProxyInvariance, PTL
=============================================================================
