--------------------------- MODULE RoutingProofs ---------------------------
(***************************************************************************)
(* Configuration and routing, for any files, bindings, paths and headers:  *)
(* what path.Clean computes, by induction over the parts of a path; what   *)
(* the loaders accept and hand on; where a request, a redirect and a       *)
(* cookie go.                                                              *)
(***************************************************************************)
EXTENDS Routing, FiniteSetTheorems, SequenceTheorems, TLAPS

-----------------------------------------------------------------------------
(* Induction and recursion.  The library's theorems take an operator; with *)
(* a set in its place the provers can use them.                            *)

\* A set that holds 0 and the successor of each of its numbers holds all.
LEMMA SetInduction ==
    ASSUME NEW S, 0 \in S, \A n \in Nat : n \in S => n + 1 \in S
    PROVE  Nat \subseteq S
  <1> SUFFICES ASSUME Nat \ S # {} PROVE FALSE
    OBVIOUS
  <1>1. PICK x \in Nat \ S : \A y \in Nat \ S : ~(<<y, x>> \in OpToRel(<, Nat))
    BY NatLessThanWellFounded, WFMin
  <1>2. \A y \in Nat \ S : ~(y < x)
    BY <1>1 DEF OpToRel
  <1>3. x - 1 \in Nat /\ x - 1 < x /\ (x - 1) + 1 = x
    OBVIOUS
  <1> QED
    BY <1>2, <1>3

\* f starts with c and goes on by the step functions of D.
Unfolds(f, c, D, n) == f[0] = c /\ \A i \in 1..n : f[i] = D[i][f[i - 1]]

\* Steps that stay in V can be iterated.
LEMMA Recursion ==
    ASSUME NEW V, NEW c \in V, NEW n \in Nat, NEW D \in [1..n -> [V -> V]]
    PROVE  \E f \in [0..n -> V] : Unfolds(f, c, D, n)
  <1> DEFINE Good(m) == \E f \in [0..m -> V] :
                            f[0] = c /\ \A i \in 1..m : f[i] = D[i][f[i - 1]]
             S == {m \in Nat : m <= n => Good(m)}
  <1>1. 0 \in S
    <2> DEFINE f == [i \in 0..0 |-> c]
    <2>1. f \in [0..0 -> V] /\ f[0] = c /\ \A i \in 1..0 : f[i] = D[i][f[i - 1]]
      OBVIOUS
    <2>2. Good(0)
      <3> HIDE DEF f
      <3> QED
        BY <2>1
    <2> QED
      BY <2>2
  <1>2. ASSUME NEW m \in Nat, m \in S PROVE m + 1 \in S
    <2> SUFFICES ASSUME m + 1 <= n PROVE Good(m + 1)
      OBVIOUS
    <2>1. PICK f \in [0..m -> V] : f[0] = c /\ \A i \in 1..m : f[i] = D[i][f[i - 1]]
      BY <1>2
    <2> DEFINE g == [i \in 0..(m + 1) |-> IF i <= m THEN f[i] ELSE D[m + 1][f[m]]]
    <2>2. f[m] \in V /\ m + 1 \in 1..n
      BY <2>1
    <2>3. D[m + 1][f[m]] \in V
      BY <2>2
    <2>4. g \in [0..(m + 1) -> V]
      BY <2>3
    <2>5. g[0] = c
      BY <2>1
    <2>6. \A i \in 1..(m + 1) : g[i] = D[i][g[i - 1]]
      BY <2>1
    <2> QED
      BY <2>4, <2>5, <2>6
  <1>3. Nat \subseteq S
    <2> HIDE DEF S
    <2> QED
      BY <1>1, <1>2, SetInduction
  <1>4. Good(n)
    BY <1>3
  <1> QED
    BY <1>4 DEF Unfolds

\* A non-empty set of natural numbers has a least one, and Min is it.
LEMMA MinFacts ==
    ASSUME NEW I, I \subseteq Nat, I # {}
    PROVE  Min(I) \in I /\ \A y \in I : Min(I) <= y
  <1>1. PICK x \in I : \A y \in I : ~(<<y, x>> \in OpToRel(<, Nat))
    BY NatLessThanWellFounded, WFMin
  <1>2. \A y \in I : x <= y
    <2>1. \A y \in I : ~(y < x)
      BY <1>1 DEF OpToRel
    <2> QED
      BY <2>1
  <1> QED
    BY <1>2 DEF Min

\* A non-empty set of numbers up to n has a greatest one, and Max is in it.
LEMMA MaxFacts ==
    ASSUME NEW n \in Nat, NEW I, I \subseteq 0..n, I # {}
    PROVE  Max(I) \in I
  <1> DEFINE J == {z \in Nat : n - z \in I}
  <1>1. J \subseteq Nat /\ J # {}
    <2>1. PICK y \in I : TRUE
      OBVIOUS
    <2>2. n - y \in Nat /\ n - (n - y) = y
      OBVIOUS
    <2>3. n - y \in J
      BY <2>2
    <2> QED
      BY <2>3
  <1>2. Min(J) \in J /\ \A y \in J : Min(J) <= y
    <2> HIDE DEF J
    <2> QED
      BY <1>1, MinFacts
  <1>3. PICK x \in I : x = n - Min(J) /\ Min(J) \in Nat
    BY <1>2
  <1>4. \A y \in I : x >= y
    <2> TAKE y \in I
    <2>1. n - y \in Nat /\ n - (n - y) = y
      OBVIOUS
    <2>2. n - y \in J
      BY <2>1
    <2>3. Min(J) <= n - y
      BY <1>2, <2>2
    <2> HIDE DEF J
    <2> QED
      BY <1>3, <2>3
  <1> QED
    BY <1>4 DEF Max

-----------------------------------------------------------------------------
(* Prefixes.                                                               *)

\* Front drops the last part.
LEMMA FrontFacts ==
    ASSUME NEW X, NEW s \in Seq(X), s # <<>>
    PROVE  /\ Front(s) \in Seq(X)
           /\ Len(Front(s)) = Len(s) - 1
           /\ \A i \in 1..(Len(s) - 1) : Front(s)[i] = s[i]
  <1>1. Len(s) - 1 \in Nat /\ \A i \in 1..(Len(s) - 1) : s[i] \in X
    OBVIOUS
  <1>2. PICK n \in Nat : n = Len(s) - 1
    BY <1>1, Zenon
  <1>3. \A i \in 1..n : s[i] \in X
    BY <1>1, <1>2
  <1>4. SubSeq(s, 1, n) \in Seq(X) /\ Len(SubSeq(s, 1, n)) = IF 1 <= n THEN n - 1 + 1 ELSE 0
    BY <1>3, SubSeqProperties
  <1>5. \A i \in 1..(n - 1 + 1) : SubSeq(s, 1, n)[i] = s[1 + i - 1]
    BY <1>3, SubSeqProperties
  <1> QED
    BY <1>2, <1>4, <1>5 DEF Front

\* IsPrefix, part by part.
LEMMA PrefixFacts ==
    ASSUME NEW X, NEW s \in Seq(X), NEW t \in Seq(X)
    PROVE  IsPrefix(s, t) <=> Len(s) <= Len(t) /\ \A i \in 1..Len(s) : s[i] = t[i]
  <1>1. PICK n \in Nat : n = Len(s)
    OBVIOUS
  <1>2. SubSeq(s, 1, n) = s
    BY <1>1, SubSeqFull
  <1>3. ASSUME n <= Len(t)
        PROVE  SubSeq(t, 1, n) = s <=> \A i \in 1..n : s[i] = t[i]
    <2>1. \A i \in 1..n : t[i] \in X
      BY <1>3
    <2>2. SubSeq(t, 1, n) \in Seq(X) /\ Len(SubSeq(t, 1, n)) = IF 1 <= n THEN n - 1 + 1 ELSE 0
      BY <2>1, SubSeqProperties
    <2>3. \A i \in 1..(n - 1 + 1) : SubSeq(t, 1, n)[i] = t[1 + i - 1]
      BY <2>1, SubSeqProperties
    <2>4. \A i \in 1..n : SubSeq(t, 1, n)[i] = t[i]
      BY <2>3
    <2>5. PICK u \in Seq(X) : u = SubSeq(t, 1, n)
      BY <2>2
    <2>6. Len(u) = Len(s) /\ \A i \in 1..n : u[i] = t[i]
      BY <1>1, <2>2, <2>4, <2>5
    <2>7. (\A i \in 1..n : s[i] = t[i]) => u = s
      <3> SUFFICES ASSUME \A i \in 1..n : s[i] = t[i] PROVE u = s
        OBVIOUS
      <3>1. \A i \in 1..Len(u) : u[i] = s[i]
        BY <1>1, <2>6
      <3> QED
        BY <2>6, <3>1, SeqEqual
    <2> QED
      BY <2>5, <2>6, <2>7
  <1> QED
    BY <1>1, <1>2, <1>3 DEF IsPrefix

\* Of two prefixes of one path, one is below the other.
LEMMA PrefixesNested ==
    ASSUME NEW X, NEW s \in Seq(X), NEW t \in Seq(X), NEW p \in Seq(X),
           IsPrefix(s, p), IsPrefix(t, p)
    PROVE  Nested(s, t)
  <1>1. /\ Len(s) <= Len(p) /\ \A i \in 1..Len(s) : s[i] = p[i]
        /\ Len(t) <= Len(p) /\ \A i \in 1..Len(t) : t[i] = p[i]
    BY PrefixFacts
  <1>2. CASE Len(s) <= Len(t)
    <2>1. \A i \in 1..Len(s) : s[i] = t[i]
      BY <1>1, <1>2
    <2> QED
      BY <1>2, <2>1, PrefixFacts DEF Nested, Under, IsStrictPrefix
  <1>3. CASE Len(t) <= Len(s)
    <2>1. \A i \in 1..Len(t) : t[i] = s[i]
      BY <1>1, <1>3
    <2> QED
      BY <1>3, <2>1, PrefixFacts DEF Nested, Under, IsStrictPrefix
  <1> QED
    BY <1>2, <1>3

\* A path is a prefix of itself, and equality is part by part.
LEMMA PrefixOrder ==
    ASSUME NEW X, NEW s \in Seq(X), NEW t \in Seq(X)
    PROVE  /\ IsPrefix(s, s)
           /\ IsPrefix(s, t) <=> s = t \/ Under(t, s)
           /\ IsPrefix(s, t) /\ Len(s) = Len(t) => s = t
  <1>1. IsPrefix(s, s)
    BY PrefixFacts
  <1>2. IsPrefix(s, t) /\ Len(s) = Len(t) => s = t
    BY PrefixFacts, SeqEqual
  <1> QED
    BY <1>1, <1>2 DEF Under, IsStrictPrefix

\* What concatenation does to prefixes.
LEMMA ConcatPrefix ==
    ASSUME NEW X, NEW s \in Seq(X), NEW t \in Seq(X), NEW u \in Seq(X)
    PROVE  /\ IsPrefix(s, s \o t)
           /\ IsPrefix(t, u) => IsPrefix(s \o t, s \o u)
           /\ Len(s \o t) = Len(s) + Len(t)
  <1>1. /\ s \o t \in Seq(X) /\ Len(s \o t) = Len(s) + Len(t)
        /\ \A i \in 1..(Len(s) + Len(t)) :
               (s \o t)[i] = IF i <= Len(s) THEN s[i] ELSE t[i - Len(s)]
    BY ConcatProperties
  <1>2. /\ s \o u \in Seq(X) /\ Len(s \o u) = Len(s) + Len(u)
        /\ \A i \in 1..(Len(s) + Len(u)) :
               (s \o u)[i] = IF i <= Len(s) THEN s[i] ELSE u[i - Len(s)]
    BY ConcatProperties
  <1>3. IsPrefix(s, s \o t)
    <2>1. Len(s) <= Len(s) + Len(t) /\ \A i \in 1..Len(s) : s[i] = (s \o t)[i]
      BY <1>1
    <2> QED
      BY <1>1, <2>1, PrefixFacts
  <1>4. ASSUME IsPrefix(t, u) PROVE IsPrefix(s \o t, s \o u)
    <2>1. Len(t) <= Len(u) /\ \A i \in 1..Len(t) : t[i] = u[i]
      BY <1>4, PrefixFacts
    <2>2. PICK a \in Seq(X) : a = s \o t
      BY <1>1
    <2>3. PICK b \in Seq(X) : b = s \o u
      BY <1>2
    <2>4. Len(a) <= Len(b) /\ Len(a) = Len(s) + Len(t)
      BY <1>1, <1>2, <2>1, <2>2, <2>3
    <2>5. \A i \in 1..Len(a) : a[i] = b[i]
      <3> TAKE i \in 1..Len(a)
      <3>1. i \in 1..(Len(s) + Len(t)) /\ i \in 1..(Len(s) + Len(u))
        BY <2>1, <2>4
      <3>2. i > Len(s) => i - Len(s) \in 1..Len(t)
        BY <3>1
      <3> QED
        BY <1>1, <1>2, <2>1, <2>2, <2>3, <3>1, <3>2
    <2> QED
      BY <2>2, <2>3, <2>4, <2>5, PrefixFacts
  <1> QED
    BY <1>1, <1>3, <1>4

-----------------------------------------------------------------------------
(* path.Clean.                                                             *)

\* What follows a trailing slash.
Nil == ""

\* A part that stands for itself, and a path of such parts.
Ordinary(x) == x \notin {"", ".", ".."}
Plain(p) == \A i \in 1..Len(p) : Ordinary(p[i])

\* Shorter and longer plain paths.
LEMMA PlainFacts ==
    ASSUME NEW X, NEW s \in Seq(X)
    PROVE  /\ Plain(<<>>)
           /\ s # <<>> /\ Plain(s) => Plain(Front(s))
           /\ \A x \in X : Plain(s) /\ Ordinary(x) => Plain(Append(s, x))
           /\ \A t \in Seq(X) : Plain(s) /\ Plain(t) => Plain(s \o t)
  <1>1. Plain(<<>>)
    <2>1. 1..Len(<<>>) = {}
      OBVIOUS
    <2> QED
      BY <2>1, Zenon DEF Plain
  <1>2. ASSUME s # <<>>, Plain(s) PROVE Plain(Front(s))
    <2>1. Len(Front(s)) = Len(s) - 1 /\ \A i \in 1..(Len(s) - 1) : Front(s)[i] = s[i]
      BY <1>2, FrontFacts
    <2>2. PICK u : u = Front(s)
      OBVIOUS
    <2>3. Len(u) = Len(s) - 1 /\ \A i \in 1..(Len(s) - 1) : u[i] = s[i]
      BY <2>1, <2>2, Zenon
    <2>4. Plain(u)
      BY <1>2, <2>3 DEF Plain
    <2> QED
      BY <2>2, <2>4, Zenon
  <1>3. ASSUME NEW x \in X, Plain(s), Ordinary(x) PROVE Plain(Append(s, x))
    <2>1. /\ Len(Append(s, x)) = Len(s) + 1
          /\ \A i \in 1..Len(s) : Append(s, x)[i] = s[i]
          /\ Append(s, x)[Len(s) + 1] = x
      BY AppendProperties
    <2>2. PICK u : u = Append(s, x)
      OBVIOUS
    <2>3. Len(u) = Len(s) + 1 /\ u[Len(s) + 1] = x /\ \A i \in 1..Len(s) : u[i] = s[i]
      BY <2>1, <2>2, Zenon
    <2>4. Plain(u)
      BY <1>3, <2>3 DEF Plain
    <2> QED
      BY <2>2, <2>4, Zenon
  <1>4. ASSUME NEW t \in Seq(X), Plain(s), Plain(t) PROVE Plain(s \o t)
    <2>1. /\ Len(s \o t) = Len(s) + Len(t)
          /\ \A i \in 1..(Len(s) + Len(t)) :
                 (s \o t)[i] = IF i <= Len(s) THEN s[i] ELSE t[i - Len(s)]
      BY ConcatProperties
    <2>2. PICK u : u = s \o t
      OBVIOUS
    <2>3. /\ Len(u) = Len(s) + Len(t)
          /\ \A i \in 1..(Len(s) + Len(t)) : u[i] = IF i <= Len(s) THEN s[i] ELSE t[i - Len(s)]
      BY <2>1, <2>2, Zenon
    <2>4. ASSUME NEW i \in 1..Len(u) PROVE Ordinary(u[i])
      <3>1. CASE i <= Len(s)
        BY <1>4, <2>3, <3>1 DEF Plain
      <3>2. CASE i > Len(s)
        <4>1. i - Len(s) \in 1..Len(t) /\ u[i] = t[i - Len(s)]
          BY <2>3, <3>2
        <4> QED
          BY <1>4, <4>1 DEF Plain
      <3> QED
        BY <3>1, <3>2, <2>3
    <2>5. Plain(u)
      BY <2>4 DEF Plain
    <2> QED
      BY <2>2, <2>5, Zenon
  <1> QED
    BY <1>1, <1>2, <1>3, <1>4

\* The part that leads upwards, and a path whose parts are plain after the
\* ones that lead upwards from where it starts.
Up == ".."
Climbs(p) == \A i \in 1..Len(p) :
                 Ordinary(p[i]) \/ \A j \in 1..i : p[j] = Up

\* Shorter and longer climbing paths; one that does not begin with ".." is plain.
LEMMA ClimbsFacts ==
    ASSUME NEW X, NEW s \in Seq(X)
    PROVE  /\ Climbs(<<>>)
           /\ s # <<>> /\ Climbs(s) => Climbs(Front(s))
           /\ \A x \in X : Climbs(s) /\ Ordinary(x) => Climbs(Append(s, x))
           /\ \A x \in X : Climbs(s) /\ ~(s # <<>> /\ Last(s) # Up) /\ x = Up
                               => Climbs(Append(s, x))
           /\ s # <<>> /\ Climbs(s) /\ Head(s) # Up => Plain(s)
  <1>1. Climbs(<<>>)
    <2>1. 1..Len(<<>>) = {}
      OBVIOUS
    <2> QED
      BY <2>1, Zenon DEF Climbs
  <1>2. ASSUME s # <<>>, Climbs(s) PROVE Climbs(Front(s))
    <2>1. Len(Front(s)) = Len(s) - 1 /\ \A i \in 1..(Len(s) - 1) : Front(s)[i] = s[i]
      BY <1>2, FrontFacts
    <2>2. PICK u : u = Front(s)
      OBVIOUS
    <2>3. Len(u) = Len(s) - 1 /\ \A i \in 1..(Len(s) - 1) : u[i] = s[i]
      BY <2>1, <2>2, Zenon
    <2>4. Climbs(u)
      BY <1>2, <2>3 DEF Climbs
    <2> QED
      BY <2>2, <2>4, Zenon
  <1>3. ASSUME NEW x \in X, Climbs(s), Ordinary(x) \/ \A j \in 1..Len(s) : s[j] = Up,
               Ordinary(x) \/ x = Up
        PROVE  Climbs(Append(s, x))
    <2>1. /\ Len(Append(s, x)) = Len(s) + 1
          /\ \A i \in 1..Len(s) : Append(s, x)[i] = s[i]
          /\ Append(s, x)[Len(s) + 1] = x
      BY AppendProperties
    <2>2. PICK u : u = Append(s, x)
      OBVIOUS
    <2>3. Len(u) = Len(s) + 1 /\ u[Len(s) + 1] = x /\ \A i \in 1..Len(s) : u[i] = s[i]
      BY <2>1, <2>2, Zenon
    <2>4. ASSUME NEW i \in 1..Len(u) PROVE Ordinary(u[i]) \/ \A j \in 1..i : u[j] = Up
      <3>1. CASE i <= Len(s)
        BY <1>3, <2>3, <3>1 DEF Climbs
      <3>2. CASE i = Len(s) + 1
        BY <1>3, <2>3, <3>2
      <3> QED
        BY <2>3, <3>1, <3>2
    <2>5. Climbs(u)
      BY <2>4 DEF Climbs
    <2> QED
      BY <2>2, <2>5, Zenon
  <1>4. ASSUME Climbs(s), ~(s # <<>> /\ Last(s) # Up)
        PROVE  \A j \in 1..Len(s) : s[j] = Up
    <2>1. CASE s = <<>>
      BY <2>1
    <2>2. CASE s # <<>>
      <3>1. Last(s) = s[Len(s)] /\ Len(s) \in 1..Len(s)
        BY <2>2 DEF Last
      <3>2. s[Len(s)] = Up
        BY <1>4, <2>2, <3>1, Zenon
      <3>3. ~Ordinary(s[Len(s)])
        BY <3>2, Zenon DEF Ordinary, Up
      <3> QED
        BY <1>4, <3>1, <3>3 DEF Climbs
    <2> QED
      BY <2>1, <2>2
  <1>5. ASSUME s # <<>>, Climbs(s), Head(s) # Up PROVE Plain(s)
    <2>1. Head(s) = s[1] /\ \A i \in 1..Len(s) : 1 \in 1..i
      BY <1>5
    <2>2. s[1] # Up
      BY <1>5, <2>1, Zenon
    <2> QED
      BY <1>5, <2>1, <2>2 DEF Climbs, Plain
  <1> QED
    BY <1>1, <1>2, <1>3, <1>4, <1>5

\* One part of path.Clean, case by case.
LEMMA CleanPartFacts ==
    ASSUME NEW X, NEW rooted \in BOOLEAN, NEW acc \in Seq(X), NEW x \in X
    PROVE  /\ CleanPart(rooted, acc, x) \in Seq(X)
           /\ x = Nil => CleanPart(rooted, acc, x) = acc
           /\ Ordinary(x) => CleanPart(rooted, acc, x) = Append(acc, x)
           /\ rooted /\ Plain(acc) => Plain(CleanPart(rooted, acc, x))
           /\ Climbs(acc) => Climbs(CleanPart(rooted, acc, x))
  <1>1. CASE x \in {"", "."}
    <2>1. CleanPart(rooted, acc, x) = acc
      BY <1>1 DEF CleanPart
    <2>2. ~Ordinary(x)
      BY <1>1 DEF Ordinary
    <2> QED
      BY <2>1, <2>2
  <1>2. CASE x = Up
    <2>1. /\ acc # <<>> /\ Last(acc) # Up => CleanPart(rooted, acc, x) = Front(acc)
          /\ ~(acc # <<>> /\ Last(acc) # Up) =>
                 CleanPart(rooted, acc, x) = IF rooted THEN acc ELSE Append(acc, x)
      BY <1>2, Zenon DEF CleanPart, Up
    <2>2. ~Ordinary(x) /\ x # Nil
      BY <1>2 DEF Ordinary, Nil, Up
    <2>3. acc # <<>> => Front(acc) \in Seq(X)
      BY FrontFacts
    <2>4. acc # <<>> /\ Plain(acc) => Plain(Front(acc))
      BY PlainFacts
    <2>5. /\ acc # <<>> /\ Climbs(acc) => Climbs(Front(acc))
          /\ ~(acc # <<>> /\ Last(acc) # Up) /\ Climbs(acc) => Climbs(Append(acc, x))
      BY <1>2, ClimbsFacts
    <2>6. Append(acc, x) \in Seq(X)
      OBVIOUS
    <2> QED
      BY <2>1, <2>2, <2>3, <2>4, <2>5, <2>6, Zenon
  <1>3. CASE Ordinary(x)
    <2>1. CleanPart(rooted, acc, x) = Append(acc, x)
      BY <1>3, Zenon DEF CleanPart, Ordinary
    <2>2. Append(acc, x) \in Seq(X)
      OBVIOUS
    <2>3. Plain(acc) => Plain(Append(acc, x))
      BY <1>3, PlainFacts
    <2>4. x # Nil
      BY <1>3 DEF Ordinary, Nil
    <2>5. Climbs(acc) => Climbs(Append(acc, x))
      BY <1>3, ClimbsFacts
    <2> QED
      BY <2>1, <2>2, <2>3, <2>4, <2>5, Zenon
  <1> QED
    BY <1>1, <1>2, <1>3 DEF Ordinary, Up

\* The definition of Kept is what it says: it starts with nothing and goes on
\* by CleanPart.
LEMMA KeptEquation ==
    ASSUME NEW X, NEW rooted \in BOOLEAN, NEW p \in Seq(X)
    PROVE  /\ Kept(rooted, p)[0] = <<>>
           /\ \A i \in 1..Len(p) :
                  Kept(rooted, p)[i] = CleanPart(rooted, Kept(rooted, p)[i - 1], p[i])
  <1> DEFINE D == [i \in 1..Len(p) |-> [v \in Seq(X) |-> CleanPart(rooted, v, p[i])]]
  <1>1. Len(p) \in Nat /\ \A i \in 1..Len(p) : p[i] \in X
    OBVIOUS
  <1>2. \A i \in 1..Len(p) : \A v \in Seq(X) : CleanPart(rooted, v, p[i]) \in Seq(X)
    BY <1>1, CleanPartFacts
  <1>3. D \in [1..Len(p) -> [Seq(X) -> Seq(X)]]
    BY <1>2, Zenon
  <1>4. PICK n, V, E, c : n = Len(p) /\ V = Seq(X) /\ E = D /\ c = <<>>
    OBVIOUS
  <1>5. n \in Nat /\ E \in [1..n -> [V -> V]] /\ c \in V
    <2>1. <<>> \in Seq(X)
      OBVIOUS
    <2> QED
      BY <1>1, <1>3, <1>4, <2>1, Zenon
  <1>6. \E f \in [0..n -> V] : Unfolds(f, c, E, n)
    BY <1>5, Recursion
  <1>7. PICK f \in [0..Len(p) -> Seq(X)] :
            f[0] = <<>> /\ \A i \in 1..Len(p) : f[i] = D[i][f[i - 1]]
    BY <1>4, <1>6, Zenon DEF Unfolds
  <1>8. \A i \in 1..Len(p) : f[i] = CleanPart(rooted, f[i - 1], p[i])
    <2> TAKE i \in 1..Len(p)
    <2>1. i - 1 \in 0..Len(p)
      BY <1>1
    <2>2. f[i - 1] \in Seq(X)
      BY <2>1, Zenon
    <2> QED
      BY <1>7, <2>2, Zenon
  <1>9. f = [n_1 \in 0..Len(p) |->
                IF n_1 = 0 THEN <<>> ELSE CleanPart(rooted, f[n_1 - 1], p[n_1])]
    BY <1>1, <1>7, <1>8
  <1>10. Kept(rooted, p) =
             [n_1 \in 0..Len(p) |->
                 IF n_1 = 0 THEN <<>> ELSE CleanPart(rooted, Kept(rooted, p)[n_1 - 1], p[n_1])]
    BY <1>9, Zenon DEF Kept
  <1>11. 0 \in 0..Len(p) /\ \A i \in 1..Len(p) : i \in 0..Len(p) /\ i # 0
    BY <1>1
  <1> QED
    BY <1>10, <1>11

\* What is kept is plain at any time.
LEMMA KeptPlain ==
    ASSUME NEW X, NEW p \in Seq(X)
    PROVE  \A n \in 0..Len(p) : Kept(TRUE, p)[n] \in Seq(X) /\ Plain(Kept(TRUE, p)[n])
  <1> DEFINE Good(n) == Kept(TRUE, p)[n] \in Seq(X) /\ Plain(Kept(TRUE, p)[n])
             S == {n \in Nat : n <= Len(p) => Good(n)}
  <1>1. Good(0)
    <2>1. Kept(TRUE, p)[0] = <<>>
      BY KeptEquation
    <2>2. <<>> \in Seq(X) /\ Plain(<<>>)
      BY PlainFacts
    <2> QED
      BY <2>1, <2>2, Zenon
  <1>2. ASSUME NEW n \in Nat, n + 1 <= Len(p), Good(n) PROVE Good(n + 1)
    <2>1. n + 1 \in 1..Len(p) /\ (n + 1) - 1 = n /\ p[n + 1] \in X
      BY <1>2
    <2>2. PICK a \in Seq(X), x \in X : a = Kept(TRUE, p)[n] /\ x = p[n + 1] /\ Plain(a)
      BY <1>2, <2>1, Zenon
    <2>3. Kept(TRUE, p)[n + 1] = CleanPart(TRUE, a, x)
      BY <2>1, <2>2, KeptEquation
    <2>4. CleanPart(TRUE, a, x) \in Seq(X) /\ Plain(CleanPart(TRUE, a, x))
      BY <2>2, CleanPartFacts
    <2> QED
      BY <2>3, <2>4, Zenon
  <1> HIDE DEF Good
  <1>3. 0 \in S /\ \A n \in Nat : n \in S => n + 1 \in S
    BY <1>1, <1>2
  <1>4. Nat \subseteq S
    <2> HIDE DEF S
    <2> QED
      BY <1>3, SetInduction
  <1>5. \A n \in 0..Len(p) : Good(n)
    BY <1>4
  <1> QED
    BY <1>5 DEF Good

\* While the parts are plain, all of them are kept.
LEMMA KeptOfPlain ==
    ASSUME NEW X, NEW p \in Seq(X), NEW k \in Nat, k <= Len(p),
           \A i \in 1..k : Ordinary(p[i])
    PROVE  Len(Kept(TRUE, p)[k]) = k /\ \A i \in 1..k : Kept(TRUE, p)[k][i] = p[i]
  <1>1. PICK K : K = Kept(TRUE, p)
    OBVIOUS
  <1>2. /\ K[0] = <<>>
        /\ \A n \in 0..Len(p) : K[n] \in Seq(X)
        /\ \A i \in 1..k : Ordinary(p[i]) /\ K[i] = Append(K[i - 1], p[i])
    <2>1. K[0] = <<>> /\ \A i \in 1..Len(p) : K[i] = CleanPart(TRUE, K[i - 1], p[i])
      <3>1. /\ Kept(TRUE, p)[0] = <<>>
            /\ \A i \in 1..Len(p) :
                   Kept(TRUE, p)[i] = CleanPart(TRUE, Kept(TRUE, p)[i - 1], p[i])
        BY KeptEquation
      <3> QED
        BY <1>1, <3>1, Zenon
    <2>2. \A n \in 0..Len(p) : K[n] \in Seq(X)
      <3>1. \A n \in 0..Len(p) : Kept(TRUE, p)[n] \in Seq(X)
        BY KeptPlain
      <3> QED
        BY <1>1, <3>1, Zenon
    <2>3. \A a \in Seq(X), x \in X : Ordinary(x) => CleanPart(TRUE, a, x) = Append(a, x)
      BY CleanPartFacts
    <2>4. \A i \in 1..k : i \in 1..Len(p) /\ i - 1 \in 0..Len(p) /\ p[i] \in X
      OBVIOUS
    <2> QED
      BY <2>1, <2>2, <2>3, <2>4, Zenon
  <1> DEFINE Same(n) == Len(K[n]) = n /\ \A i \in 1..n : K[n][i] = p[i]
             S == {n \in Nat : n <= k => Same(n)}
  <1>3. Same(0)
    BY <1>2
  <1>4. ASSUME NEW n \in Nat, n + 1 <= k, Same(n) PROVE Same(n + 1)
    <2>1. n + 1 \in 1..k /\ (n + 1) - 1 = n /\ n \in 0..Len(p) /\ p[n + 1] \in X
      BY <1>4
    <2>2. PICK a \in Seq(X), x \in X : /\ a = K[n] /\ x = p[n + 1]
                                       /\ K[n + 1] = Append(a, x)
      BY <1>2, <2>1, Zenon
    <2>3. Len(a) = n /\ \A i \in 1..n : a[i] = p[i]
      BY <1>4, <2>2, Zenon
    <2>4. PICK b \in Seq(X) : b = Append(a, x)
      <3>1. Append(a, x) \in Seq(X)
        OBVIOUS
      <3> QED
        BY <3>1, Zenon
    <2>5. Len(b) = n + 1 /\ b[n + 1] = x /\ \A i \in 1..n : b[i] = a[i]
      BY <2>3, <2>4, AppendProperties
    <2>6. Len(b) = n + 1 /\ \A i \in 1..(n + 1) : b[i] = p[i]
      BY <2>2, <2>3, <2>5
    <2> QED
      BY <2>2, <2>4, <2>6, Zenon
  <1> HIDE DEF Same
  <1>5. 0 \in S /\ \A n \in Nat : n \in S => n + 1 \in S
    BY <1>3, <1>4
  <1>6. Nat \subseteq S
    <2> HIDE DEF S
    <2> QED
      BY <1>5, SetInduction
  <1>7. Same(k)
    BY <1>6
  <1> QED
    BY <1>1, <1>7, Zenon DEF Same

\* What path.Clean returns: "/", or a path of ordinary parts.
Canonical(p) == p = Root \/ (p # <<>> /\ Plain(p))

\* "/" is one empty part.
LEMMA RootFacts ==
    ASSUME NEW X, Nil \in X
    PROVE  Root \in Seq(X) /\ Root # <<>> /\ Len(Root) = 1 /\ Root[1] = Nil
  <1>1. Root = <<Nil>>
    BY DEF Root, Nil
  <1>2. PICK x \in X : x = Nil
    OBVIOUS
  <1>3. <<x>> \in Seq(X) /\ <<x>> # <<>> /\ Len(<<x>>) = 1 /\ <<x>>[1] = x
    OBVIOUS
  <1> QED
    BY <1>1, <1>2, <1>3, Zenon

\* Clean returns a canonical path.
LEMMA CleanFacts ==
    ASSUME NEW X, Nil \in X, NEW p \in Seq(X)
    PROVE  Clean(p) \in Seq(X) /\ Canonical(Clean(p)) /\ Clean(p) # <<>>
  <1>1. Len(p) \in 0..Len(p)
    OBVIOUS
  <1>2. PICK a \in Seq(X) : a = Kept(TRUE, p)[Len(p)] /\ Plain(a)
    BY <1>1, KeptPlain
  <1>3. Clean(p) = IF a = <<>> THEN Root ELSE a
    BY <1>2, Zenon DEF Clean
  <1>4. Root \in Seq(X) /\ Root # <<>>
    BY RootFacts
  <1> QED
    BY <1>2, <1>3, <1>4, Zenon DEF Canonical

\* A plain path, also one with a slash after it, is cleaned to itself.
LEMMA CleanOfPlain ==
    ASSUME NEW X, Nil \in X, NEW p \in Seq(X), NEW s \in Seq(X), Plain(s),
           \/ p = s
           \/ /\ Len(p) = Len(s) + 1 /\ p[Len(p)] = Nil
              /\ \A i \in 1..Len(s) : p[i] = s[i]
    PROVE  Clean(p) = IF s = <<>> THEN Root ELSE s
  <1>1. PICK k \in Nat : k = Len(s) /\ k <= Len(p)
    OBVIOUS
  <1>2. \A i \in 1..k : Ordinary(p[i]) /\ p[i] = s[i]
    BY <1>1 DEF Plain
  <1>3. Len(Kept(TRUE, p)[k]) = k /\ \A i \in 1..k : Kept(TRUE, p)[k][i] = p[i]
    BY <1>1, <1>2, KeptOfPlain
  <1>4. PICK a \in Seq(X) : a = Kept(TRUE, p)[k]
    <2>1. k \in 0..Len(p)
      BY <1>1
    <2> QED
      BY <2>1, KeptPlain
  <1>5. a = s
    <2>1. Len(a) = Len(s) /\ \A i \in 1..Len(a) : a[i] = s[i]
      BY <1>1, <1>2, <1>3, <1>4
    <2> QED
      BY <2>1, SeqEqual
  <1>6. Kept(TRUE, p)[Len(p)] = s
    <2>1. CASE p = s
      BY <1>1, <1>4, <1>5, <2>1, Zenon
    <2>2. CASE Len(p) = Len(s) + 1 /\ p[Len(p)] = Nil
      <3>1. Len(p) \in 1..Len(p) /\ Len(p) - 1 = k
        BY <1>1, <2>2
      <3>2. Kept(TRUE, p)[Len(p)] = CleanPart(TRUE, Kept(TRUE, p)[Len(p) - 1], p[Len(p)])
        BY <3>1, KeptEquation
      <3>3. Kept(TRUE, p)[Len(p)] = CleanPart(TRUE, s, Nil)
        BY <1>4, <1>5, <2>2, <3>1, <3>2, Zenon
      <3>4. CleanPart(TRUE, s, Nil) = s
        BY CleanPartFacts
      <3> QED
        BY <3>3, <3>4, Zenon
    <2> QED
      BY <2>1, <2>2
  <1> QED
    BY <1>6, Zenon DEF Clean

\* The canonical paths are the ones that Clean leaves alone.
LEMMA CanonicalIsClean ==
    ASSUME NEW X, Nil \in X, NEW p \in Seq(X)
    PROVE  /\ Canonical(p) <=> Clean(p) = p
           /\ Clean(Clean(p)) = Clean(p)
  <1>1. \A q \in Seq(X) : Canonical(q) => Clean(q) = q
    <2> TAKE q \in Seq(X)
    <2>1. Plain(q) /\ q # <<>> => Clean(q) = q
      BY CleanOfPlain
    <2>2. Clean(Root) = Root
      <3>1. PICK e \in Seq(X), r \in Seq(X) : e = <<>> /\ r = Root
        <4>1. <<>> \in Seq(X) /\ Root \in Seq(X)
          BY RootFacts
        <4> QED
          BY <4>1, Zenon
      <3>2. Len(r) = Len(e) + 1 /\ r[Len(r)] = Nil /\ \A i \in 1..Len(e) : r[i] = e[i]
        BY <3>1, RootFacts
      <3>3. Plain(e)
        BY <3>1, PlainFacts
      <3> QED
        BY <3>1, <3>2, <3>3, CleanOfPlain
    <2> QED
      BY <2>1, <2>2, Zenon DEF Canonical
  <1> QED
    BY <1>1, CleanFacts, Zenon

\* What path.Clean keeps of a path without leading slash.
LEMMA KeptClimbs ==
    ASSUME NEW X, NEW p \in Seq(X)
    PROVE  \A n \in 0..Len(p) : Kept(FALSE, p)[n] \in Seq(X) /\ Climbs(Kept(FALSE, p)[n])
  <1> DEFINE Good(n) == Kept(FALSE, p)[n] \in Seq(X) /\ Climbs(Kept(FALSE, p)[n])
             S == {n \in Nat : n <= Len(p) => Good(n)}
  <1>1. Good(0)
    <2>1. Kept(FALSE, p)[0] = <<>>
      BY KeptEquation
    <2>2. <<>> \in Seq(X) /\ Climbs(<<>>)
      BY ClimbsFacts
    <2> QED
      BY <2>1, <2>2, Zenon
  <1>2. ASSUME NEW n \in Nat, n + 1 <= Len(p), Good(n) PROVE Good(n + 1)
    <2>1. n + 1 \in 1..Len(p) /\ (n + 1) - 1 = n /\ p[n + 1] \in X
      BY <1>2
    <2>2. PICK a \in Seq(X), x \in X : a = Kept(FALSE, p)[n] /\ x = p[n + 1] /\ Climbs(a)
      BY <1>2, <2>1, Zenon
    <2>3. Kept(FALSE, p)[n + 1] = CleanPart(FALSE, a, x)
      BY <2>1, <2>2, KeptEquation
    <2>4. CleanPart(FALSE, a, x) \in Seq(X) /\ Climbs(CleanPart(FALSE, a, x))
      BY <2>2, CleanPartFacts
    <2> QED
      BY <2>3, <2>4, Zenon
  <1> HIDE DEF Good
  <1>3. 0 \in S /\ \A n \in Nat : n \in S => n + 1 \in S
    BY <1>1, <1>2
  <1>4. Nat \subseteq S
    <2> HIDE DEF S
    <2> QED
      BY <1>3, SetInduction
  <1>5. \A n \in 0..Len(p) : Good(n)
    BY <1>4
  <1> QED
    BY <1>5 DEF Good

\* The part "." alone is what is left of a relative path without any other.
Here == "."

\* path.Clean of a path without leading slash is ".", or begins with "..", or
\* is canonical once it has a slash.
LEMMA CleanRelativeFacts ==
    ASSUME NEW X, Here \in X, NEW p \in Seq(X)
    PROVE  /\ CleanRelative(p) \in Seq(X) /\ CleanRelative(p) # <<>>
           /\ Head(CleanRelative(p)) \notin {Here, Up} => Canonical(CleanRelative(p))
  <1>1. Len(p) \in 0..Len(p)
    OBVIOUS
  <1>2. PICK a \in Seq(X) : a = Kept(FALSE, p)[Len(p)] /\ Climbs(a)
    BY <1>1, KeptClimbs
  <1>3. PICK x \in X : x = Here
    OBVIOUS
  <1>4. <<x>> \in Seq(X) /\ <<x>> # <<>> /\ Head(<<x>>) = x
    OBVIOUS
  <1>5. CleanRelative(p) = IF a = <<>> THEN <<x>> ELSE a
    BY <1>2, <1>3, Zenon DEF CleanRelative, Here
  <1>6. a # <<>> /\ Head(a) # Up => Plain(a)
    BY <1>2, ClimbsFacts
  <1> QED
    BY <1>2, <1>3, <1>4, <1>5, <1>6, Zenon DEF Canonical

-----------------------------------------------------------------------------
(* Lengths in bytes.                                                       *)

\* The definition of Bytes is what it says.
LEMMA BytesEquation ==
    ASSUME NEW p \in Seq(Part)
    PROVE  /\ Bytes(p)[0] = 0
           /\ \A i \in 1..Len(p) : Bytes(p)[i] = Bytes(p)[i - 1] + 1 + Len(p[i])
  <1> DEFINE D == [i \in 1..Len(p) |-> [v \in Nat |-> v + 1 + Len(p[i])]]
  <1>1. Len(p) \in Nat /\ \A i \in 1..Len(p) : p[i] \in Part
    OBVIOUS
  <1>2. \A i \in 1..Len(p) : \A v \in Nat : v + 1 + Len(p[i]) \in Nat
    <2> TAKE i \in 1..Len(p)
    <2>1. PICK m \in Nat : m = Len(p[i])
      BY <1>1, PartAssumption
    <2>2. \A v \in Nat : v + 1 + m \in Nat
      OBVIOUS
    <2> QED
      BY <2>1, <2>2, Zenon
  <1>3. D \in [1..Len(p) -> [Nat -> Nat]]
    BY <1>2, Zenon
  <1>4. PICK n, V, E, c : n = Len(p) /\ V = Nat /\ E = D /\ c = 0
    OBVIOUS
  <1>5. n \in Nat /\ E \in [1..n -> [V -> V]] /\ c \in V
    BY <1>1, <1>3, <1>4, Zenon
  <1>6. \E f \in [0..n -> V] : Unfolds(f, c, E, n)
    BY <1>5, Recursion
  <1>7. PICK f \in [0..Len(p) -> Nat] :
            f[0] = 0 /\ \A i \in 1..Len(p) : f[i] = D[i][f[i - 1]]
    BY <1>4, <1>6, Zenon DEF Unfolds
  <1>8. \A i \in 1..Len(p) : f[i] = f[i - 1] + 1 + Len(p[i])
    <2> TAKE i \in 1..Len(p)
    <2>1. i - 1 \in 0..Len(p)
      BY <1>1
    <2>2. f[i - 1] \in Nat
      BY <2>1, Zenon
    <2> QED
      BY <1>7, <2>2, Zenon
  <1>9. f = [n_1 \in 0..Len(p) |-> IF n_1 = 0 THEN 0 ELSE f[n_1 - 1] + 1 + Len(p[n_1])]
    <2>1. \A m \in 0..Len(p) : m = 0 \/ m \in 1..Len(p)
      BY <1>1
    <2>2. \A m \in 0..Len(p) : f[m] = IF m = 0 THEN 0 ELSE f[m - 1] + 1 + Len(p[m])
      BY <1>7, <1>8, <2>1, Zenon
    <2> QED
      BY <2>2, Zenon
  <1>10. Bytes(p) = [n_1 \in 0..Len(p) |->
                        IF n_1 = 0 THEN 0 ELSE Bytes(p)[n_1 - 1] + 1 + Len(p[n_1])]
    BY <1>9, Zenon DEF Bytes
  <1>11. 0 \in 0..Len(p) /\ \A i \in 1..Len(p) : i \in 0..Len(p) /\ i # 0
    BY <1>1
  <1> QED
    BY <1>10, <1>11, Zenon

\* The empty part has no byte, an ordinary one has some.
LEMMA PartFacts ==
    /\ Nil \in Part
    /\ Len(Nil) = 0
    /\ \A x \in Part : Len(x) \in Nat /\ (Ordinary(x) => Len(x) >= 1)
  <1>1. Nil \in Part
    BY PartAssumption DEF Nil
  <1>2. \A x \in Part : Len(x) \in Nat
    BY PartAssumption, Zenon
  <1>3. \A x \in Part : Len(x) = 0 <=> x = Nil
    BY PartAssumption, Zenon DEF Nil
  <1>4. \A x : Ordinary(x) => x # Nil
    BY Zenon DEF Ordinary, Nil
  <1> DEFINE L(x) == Len(x)
  <1>5. \A x \in Part : L(x) \in Nat /\ (L(x) = 0 <=> x = Nil)
    BY <1>2, <1>3, Zenon
  <1> HIDE DEF L
  <1>6. \A x \in Part : Ordinary(x) => L(x) >= 1
    BY <1>4, <1>5
  <1> USE DEF L
  <1> QED
    BY <1>1, <1>2, <1>3, <1>6, Zenon

\* "/" is one byte, and shorter than any other normalized prefix.
LEMMA ByteLenFacts ==
    ASSUME NEW p \in Seq(Part)
    PROVE  /\ ByteLen(p) \in Nat
           /\ p # <<>> /\ Plain(p) => ByteLen(p) >= 2
           /\ ByteLen(Root) = 1
  <1>1. \A q \in Seq(Part) : \A n \in 0..Len(q) : Bytes(q)[n] \in Nat
    <2> TAKE q \in Seq(Part)
    <2> DEFINE Good(n) == Bytes(q)[n] \in Nat
               S == {n \in Nat : n <= Len(q) => Good(n)}
    <2>1. Good(0)
      BY BytesEquation
    <2>2. ASSUME NEW n \in Nat, n + 1 <= Len(q), Good(n) PROVE Good(n + 1)
      <3>1. n + 1 \in 1..Len(q) /\ (n + 1) - 1 = n /\ q[n + 1] \in Part
        BY <2>2
      <3>2. PICK m \in Nat, b \in Nat : m = Len(q[n + 1]) /\ b = Bytes(q)[n]
        BY <2>2, <3>1, PartFacts, Zenon
      <3>3. Bytes(q)[n + 1] = Bytes(q)[(n + 1) - 1] + 1 + Len(q[n + 1])
        BY <3>1, BytesEquation
      <3>4. Bytes(q)[n + 1] = b + 1 + m
        BY <3>1, <3>2, <3>3, Zenon
      <3>5. b + 1 + m \in Nat
        OBVIOUS
      <3> QED
        BY <3>4, <3>5, Zenon
    <2> HIDE DEF Good
    <2>3. 0 \in S /\ \A n \in Nat : n \in S => n + 1 \in S
      BY <2>1, <2>2
    <2>4. Nat \subseteq S
      <3> HIDE DEF S
      <3> QED
        BY <2>3, SetInduction
    <2>5. \A n \in 0..Len(q) : Good(n)
      BY <2>4
    <2> QED
      BY <2>5 DEF Good
  <1>2. ByteLen(p) \in Nat
    <2>1. Len(p) \in 0..Len(p)
      OBVIOUS
    <2> QED
      BY <1>1, <2>1, Zenon DEF ByteLen
  <1>3. ASSUME p # <<>>, Plain(p) PROVE ByteLen(p) >= 2
    <2>1. Len(p) \in 1..Len(p) /\ Len(p) - 1 \in 0..Len(p)
      BY <1>3
    <2>2. p[Len(p)] \in Part /\ Ordinary(p[Len(p)])
      BY <1>3, <2>1 DEF Plain
    <2>3. PICK m, b : m = Len(p[Len(p)]) /\ b = Bytes(p)[Len(p) - 1]
      OBVIOUS
    <2>4. m \in Nat /\ m >= 1 /\ b \in Nat
      BY <1>1, <2>1, <2>2, <2>3, PartFacts, Zenon
    <2>5. Bytes(p)[Len(p)] = Bytes(p)[Len(p) - 1] + 1 + Len(p[Len(p)])
      BY <2>1, BytesEquation
    <2>6. ByteLen(p) = b + 1 + m
      BY <2>3, <2>5, Zenon DEF ByteLen
    <2>7. b + 1 + m >= 2
      BY <2>4
    <2> QED
      BY <2>6, <2>7, Zenon
  <1>4. ByteLen(Root) = 1
    <2>1. Root \in Seq(Part) /\ Len(Root) = 1 /\ Root[1] = Nil
      BY PartFacts, RootFacts
    <2>2. PICK r \in Seq(Part) : r = Root
      BY <2>1, Zenon
    <2>3. Len(r) = 1 /\ r[1] = Nil
      BY <2>1, <2>2, Zenon
    <2>4. 1 \in 1..Len(r) /\ 1 - 1 = 0
      BY <2>3
    <2>5. Bytes(r)[0] = 0 /\ Bytes(r)[1] = Bytes(r)[1 - 1] + 1 + Len(r[1])
      BY <2>4, BytesEquation
    <2>6. Bytes(r)[1] = 0 + 1 + 0
      BY <2>3, <2>4, <2>5, PartFacts, Zenon
    <2> QED
      BY <2>2, <2>3, <2>6 DEF ByteLen
  <1> QED
    BY <1>2, <1>3, <1>4

-----------------------------------------------------------------------------
(* The loaders.                                                            *)

\* What LoadServer makes of its file, and what NewServer makes of that.
LoadedServer ==
    [settings |-> ApplyServerDefaults(Decode(file.settings, Setting, Default)),
     clients  |-> Resolve(file.clients),
     control  |-> ValidateControlPath(file.rooted, file.control),
     padded   |-> file.padded]
StartedServer ==
    [LoadedServer EXCEPT !.control = ValidateControlPath(TRUE, @)]

\* What LoadClient makes of its file.
LoadedClient ==
    [i \in DOMAIN file.services |->
        IF file.multi THEN ServiceConfig(file.services[i])
        ELSE SingleConfig(file.services[i])]

\* Between the steps of a start: the configuration is the file's, and a server
\* that was not refused has a valid one, with a canonical control path once it
\* runs.
ConfigInv ==
    /\ file \in Files
    /\ stage \in {"file", "loaded", "serving", "refused"}
    /\ stage = "serving" => file.kind = "server" /\ Canonical(cfg.control)
    /\ (file.kind = "server" /\ stage # "file") => cfg \in {LoadedServer, StartedServer}
    /\ (file.kind = "server" /\ stage = "loaded") => cfg = LoadedServer
    /\ stage = "serving" => cfg = StartedServer
    /\ (file.kind = "server" /\ stage \in {"loaded", "serving"}) => ValidateServer(cfg)
    /\ (file.kind = "client" /\ stage = "loaded") => cfg = LoadedClient

\* What validateControlPath returns, and what it makes of its own result.
LEMMA ControlFacts ==
    ASSUME file \in Files, file.kind = "server"
    PROVE  LET p == ValidateControlPath(file.rooted, file.control)
               q == ValidateControlPath(TRUE, p)
           IN  /\ q \in Seq(STRING) /\ Canonical(q)
               /\ Head(p) \notin {Here, Up} => q = p
  <1>1. file.control \in Seq(STRING)
    BY FilesAssumption, Zenon
  <1>2. Nil \in STRING /\ Here \in STRING /\ "tunnel" \in STRING
    BY PartAssumption, Zenon DEF Nil, Here
  <1>3. PICK X, tunnel : X = STRING /\ tunnel = "tunnel"
    OBVIOUS
  <1>4. PICK g \in Seq(X) : g = file.control
    BY <1>1, <1>3, Zenon
  <1>5. Nil \in X /\ Here \in X /\ tunnel \in X
    BY <1>2, <1>3, Zenon
  <1>6. Ordinary(tunnel)
    BY <1>3 DEF Ordinary
  <1>7. <<tunnel>> \in Seq(X) /\ <<tunnel>> # <<>> /\ Canonical(<<tunnel>>)
    <2>1. PICK t : t = <<tunnel>>
      OBVIOUS
    <2>2. t \in Seq(X) /\ t # <<>> /\ Len(t) = 1 /\ t[1] = tunnel
      BY <1>5, <2>1
    <2>3. Plain(t)
      BY <1>6, <2>2 DEF Plain
    <2> QED
      BY <2>1, <2>2, <2>3, Zenon DEF Canonical
  <1>8. PICK p : p = ValidateControlPath(file.rooted, file.control)
    OBVIOUS
  <1>9. p \in Seq(X) /\ p # <<>> /\ (Head(p) \notin {Here, Up} => Canonical(p))
    <2>1. p = IF g = <<>> THEN <<tunnel>>
              ELSE IF file.rooted THEN Clean(g) ELSE CleanRelative(g)
      BY <1>3, <1>4, <1>8, Zenon DEF ValidateControlPath
    <2>2. Clean(g) \in Seq(X) /\ Canonical(Clean(g)) /\ Clean(g) # <<>>
      BY <1>5, CleanFacts
    <2>3. /\ CleanRelative(g) \in Seq(X) /\ CleanRelative(g) # <<>>
          /\ Head(CleanRelative(g)) \notin {Here, Up} => Canonical(CleanRelative(g))
      BY <1>5, CleanRelativeFacts
    <2> QED
      BY <1>7, <2>1, <2>2, <2>3, Zenon
  <1>10. ValidateControlPath(TRUE, p) = Clean(p)
    BY <1>9, Zenon DEF ValidateControlPath
  <1>11. Clean(p) \in Seq(X) /\ Canonical(Clean(p)) /\ (Canonical(p) => Clean(p) = p)
    BY <1>5, <1>9, CleanFacts, CanonicalIsClean
  <1> QED
    BY <1>3, <1>8, <1>9, <1>10, <1>11, Zenon

\* ValidateServer' is about the configuration of the next state.
LEMMA ValidatePrimed == ValidateServer(cfg)' <=> ValidateServer(cfg')
  BY DEF ValidateServer, ValidBindings, ControlPathOK, KeysOK, PathPrefixConflictsOK,
         LimitsOK, TokensOK

\* What the file says does not change.
LEMMA SameFile ==
    ASSUME file' = file
    PROVE  LoadedServer' = LoadedServer /\ StartedServer' = StartedServer
  BY DEF LoadedServer, StartedServer

\* LoadServer hands on a configuration that it has validated.
LEMMA LoadServerStep ==
    ASSUME ConfigInv, LoadServer PROVE ConfigInv'
  <1>1. /\ file.kind = "server" /\ file' = file
        /\ stage' = IF ValidateServer(LoadedServer) THEN "loaded" ELSE "refused"
        /\ cfg' = LoadedServer
    BY Zenon DEF LoadServer, LoadedServer
  <1>2. file \in Files
    BY DEF ConfigInv
  <1>3. LoadedServer' = LoadedServer /\ StartedServer' = StartedServer
    BY <1>1, SameFile
  <1>4. stage' = "loaded" => ValidateServer(LoadedServer)
    BY <1>1
  <1>5. stage' \in {"loaded", "refused"}
    BY <1>1
  <1> QED
    BY <1>1, <1>2, <1>3, <1>4, <1>5, ValidatePrimed DEF ConfigInv

\* NewServer, whether it accepts or refuses.  It accepts what LoadServer did,
\* unless the control path begins with "." or "..".
LEMMA NewServerStep ==
    ASSUME ConfigInv, NewServer
    PROVE  /\ ConfigInv' /\ file.kind = "server" /\ cfg'.clients = cfg.clients
           /\ Head(cfg.control) \notin {Here, Up} => stage' = "serving" /\ cfg' = cfg
  <1>1. /\ file.kind = "server" /\ stage = "loaded" /\ file' = file
        /\ cfg' = [cfg EXCEPT !.control = ValidateControlPath(TRUE, @)]
        /\ stage' = IF ValidateServer(cfg') THEN "serving" ELSE "refused"
    BY Zenon DEF NewServer
  <1>2. file \in Files /\ cfg = LoadedServer /\ ValidateServer(cfg)
    BY <1>1 DEF ConfigInv
  <1>3. cfg' = StartedServer
    BY <1>1, <1>2, Zenon DEF StartedServer
  <1>4. cfg.control = ValidateControlPath(file.rooted, file.control)
    BY <1>2 DEF LoadedServer
  <1>5. cfg'.control = ValidateControlPath(TRUE, cfg.control) /\ cfg'.clients = cfg.clients
    BY <1>1, <1>2 DEF LoadedServer
  <1>6. Canonical(cfg'.control)
    BY <1>1, <1>2, <1>4, <1>5, ControlFacts, Zenon
  <1>7. Canonical(cfg.control)' <=> Canonical(cfg'.control)
    BY DEF Canonical, Plain, Ordinary, Root
  <1>8. ASSUME Head(cfg.control) \notin {Here, Up} PROVE stage' = "serving" /\ cfg' = cfg
    <2>1. ValidateControlPath(TRUE, cfg.control) = cfg.control
      BY <1>1, <1>2, <1>4, <1>8, ControlFacts, Zenon
    <2>2. cfg' = cfg
      BY <1>1, <1>2, <2>1 DEF LoadedServer
    <2> QED
      BY <1>1, <1>2, <2>2, Zenon
  <1>9. LoadedServer' = LoadedServer /\ StartedServer' = StartedServer
    BY <1>1, SameFile
  <1>10. stage' \in {"serving", "refused"} /\ (stage' = "serving" => ValidateServer(cfg'))
    BY <1>1
  <1>11. ConfigInv'
    BY <1>1, <1>2, <1>3, <1>6, <1>7, <1>9, <1>10, ValidatePrimed DEF ConfigInv
  <1> QED
    BY <1>1, <1>5, <1>8, <1>11

\* LoadClient builds the services' configurations.
LEMMA LoadClientStep ==
    ASSUME ConfigInv, LoadClient PROVE ConfigInv'
  <1>1. /\ file.kind = "client" /\ file' = file
        /\ stage' \in {"loaded", "refused"}
        /\ stage' = "loaded" => cfg' = LoadedClient
    <2> DEFINE ok == /\ DistinctIDs(file.services)
                     /\ \A i \in DOMAIN LoadedClient : ValidateClient(LoadedClient[i])
    <2>1. /\ file.kind = "client" /\ file' = file
          /\ stage' = IF ok THEN "loaded" ELSE "refused"
          /\ cfg' = IF ok THEN LoadedClient ELSE <<>>
      BY Zenon DEF LoadClient, LoadedClient
    <2> HIDE DEF ok
    <2> QED
      BY <2>1
  <1>2. LoadedClient' = LoadedClient
    BY <1>1 DEF LoadedClient, ServiceConfig, SingleConfig
  <1>3. file \in Files
    BY DEF ConfigInv
  <1> QED
    BY <1>1, <1>2, <1>3 DEF ConfigInv

\* ConfigInv depends on the configuration only.
LEMMA ConfigStutter ==
    ASSUME ConfigInv, UNCHANGED configVars PROVE ConfigInv'
  <1>1. file' = file /\ stage' = stage /\ cfg' = cfg
    BY DEF configVars
  <1>2. LoadedServer' = LoadedServer /\ StartedServer' = StartedServer
    BY <1>1, SameFile
  <1>3. LoadedClient' = LoadedClient
    BY <1>1 DEF LoadedClient, ServiceConfig, SingleConfig
  <1>4. Canonical(cfg.control)' <=> Canonical(cfg'.control)
    BY DEF Canonical, Plain, Ordinary, Root
  <1>5. Canonical(cfg'.control) <=> Canonical(cfg.control)
    BY <1>1, Zenon
  <1> QED
    BY <1>1, <1>2, <1>3, <1>4, <1>5, ValidatePrimed DEF ConfigInv

\* The visits leave the configuration alone.
LEMMA VisitsKeepConfig ==
    ASSUME Next
    PROVE  \/ LoadServer /\ UNCHANGED <<order, visitVars>>
           \/ LoadClient /\ UNCHANGED <<order, visitVars>>
           \/ StartServer
           \/ UNCHANGED <<configVars, order>>
  BY DEF Next, Request, Answer, Follow, Forward

\* Every step keeps the configuration in order.
LEMMA ConfigStep ==
    ASSUME ConfigInv, [Next]_vars PROVE ConfigInv'
  <1>1. CASE LoadServer
    BY <1>1, LoadServerStep
  <1>2. CASE LoadClient
    BY <1>2, LoadClientStep
  <1>3. CASE StartServer
    BY <1>3, NewServerStep DEF StartServer
  <1>4. CASE UNCHANGED configVars
    BY <1>4, ConfigStutter
  <1> QED
    BY <1>1, <1>2, <1>3, <1>4, VisitsKeepConfig DEF vars

\* The configuration of a process is its file's at any time, a server that runs
\* has a valid one, and its control path is canonical.
THEOREM ConfigCorrect == Spec => []ConfigInv
  <1>1. Init => ConfigInv
    BY DEF Init, ConfigInit, ConfigInv
  <1> QED
    BY <1>1, ConfigStep, PTL DEF Spec

\* Revalidation in NewServer neither refuses a configuration that LoadServer
\* accepted nor changes its control path, unless that path was given without
\* leading slash and is "." or begins with ".."; and it leaves a canonical one.
THEOREM Revalidation == Spec => RevalidationAgrees
  <1> DEFINE Agrees ==
        (file.kind = "server" /\ stage = "loaded") =>
          /\ Head(cfg.control) \notin {".", ".."} => stage' = "serving" /\ cfg' = cfg
          /\ stage' = "serving" => cfg'.control = Clean(cfg'.control)
  <1>1. ASSUME ConfigInv, [Next]_vars PROVE [Agrees]_configVars
    <2> SUFFICES ASSUME stage = "loaded", ~UNCHANGED configVars PROVE Agrees
      OBVIOUS
    <2>1. ~LoadServer /\ ~LoadClient
      BY DEF LoadServer, LoadClient
    <2>2. StartServer
      BY <1>1, <2>1, VisitsKeepConfig DEF vars
    <2>3. NewServer
      BY <2>2 DEF StartServer
    <2>4. Head(cfg.control) \notin {".", ".."} => stage' = "serving" /\ cfg' = cfg
      BY <1>1, <2>3, NewServerStep, Zenon DEF Here, Up
    <2>5. ASSUME file.kind = "server" PROVE cfg'.control = Clean(cfg'.control)
      <3>1. /\ file \in Files /\ cfg = LoadedServer
            /\ cfg' = [cfg EXCEPT !.control = ValidateControlPath(TRUE, @)]
        BY <1>1, <2>3, <2>5, Zenon DEF ConfigInv, NewServer
      <3>2. cfg'.control
                = ValidateControlPath(TRUE, ValidateControlPath(file.rooted, file.control))
        BY <3>1 DEF LoadedServer
      <3>3. cfg'.control \in Seq(STRING) /\ Canonical(cfg'.control)
        BY <2>5, <3>1, <3>2, ControlFacts, Zenon
      <3>4. Nil \in STRING
        BY PartAssumption, Zenon DEF Nil
      <3>5. PICK X : X = STRING
        OBVIOUS
      <3>6. PICK q \in Seq(X) : q = cfg'.control /\ Canonical(q) /\ Nil \in X
        BY <3>3, <3>4, <3>5, Zenon
      <3>7. Clean(q) = q
        BY <3>6, CanonicalIsClean
      <3> QED
        BY <3>6, <3>7, Zenon
    <2> QED
      BY <2>4, <2>5
  <1> QED
    BY <1>1, ConfigCorrect, PTL DEF Spec, RevalidationAgrees

\* Explicit zeros of the resumable-session options survive LoadServer.
THEOREM ZeroesKept == Spec => []ExplicitZeroKept
  <1>1. ConfigInv => ExplicitZeroKept
    <2> SUFFICES ASSUME ConfigInv, file.kind = "server", stage # "file",
                        NEW k \in {"enable_resume", "max_detached_resumable"}
                 PROVE  cfg.settings[k] = IF k \in DOMAIN file.settings
                                          THEN file.settings[k] ELSE Default[k]
      BY DEF ExplicitZeroKept
    <2>1. k \in Setting /\ k \notin ZeroMeansDefault
      BY Zenon DEF Setting, ZeroKept, ZeroMeansDefault
    <2>2. cfg.settings = ApplyServerDefaults(Decode(file.settings, Setting, Default))
      <3>1. cfg = LoadedServer \/ cfg = StartedServer
        BY Zenon DEF ConfigInv
      <3>2. /\ LoadedServer.settings
                   = ApplyServerDefaults(Decode(file.settings, Setting, Default))
            /\ StartedServer.settings = LoadedServer.settings
        BY DEF LoadedServer, StartedServer
      <3> QED
        BY <3>1, <3>2, Zenon
    <2>3. cfg.settings[k] = Decode(file.settings, Setting, Default)[k]
      BY <2>1, <2>2, Zenon DEF ApplyServerDefaults
    <2> QED
      BY <2>1, <2>3, Zenon DEF Decode
  <1> QED
    BY <1>1, ConfigCorrect, PTL

\* A token admits one client_id in a server that runs.
THEOREM OneClientPerToken == Spec => []TokenAdmitsOneClient
  <1>1. ConfigInv => TokenAdmitsOneClient
    <2> SUFFICES ASSUME ConfigInv, stage = "serving", NEW f \in TokenFile,
                        NEW i \in DOMAIN cfg.clients, NEW j \in DOMAIN cfg.clients,
                        Admits(TokenOf[f], cfg.clients[i].client),
                        Admits(TokenOf[f], cfg.clients[j].client)
                 PROVE  i = j
      BY DEF TokenAdmitsOneClient
    <2>1. KeysOK(cfg.clients) /\ TokensOK(cfg.clients)
      BY DEF ConfigInv, ValidateServer, ValidBindings
    <2>2. PICK m \in DOMAIN cfg.clients :
              cfg.clients[m].client = cfg.clients[i].client /\ cfg.clients[m].token = TokenOf[f]
      BY DEF Admits
    <2>3. PICK n \in DOMAIN cfg.clients :
              cfg.clients[n].client = cfg.clients[j].client /\ cfg.clients[n].token = TokenOf[f]
      BY DEF Admits
    <2>4. m = n
      BY <2>1, <2>2, <2>3, Zenon DEF TokensOK
    <2>5. m = i /\ n = j
      BY <2>1, <2>2, <2>3, Zenon DEF KeysOK
    <2> QED
      BY <2>4, <2>5
  <1> QED
    BY <1>1, ConfigCorrect, PTL

\* applyClientDefaults, section by section.
FilledHealth(h) == [k \in HealthKey |-> IF k \in HealthDetail /\ h[k] = 0
                                        THEN DefaultHealth[k] ELSE h[k]]
FilledTransport(t) == [k \in TransportKey |-> IF k \in TransportZero /\ t[k] = 0
                                              THEN DefaultTransport[k] ELSE t[k]]

\* applyClientDefaults fills in those two sections and leaves the others alone.
LEMMA FilledConfig ==
    ASSUME NEW a, NEW b, NEW s, NEW h, NEW t
    PROVE  ApplyClientDefaults([client |-> a, token |-> b, server |-> s,
                                health |-> h, transport |-> t])
               = [client |-> a, token |-> b, server |-> s,
                  health |-> FilledHealth(h), transport |-> FilledTransport(t)]
  <1> DEFINE c == [client |-> a, token |-> b, server |-> s, health |-> h, transport |-> t]
  <1>1. ApplyClientDefaults(c)
            = [c EXCEPT !.health = FilledHealth(@), !.transport = FilledTransport(@)]
    BY Zenon DEF ApplyClientDefaults, FilledHealth, FilledTransport
  <1> QED
    BY <1>1

\* The two client formats fill in the same defaults.
THEOREM ClientFormatsAgree == Spec => []FormatsAgree
  <1>1. ConfigInv => FormatsAgree
    <2> SUFFICES ASSUME ConfigInv, file.kind = "client", stage = "loaded",
                        NEW i \in DOMAIN cfg,
                        file.services[i].health = NoSection,
                        file.services[i].server = NoSection,
                        "enabled" \in DOMAIN file.health
                 PROVE  cfg[i] = SingleConfig(file.services[i])
      BY DEF FormatsAgree
    <2>1. cfg = LoadedClient
      BY DEF ConfigInv
    <2>2. i \in DOMAIN file.services
      BY <2>1 DEF LoadedClient
    <2>3. cfg[i] = IF file.multi THEN ServiceConfig(file.services[i])
                   ELSE SingleConfig(file.services[i])
      BY <2>1, <2>2 DEF LoadedClient
    <2> DEFINE svc == file.services[i]
               server == Decode(file.server, ServerKey, Zero(ServerKey))
               shared == Decode(file.health, HealthKey, Zero(HealthKey))
               health == Decode(file.health, HealthKey, DefaultHealth)
               viper == Decode(file.transport, TransportKey, ViperDefaults)
               transport == Decode(file.transport, TransportKey, DefaultTransport)
    <2>4. MergeServer(server, svc.server) = server
      BY Zenon DEF MergeServer
    <2>5. MergeHealth(shared, svc.health) = shared
      BY Zenon DEF MergeHealth
    <2>6. FilledHealth(shared) = FilledHealth(health)
      <3> SUFFICES ASSUME NEW k \in HealthKey
                   PROVE  (IF k \in HealthDetail /\ shared[k] = 0
                           THEN DefaultHealth[k] ELSE shared[k])
                            = (IF k \in HealthDetail /\ health[k] = 0
                               THEN DefaultHealth[k] ELSE health[k])
        BY Zenon DEF FilledHealth
      <3>1. CASE k \in DOMAIN file.health
        <4>1. shared[k] = health[k]
          BY <3>1, Zenon DEF Decode
        <4> QED
          BY <4>1, Zenon
      <3>2. CASE k \notin DOMAIN file.health
        <4>1. shared[k] = 0 /\ health[k] = DefaultHealth[k]
          BY <3>2, Zenon DEF Decode, Zero
        <4>2. k \in HealthDetail
          BY <3>2, Zenon DEF HealthKey
        <4> QED
          BY <4>1, <4>2, Zenon
      <3> QED
        BY <3>1, <3>2
    <2>7. FilledTransport(viper) = FilledTransport(transport)
      <3> SUFFICES ASSUME NEW k \in TransportKey
                   PROVE  (IF k \in TransportZero /\ viper[k] = 0
                           THEN DefaultTransport[k] ELSE viper[k])
                            = (IF k \in TransportZero /\ transport[k] = 0
                               THEN DefaultTransport[k] ELSE transport[k])
        BY Zenon DEF FilledTransport
      <3>1. CASE k \in DOMAIN file.transport
        <4>1. viper[k] = transport[k]
          BY <3>1, Zenon DEF Decode
        <4> QED
          BY <4>1, Zenon
      <3>2. CASE k \notin DOMAIN file.transport
        <4>1. viper[k] = ViperDefaults[k] /\ transport[k] = DefaultTransport[k]
          BY <3>2, Zenon DEF Decode
        <4>2. CASE k \in {"prefer_resume", "max_replay_bytes"}
          <5>1. ViperDefaults[k] = DefaultTransport[k]
            BY <4>2, Zenon DEF ViperDefaults
          <5> QED
            BY <4>1, <5>1, Zenon
        <4>3. CASE k \notin {"prefer_resume", "max_replay_bytes"}
          <5>1. ViperDefaults[k] = 0
            BY <4>3, Zenon DEF ViperDefaults
          <5>2. k \notin TransportZero => DefaultTransport[k] = 0
            BY <4>3, TransportAssumption, Zenon
          <5> QED
            BY <4>1, <5>1, <5>2, Zenon
        <4> QED
          BY <4>2, <4>3
      <3> QED
        BY <3>1, <3>2
    <2>8. ServiceConfig(svc) = ApplyClientDefaults(
                [client |-> svc.client, token |-> ServiceToken(svc), server |-> server,
                 health |-> shared, transport |-> viper])
      BY <2>4, <2>5, Zenon DEF ServiceConfig
    <2>9. SingleConfig(svc) = ApplyClientDefaults(
                [client |-> svc.client, token |-> ServiceToken(svc), server |-> server,
                 health |-> health, transport |-> transport])
      BY Zenon DEF SingleConfig
    <2> HIDE DEF svc, server, shared, health, viper, transport
    <2>10. PICK a, b : a = svc.client /\ b = ServiceToken(svc)
      OBVIOUS
    <2>11. ServiceConfig(svc)
               = [client |-> a, token |-> b, server |-> server,
                  health |-> FilledHealth(shared), transport |-> FilledTransport(viper)]
      BY <2>8, <2>10, FilledConfig
    <2>12. SingleConfig(svc)
               = [client |-> a, token |-> b, server |-> server,
                  health |-> FilledHealth(health), transport |-> FilledTransport(transport)]
      BY <2>9, <2>10, FilledConfig
    <2>13. ServiceConfig(svc) = SingleConfig(svc)
      BY <2>6, <2>7, <2>11, <2>12, Zenon
    <2> QED
      BY <2>3, <2>13 DEF svc
  <1> QED
    BY <1>1, ConfigCorrect, PTL

-----------------------------------------------------------------------------
(* The route table and the match.                                          *)

\* Bindings as resolveClientBindingTokens and NormalizePathPrefix leave them.
Normalized(bs) ==
    /\ \E n \in Nat : DOMAIN bs = 1..n
    /\ \A i \in DOMAIN bs :
           /\ bs[i].prefix \in Seq(Part)
           /\ bs[i].prefix = <<>> \/ Canonical(bs[i].prefix)
           /\ bs[i].host \in Seq(Label) \ {<<>>}

\* Resolve normalizes the prefixes.
LEMMA ResolveFacts ==
    ASSUME NEW bs \in Seq(Binding)
    PROVE  Normalized(Resolve(bs))
  <1>1. DOMAIN Resolve(bs) = DOMAIN bs
    BY Zenon DEF Resolve
  <1>2. \E n \in Nat : DOMAIN bs = 1..n
    <2>1. DOMAIN bs = 1..Len(bs) /\ Len(bs) \in Nat
      OBVIOUS
    <2> QED
      BY <2>1, Zenon
  <1>3. ASSUME NEW i \in DOMAIN bs
        PROVE  /\ Resolve(bs)[i].prefix \in Seq(Part)
               /\ Resolve(bs)[i].prefix = <<>> \/ Canonical(Resolve(bs)[i].prefix)
               /\ Resolve(bs)[i].host \in Seq(Label) \ {<<>>}
    <2>1. Resolve(bs)[i].prefix = NormalizePathPrefix(bs[i].prefix)
      BY DEF Resolve
    <2>2. bs[i] \in Binding
      OBVIOUS
    <2>3. PICK q \in Seq(Part) : q = bs[i].prefix
      BY <2>2 DEF Binding
    <2>4. Clean(q) \in Seq(Part) /\ Canonical(Clean(q))
      BY PartFacts, CleanFacts
    <2>5. Resolve(bs)[i].host \in Seq(Label) \ {<<>>}
      BY <2>2, Zenon DEF Resolve, Binding
    <2> QED
      BY <2>1, <2>3, <2>4, <2>5, Zenon DEF NormalizePathPrefix
  <1> QED
    BY <1>1, <1>2, <1>3, Zenon DEF Normalized

\* The m entries of o are the routes of host h among n bindings, longest prefix
\* first.
Lists(o, m, bs, n, h) ==
    /\ DOMAIN o = 1..m
    /\ \A i \in 1..m : o[i] \in 1..n /\ bs[o[i]].host = h
    /\ \A r \in 1..n : bs[r].host = h => \E i \in 1..m : o[i] = r
    /\ \A i, j \in 1..m : i < j =>
           ByteLen(bs[o[i]].prefix) >= ByteLen(bs[o[j]].prefix)

\* NewRouteTable lists every route of its host, longest prefix first.
LEMMA TableFacts ==
    ASSUME NEW bs, NEW n \in Nat, DOMAIN bs = 1..n, NEW h, NEW o \in NewRouteTable(bs, h)
    PROVE  \E m \in Nat : Lists(o, m, bs, n, h)
  <1> DEFINE S == {i \in 1..n : bs[i].host = h}
             m == Cardinality(S)
  <1>1. /\ o \in [1..m -> S]
        /\ \A i, j \in 1..m : i # j => o[i] # o[j]
        /\ \A i, j \in DOMAIN o : i < j =>
               ByteLen(bs[o[i]].prefix) >= ByteLen(bs[o[j]].prefix)
    BY Zenon DEF NewRouteTable, SetToSeqs
  <1>2. IsFiniteSet(S)
    <2>1. IsFiniteSet(1..n)
      BY FS_Interval
    <2>2. S \in SUBSET (1..n)
      OBVIOUS
    <2> HIDE DEF S
    <2> QED
      BY <2>1, <2>2, FS_Subset
  <1>3. m \in Nat /\ IsFiniteSet(1..m) /\ Cardinality(1..m) = m
    <2> HIDE DEF S
    <2>1. m \in Nat
      BY <1>2, FS_CardinalityType
    <2> HIDE DEF m
    <2> QED
      BY <2>1, FS_Interval
  <1>4. o \in Injection(1..m, S)
    BY <1>1, Zenon DEF Injection, IsInjective
  <1>5. o \in Surjection(1..m, S)
    <2>1. PICK T, D : T = S /\ D = 1..m
      OBVIOUS
    <2>2. o \in Injection(D, T) /\ IsFiniteSet(T) /\ Cardinality(D) = Cardinality(T)
      BY <1>2, <1>3, <1>4, <2>1, Zenon
    <2>3. o \in Surjection(D, T)
      BY <2>2, FS_Injection
    <2> QED
      BY <2>1, <2>3, Zenon
  <1>6. \A r \in S : \E i \in 1..m : o[i] = r
    BY <1>5, Zenon DEF Surjection
  <1>7. DOMAIN o = 1..m
    BY <1>1, Zenon
  <1>8. \A i \in 1..m : o[i] \in S
    BY <1>1, Zenon
  <1> HIDE DEF m
  <1> QED
    BY <1>1, <1>3, <1>6, <1>7, <1>8, Zenon DEF Lists

\* A route with prefix q covers the cleaned path c.
Covers(q, c) == q \in {<<>>, Root} \/ IsPrefix(q, c)

\* Prefixes are paths.
LEMMA PathFacts ==
    /\ Nil \in STRING
    /\ \A q \in Seq(Part) : q \in Seq(STRING)
  <1>1. Nil \in STRING
    BY PartFacts, PartAssumption, Zenon
  <1>2. Part \subseteq STRING
    BY PartAssumption, Zenon
  <1>3. ASSUME NEW X, Part \subseteq X, NEW q \in Seq(Part) PROVE q \in Seq(X)
    BY <1>3
  <1> QED
    BY <1>1, <1>2, <1>3, Zenon

\* "/" covers every path, and in Match a prefix other than "" takes the paths
\* that it covers.
LEMMA HitIsCovering ==
    ASSUME NEW q \in Seq(Part), NEW c \in Seq(STRING), q # <<>>
    PROVE  (q = Root \/ c = q \/ Under(c, q)) <=> Covers(q, c)
  <1>1. PICK X : X = STRING
    OBVIOUS
  <1>2. q \in Seq(X) /\ c \in Seq(X)
    BY <1>1, PathFacts, Zenon
  <1>3. IsPrefix(q, c) <=> q = c \/ Under(c, q)
    BY <1>2, PrefixOrder
  <1> QED
    BY <1>3, Zenon DEF Covers

\* How specific prefixes are.
LEMMA DepthFacts ==
    ASSUME NEW q \in Seq(Part)
    PROVE  /\ Depth(q) \in Nat
           /\ q = <<>> => Depth(q) = 0
           /\ q = Root => Depth(q) = 1
           /\ q # <<>> => Depth(q) >= 1
  <1>1. Len(q) \in Nat /\ (q # <<>> => Len(q) >= 1)
    OBVIOUS
  <1>2. Root # <<>>
    BY PartFacts, RootFacts
  <1>3. q = <<>> => Depth(q) = 0
    BY <1>2, Zenon DEF Depth
  <1>4. q = Root => Depth(q) = 1
    BY <1>2, Zenon DEF Depth
  <1>5. q # <<>> /\ q # Root => Depth(q) = Len(q) + 1
    BY Zenon DEF Depth
  <1>6. PICK d, l : d = Depth(q) /\ l = Len(q)
    OBVIOUS
  <1>7. CASE q = <<>>
    BY <1>2, <1>3, <1>7
  <1>8. CASE q = Root
    BY <1>2, <1>4, <1>8
  <1>9. CASE q # <<>> /\ q # Root
    <2>1. d = l + 1 /\ l \in Nat
      BY <1>1, <1>5, <1>6, <1>9, Zenon
    <2>2. d \in Nat /\ d >= 1
      BY <2>1
    <2> QED
      BY <1>6, <1>9, <2>2, Zenon
  <1> QED
    BY <1>7, <1>8, <1>9

\* At most one prefix other than "" and "/" of a host covers a path.
LEMMA OneSpecificRoute ==
    ASSUME NEW bs, Normalized(bs), KeysOK(bs), PathPrefixConflictsOK(bs),
           NEW c \in Seq(STRING),
           NEW i \in DOMAIN bs, NEW j \in DOMAIN bs, bs[i].host = bs[j].host,
           bs[i].prefix \notin {<<>>, Root}, bs[j].prefix \notin {<<>>, Root},
           Covers(bs[i].prefix, c), Covers(bs[j].prefix, c)
    PROVE  i = j
  <1>1. PICK X : X = STRING
    OBVIOUS
  <1>2. PICK s \in Seq(X), t \in Seq(X) : s = bs[i].prefix /\ t = bs[j].prefix
    BY <1>1, PathFacts, Zenon DEF Normalized
  <1>3. c \in Seq(X) /\ IsPrefix(s, c) /\ IsPrefix(t, c)
    BY <1>1, <1>2, Zenon DEF Covers
  <1>4. Nested(s, t)
    BY <1>3, PrefixesNested
  <1>5. i # j => bs[i].client # bs[j].client
    BY Zenon DEF KeysOK
  <1>6. i # j => ~Nested(s, t)
    BY <1>2, <1>5, Zenon DEF PathPrefixConflictsOK
  <1> QED
    BY <1>4, <1>6

\* Match finds the most specific covering route, or there is none.
LEMMA MatchFacts ==
    ASSUME NEW bs, Normalized(bs), KeysOK(bs), PathPrefixConflictsOK(bs),
           NEW h, NEW o \in NewRouteTable(bs, h),
           NEW p, Clean(p) \in Seq(STRING),
           NEW t, t = Match(bs, o, p)
    PROVE  \/ /\ t \in DOMAIN bs /\ bs[t].host = h /\ Covers(bs[t].prefix, Clean(p))
              /\ \A r \in DOMAIN bs :
                     bs[r].host = h /\ Covers(bs[r].prefix, Clean(p))
                         => Depth(bs[r].prefix) <= Depth(bs[t].prefix)
           \/ /\ t = NoRoute
              /\ \A r \in DOMAIN bs : bs[r].host = h => ~Covers(bs[r].prefix, Clean(p))
  <1>1. PICK n \in Nat : DOMAIN bs = 1..n
    BY Zenon DEF Normalized
  <1>2. PICK m \in Nat :
            /\ DOMAIN o = 1..m
            /\ \A i \in 1..m : o[i] \in 1..n /\ bs[o[i]].host = h
            /\ \A r \in 1..n : bs[r].host = h => \E i \in 1..m : o[i] = r
            /\ \A i, j \in 1..m : i < j =>
                   ByteLen(bs[o[i]].prefix) >= ByteLen(bs[o[j]].prefix)
    <2>1. \E m \in Nat : Lists(o, m, bs, n, h)
      BY <1>1, TableFacts
    <2> QED
      BY <2>1, Zenon DEF Lists
  <1>3. PICK c \in Seq(STRING) : c = Clean(p)
    OBVIOUS
  <1>4. \A r \in 1..n : /\ bs[r].prefix \in Seq(Part)
                        /\ bs[r].prefix = <<>> \/ Canonical(bs[r].prefix)
    BY <1>1, Zenon DEF Normalized
  <1> DEFINE Hits == {i \in 1..m : bs[o[i]].prefix # <<>> /\ Covers(bs[o[i]].prefix, c)}
             Fallback == {i \in 1..m : bs[o[i]].prefix = <<>>}
  <1>5. t = CASE Hits # {}                  -> o[Min(Hits)]
              [] Hits = {} /\ Fallback # {} -> o[Max(Fallback)]
              [] OTHER                      -> NoRoute
    <2>1. Hits = {i \in DOMAIN o :
                     LET q == bs[o[i]].prefix
                     IN  /\ q # <<>>
                         /\ q = Root \/ Clean(p) = q \/ Under(Clean(p), q)}
      <3>1. \A i \in 1..m : bs[o[i]].prefix \in Seq(Part)
        BY <1>2, <1>4, Zenon
      <3> QED
        BY <1>2, <1>3, <3>1, HitIsCovering, Zenon
    <2>2. Fallback = {i \in DOMAIN o : bs[o[i]].prefix = <<>>}
      BY <1>2, Zenon
    <2> HIDE DEF Hits, Fallback
    <2> QED
      BY <2>1, <2>2, Zenon DEF Match
  <1>6. CASE Hits # {}
    <2>1. PICK k \in Hits : t = o[k] /\ \A y \in Hits : k <= y
      <3>1. Hits \subseteq Nat
        OBVIOUS
      <3> HIDE DEF Hits
      <3>2. Min(Hits) \in Hits /\ \A y \in Hits : Min(Hits) <= y
        BY <1>6, <3>1, MinFacts
      <3>3. t = o[Min(Hits)]
        BY <1>5, <1>6, Zenon
      <3> QED
        BY <3>2, <3>3, Zenon
    <2>2. k \in 1..m /\ t \in 1..n /\ bs[t].host = h /\ bs[t].prefix # <<>> /\ Covers(bs[t].prefix, c)
      BY <1>2, <2>1, Zenon
    <2>3. ASSUME NEW r \in 1..n, bs[r].host = h, Covers(bs[r].prefix, c)
          PROVE  Depth(bs[r].prefix) <= Depth(bs[t].prefix)
      <3>1. PICK u \in Seq(Part), v \in Seq(Part) : u = bs[r].prefix /\ v = bs[t].prefix
        BY <1>4, <2>2, Zenon
      <3>2. v # <<>> /\ Covers(u, c) /\ Covers(v, c)
        BY <2>2, <2>3, <3>1, Zenon
      <3>3. Depth(u) \in Nat /\ Depth(v) \in Nat /\ Depth(v) >= 1
        BY <3>2, DepthFacts
      <3>4. CASE u \in {<<>>, Root}
        <4>1. Depth(u) = 0 \/ Depth(u) = 1
          BY <3>4, DepthFacts
        <4>2. Depth(u) <= Depth(v)
          BY <3>3, <4>1
        <4> QED
          BY <3>1, <4>2, Zenon
      <3>5. CASE u \notin {<<>>, Root}
        <4>1. PICK j \in 1..m : o[j] = r
          BY <1>2, <2>3, Zenon
        <4>2. j \in Hits
          BY <2>3, <3>1, <3>5, <4>1, Zenon
        <4>3. k = j \/ k < j
          BY <2>1, <2>2, <4>1, <4>2
        <4>4. CASE k = j
          <5>1. u = v
            BY <2>1, <3>1, <4>1, <4>4, Zenon
          <5>2. Depth(u) <= Depth(v)
            BY <3>3, <5>1
          <5> QED
            BY <3>1, <5>2, Zenon
        <4>5. CASE k < j
          <5>1. ByteLen(v) >= ByteLen(u)
            BY <1>2, <2>1, <2>2, <3>1, <4>1, <4>5, Zenon
          <5>2. Plain(u) /\ u # <<>>
            BY <1>4, <3>1, <3>5, Zenon DEF Canonical
          <5>3. ByteLen(u) \in Nat /\ ByteLen(v) \in Nat /\ ByteLen(u) >= 2 /\ ByteLen(Root) = 1
            BY <5>2, ByteLenFacts
          <5>4. v # Root
            BY <5>1, <5>3
          <5>5. r \in DOMAIN bs /\ t \in DOMAIN bs /\ bs[r].host = bs[t].host
            BY <1>1, <2>2, <2>3, Zenon
          <5>6. bs[r].prefix \notin {<<>>, Root} /\ bs[t].prefix \notin {<<>>, Root}
            BY <3>1, <3>2, <3>5, <5>4, Zenon
          <5>7. r = t
            BY <2>2, <2>3, <5>5, <5>6, OneSpecificRoute
          <5>8. Depth(u) <= Depth(v)
            BY <3>1, <3>3, <5>7
          <5> QED
            BY <3>1, <5>8, Zenon
        <4> QED
          BY <4>3, <4>4, <4>5
      <3> QED
        BY <3>4, <3>5
    <2> QED
      BY <1>1, <1>3, <2>2, <2>3, Zenon
  <1>7. CASE Hits = {}
    <2>1. \A r \in 1..n : bs[r].host = h /\ Covers(bs[r].prefix, c)
              => bs[r].prefix = <<>> /\ Fallback # {}
      <3> SUFFICES ASSUME NEW r \in 1..n, bs[r].host = h, Covers(bs[r].prefix, c)
                   PROVE  bs[r].prefix = <<>> /\ Fallback # {}
        BY Zenon
      <3>1. PICK j \in 1..m : o[j] = r
        BY <1>2, Zenon
      <3>2. bs[r].prefix = <<>>
        BY <1>7, <3>1, Zenon
      <3>3. j \in Fallback
        BY <3>1, <3>2, Zenon
      <3> QED
        BY <3>2, <3>3, Zenon
    <2>2. CASE Fallback # {}
      <3>1. Fallback \subseteq 0..m
        OBVIOUS
      <3>2. Max(Fallback) \in Fallback
        <4> HIDE DEF Fallback
        <4> QED
          BY <2>2, <3>1, MaxFacts
      <3>3. t = o[Max(Fallback)]
        <4> HIDE DEF Fallback, Hits
        <4> QED
          BY <1>5, <1>7, <2>2, Zenon
      <3>4. t \in 1..n /\ bs[t].host = h /\ bs[t].prefix = <<>>
        <4>1. PICK k \in 1..m : t = o[k] /\ bs[o[k]].prefix = <<>>
          BY <3>2, <3>3, Zenon
        <4> QED
          BY <1>2, <4>1, Zenon
      <3>5. Covers(bs[t].prefix, c)
        BY <3>4, Zenon DEF Covers
      <3>6. \A r \in 1..n : bs[r].host = h /\ Covers(bs[r].prefix, c)
                => Depth(bs[r].prefix) <= Depth(bs[t].prefix)
        <4>1. 0 <= 0
          OBVIOUS
        <4>2. \A q \in Seq(Part) : q = <<>> => Depth(q) = 0
          BY DepthFacts
        <4>3. \A r \in 1..n : bs[r].prefix = <<>> => Depth(bs[r].prefix) = 0
          BY <1>4, <4>2, Zenon
        <4> QED
          BY <2>1, <3>4, <4>1, <4>3, Zenon
      <3> QED
        BY <1>1, <1>3, <3>4, <3>5, <3>6, Zenon
    <2>3. CASE Fallback = {}
      <3>1. t = NoRoute
        <4> HIDE DEF Fallback, Hits
        <4> QED
          BY <1>5, <1>7, <2>3, Zenon
      <3>2. \A r \in 1..n : bs[r].host = h => ~Covers(bs[r].prefix, c)
        BY <2>1, <2>3, Zenon
      <3> QED
        BY <1>1, <1>3, <3>1, <3>2, Zenon
    <2> QED
      BY <2>2, <2>3
  <1> QED
    BY <1>6, <1>7

-----------------------------------------------------------------------------
(* Visits.                                                                 *)

\* The table is NewRouteTable's.
TablesOK ==
    stage = "serving" =>
        \A h \in Keys(cfg.clients) : order[h] \in NewRouteTable(cfg.clients, h)

\* Nobody is served before the server runs.
NotYetServing ==
    stage # "serving" => visit = "idle" /\ follows = NoRedirect /\ request.path = <<>>

\* Except before the first request, the target is what Serve says, now as
\* then: neither the table nor the bindings change.
TargetOK ==
    /\ request.path \in Seq(STRING)
    /\ visit \in {"idle", "forwarded", "answered"}
    /\ visit # "idle" => target \notin {Control, NoRoute}
    /\ \/ stage # "serving"
       \/ visit = "idle" /\ request.path = <<>>
       \/ target = Serve(request.key, request.path)

\* The visitor sees the backend's headers, rewritten for a stripped prefix.
AnswerOK ==
    LET prefix == StripOf(target)
    IN  visit = "answered" =>
            /\ sent.loc \in Locations
            /\ sent.cookie \in CookiePaths
            /\ got.loc = IF prefix = <<>> THEN Text(sent.loc.path, sent.loc.query)
                         ELSE RewriteLocation(prefix, sent.loc)
            /\ got.cookie = IF prefix = <<>> \/ sent.cookie = NoPath THEN sent.cookie
                            ELSE RewriteCookiePath(prefix, sent.cookie)

RoutingInv ==
    /\ ConfigInv
    /\ TablesOK
    /\ NotYetServing
    /\ TargetOK
    /\ AnswerOK
    /\ CanonicalRedirectArrives

\* A process that does not serve has no bindings.
LEMMA NothingBound == stage # "serving" => DOMAIN bindings = {}
  <1>1. stage # "serving" => bindings = <<>>
    BY DEF bindings
  <1>2. DOMAIN <<>> = {}
    OBVIOUS
  <1> QED
    BY <1>1, <1>2, Zenon

\* What the loaders guarantee to a server that runs.
LEMMA ServingFacts ==
    ASSUME ConfigInv, stage = "serving"
    PROVE  /\ bindings = cfg.clients
           /\ Normalized(bindings) /\ KeysOK(bindings) /\ PathPrefixConflictsOK(bindings)
           /\ ControlPathOK(cfg.control, bindings)
           /\ cfg.control \in Seq(STRING) /\ cfg.control # <<>>
           /\ cfg.padded = file.padded
  <1>1. bindings = cfg.clients
    BY DEF bindings
  <1>2. file \in Files /\ file.kind = "server" /\ cfg = StartedServer /\ ValidateServer(cfg)
    BY DEF ConfigInv
  <1>3. /\ cfg.clients = Resolve(file.clients)
        /\ cfg.control
               = ValidateControlPath(TRUE, ValidateControlPath(file.rooted, file.control))
        /\ cfg.padded = file.padded
    BY <1>2 DEF StartedServer, LoadedServer
  <1>4. file.clients \in Seq(Binding)
    BY <1>2, FilesAssumption, Zenon
  <1>5. Normalized(bindings)
    BY <1>1, <1>3, <1>4, ResolveFacts
  <1>6. cfg.control \in Seq(STRING) /\ Canonical(cfg.control)
    BY <1>2, <1>3, ControlFacts, Zenon
  <1>7. cfg.control # <<>>
    <2>1. Root # <<>>
      BY PathFacts, RootFacts
    <2> QED
      BY <1>6, <2>1, Zenon DEF Canonical
  <1> QED
    BY <1>1, <1>2, <1>3, <1>5, <1>6, <1>7, Zenon DEF ValidateServer, ValidBindings

\* Positions of bindings are neither Control nor NoRoute.
LEMMA PositionFacts ==
    ASSUME NEW bs, Normalized(bs), NEW t \in DOMAIN bs
    PROVE  t \notin {Control, NoRoute}
  <1>1. PICK n \in Nat : DOMAIN bs = 1..n
    BY Zenon DEF Normalized
  <1> QED
    BY <1>1 DEF Control, NoRoute

\* Cleaning a request's path.
LEMMA CleanPath ==
    ASSUME NEW p \in Seq(STRING)
    PROVE  /\ Clean(p) \in Seq(STRING) /\ Canonical(Clean(p)) /\ Clean(p) # <<>>
           /\ Canonical(p) <=> Clean(p) = p
           /\ Clean(Clean(p)) = Clean(p)
  <1>1. PICK X : X = STRING
    OBVIOUS
  <1>2. p \in Seq(X) /\ Nil \in X
    BY <1>1, PathFacts, Zenon
  <1>3. /\ Clean(p) \in Seq(X) /\ Canonical(Clean(p)) /\ Clean(p) # <<>>
        /\ Canonical(p) <=> Clean(p) = p
        /\ Clean(Clean(p)) = Clean(p)
    BY <1>2, CleanFacts, CanonicalIsClean
  <1> QED
    BY <1>1, <1>3, Zenon

\* Serve goes to the control plane, or to the most specific covering route.
LEMMA ServeFacts ==
    ASSUME ConfigInv, TablesOK, stage = "serving",
           NEW k, NEW p \in Seq(STRING), NEW t, t = Serve(k, p)
    PROVE  \/ t \in {Control, NoRoute}
           \/ /\ t \in DOMAIN bindings /\ bindings[t].host = k
              /\ Covers(bindings[t].prefix, Clean(p))
              /\ \A r \in DOMAIN bindings :
                     bindings[r].host = k /\ Covers(bindings[r].prefix, Clean(p))
                         => Depth(bindings[r].prefix) <= Depth(bindings[t].prefix)
              /\ ~IsControlPath(p) /\ k \in Keys(bindings)
  <1>1. /\ bindings = cfg.clients
        /\ Normalized(bindings) /\ KeysOK(bindings) /\ PathPrefixConflictsOK(bindings)
    BY ServingFacts
  <1>2. CASE ~IsControlPath(p) /\ k \in Keys(bindings)
    <2>1. t = Match(bindings, order[k], p)
      BY <1>2, Zenon DEF Serve
    <2>2. order[k] \in NewRouteTable(bindings, k)
      BY <1>1, <1>2, Zenon DEF TablesOK
    <2>3. Clean(p) \in Seq(STRING)
      BY CleanPath
    <2>4. PICK bs, o : bs = bindings /\ o = order[k]
      OBVIOUS
    <2>5. /\ Normalized(bs) /\ KeysOK(bs) /\ PathPrefixConflictsOK(bs)
          /\ o \in NewRouteTable(bs, k) /\ t = Match(bs, o, p)
      BY <1>1, <2>1, <2>2, <2>4, Zenon
    <2>6. \/ /\ t \in DOMAIN bs /\ bs[t].host = k /\ Covers(bs[t].prefix, Clean(p))
             /\ \A r \in DOMAIN bs : bs[r].host = k /\ Covers(bs[r].prefix, Clean(p))
                    => Depth(bs[r].prefix) <= Depth(bs[t].prefix)
          \/ t = NoRoute
      BY <2>3, <2>5, MatchFacts
    <2> QED
      BY <1>2, <2>4, <2>6, Zenon
  <1>3. CASE IsControlPath(p)
    <2>1. t = Control
      BY <1>3, Zenon DEF Serve
    <2> QED
      BY <2>1
  <1>4. CASE ~IsControlPath(p) /\ k \notin Keys(bindings)
    <2>1. t = NoRoute
      BY <1>4, Zenon DEF Serve
    <2> QED
      BY <2>1
  <1> QED
    BY <1>2, <1>3, <1>4

\* A canonical path below a binding's prefix reaches that binding.
LEMMA SpecificRouteWins ==
    ASSUME ConfigInv, TablesOK, stage = "serving",
           NEW i \in DOMAIN bindings, bindings[i].prefix \notin {<<>>, Root},
           NEW p \in Seq(STRING), Clean(p) = p, IsPrefix(bindings[i].prefix, p)
    PROVE  Serve(bindings[i].host, p) = i
  <1>1. /\ bindings = cfg.clients
        /\ Normalized(bindings) /\ KeysOK(bindings) /\ PathPrefixConflictsOK(bindings)
        /\ ControlPathOK(cfg.control, bindings)
        /\ cfg.control \in Seq(STRING)
    BY ServingFacts
  <1>2. PICK X : X = STRING
    OBVIOUS
  <1>3. PICK q \in Seq(X) : q = bindings[i].prefix /\ q \in Seq(Part)
    BY <1>1, <1>2, PathFacts, Zenon DEF Normalized
  <1>4. PICK ctl \in Seq(X) : ctl = cfg.control
    BY <1>1, <1>2, Zenon
  <1>5. p \in Seq(X) /\ IsPrefix(q, p)
    BY <1>2, <1>3, Zenon
  <1>6. ~IsControlPath(p)
    <2> SUFFICES ASSUME IsControlPath(p) PROVE FALSE
      OBVIOUS
    <2>1. IsPrefix(ctl, p)
      <3>1. p = ctl \/ Under(p, ctl)
        BY <1>4, Zenon DEF IsControlPath
      <3> QED
        BY <1>5, <3>1, PrefixOrder
    <2>2. Nested(q, ctl)
      BY <1>5, <2>1, PrefixesNested
    <2> QED
      BY <1>1, <1>3, <1>4, <2>2, Zenon DEF ControlPathOK
  <1>7. PICK h, bs, o : h = bindings[i].host /\ bs = bindings /\ o = order[h]
    OBVIOUS
  <1>8. h \in Keys(bs)
    BY <1>7, Zenon DEF Keys
  <1>9. o \in NewRouteTable(bs, h)
    BY <1>1, <1>7, <1>8, Zenon DEF TablesOK
  <1>10. PICK t : t = Match(bs, o, p)
    OBVIOUS
  <1>11. Serve(h, p) = t
    BY <1>6, <1>7, <1>8, <1>10, Zenon DEF Serve
  <1>12. Covers(bs[i].prefix, p) /\ i \in DOMAIN bs /\ bs[i].host = h
    BY <1>7, Zenon DEF Covers
  <1>13. \/ /\ t \in DOMAIN bs /\ bs[t].host = h /\ Covers(bs[t].prefix, p)
            /\ \A r \in DOMAIN bs : bs[r].host = h /\ Covers(bs[r].prefix, p)
                   => Depth(bs[r].prefix) <= Depth(bs[t].prefix)
         \/ \A r \in DOMAIN bs : bs[r].host = h => ~Covers(bs[r].prefix, p)
    <2>1. Normalized(bs) /\ KeysOK(bs) /\ PathPrefixConflictsOK(bs) /\ Clean(p) \in Seq(STRING)
      BY <1>1, <1>7, Zenon
    <2>2. \/ /\ t \in DOMAIN bs /\ bs[t].host = h /\ Covers(bs[t].prefix, Clean(p))
             /\ \A r \in DOMAIN bs : bs[r].host = h /\ Covers(bs[r].prefix, Clean(p))
                    => Depth(bs[r].prefix) <= Depth(bs[t].prefix)
          \/ \A r \in DOMAIN bs : bs[r].host = h => ~Covers(bs[r].prefix, Clean(p))
      BY <1>9, <1>10, <2>1, MatchFacts
    <2> QED
      BY <2>2, Zenon
  <1>14. t \in DOMAIN bs /\ bs[t].host = h /\ Covers(bs[t].prefix, p)
         /\ Depth(bs[i].prefix) <= Depth(bs[t].prefix)
    BY <1>12, <1>13, Zenon
  <1>15. PICK v \in Seq(Part) : v = bs[t].prefix
    BY <1>1, <1>7, <1>14, Zenon DEF Normalized
  <1>16. v \notin {<<>>, Root}
    <2>1. Depth(v) = 0 \/ Depth(v) = 1 \/ v \notin {<<>>, Root}
      BY DepthFacts
    <2>2. Depth(q) >= 2 /\ Depth(q) \in Nat
      <3>1. q # <<>> /\ q # Root
        BY <1>3, Zenon
      <3>2. Depth(q) = Len(q) + 1
        BY <3>1, Zenon DEF Depth
      <3>3. Len(q) \in Nat /\ Len(q) >= 1
        BY <3>1
      <3> QED
        BY <3>2, <3>3
    <2>3. Depth(q) <= Depth(v) /\ Depth(v) \in Nat
      BY <1>3, <1>7, <1>14, <1>15, DepthFacts, Zenon
    <2>4. Depth(v) # 0 /\ Depth(v) # 1
      BY <2>2, <2>3
    <2> QED
      BY <2>1, <2>4, Zenon
  <1>17. t = i
    <2>1. bs[t].prefix \notin {<<>>, Root} /\ bs[i].prefix \notin {<<>>, Root}
      BY <1>7, <1>15, <1>16, Zenon
    <2>2. Normalized(bs) /\ KeysOK(bs) /\ PathPrefixConflictsOK(bs) /\ bs[t].host = bs[i].host
      BY <1>1, <1>7, <1>14, Zenon
    <2> QED
      BY <1>12, <1>14, <2>1, <2>2, OneSpecificRoute
  <1> QED
    BY <1>7, <1>11, <1>17, Zenon

\* A prefix of a plain path is plain.
LEMMA PrefixOfPlain ==
    ASSUME NEW X, NEW s \in Seq(X), NEW t \in Seq(X), IsPrefix(s, t), Plain(t)
    PROVE  Plain(s)
  <1>1. Len(s) <= Len(t) /\ \A i \in 1..Len(s) : s[i] = t[i]
    BY PrefixFacts
  <1> QED
    BY <1>1 DEF Plain

\* Below "/" as a sequence of parts there is nothing canonical, and above it
\* only the empty string.
LEMMA PrefixesOfRoot ==
    ASSUME NEW X, Nil \in X, NEW s \in Seq(X), s # <<>>
    PROVE  /\ IsPrefix(s, Root) => s = Root
           /\ Plain(s) => ~IsPrefix(s, Root)
  <1>1. PICK r \in Seq(X) : r = Root /\ Len(r) = 1 /\ r[1] = Nil
    BY RootFacts, Zenon
  <1>2. IsPrefix(s, r) => s = r
    <2> SUFFICES ASSUME IsPrefix(s, r) PROVE s = r
      OBVIOUS
    <2>1. Len(s) <= Len(r)
      BY PrefixFacts
    <2>2. Len(s) = Len(r)
      BY <1>1, <2>1
    <2> QED
      BY <2>2, PrefixOrder
  <1>3. Plain(s) => s # r
    <2>1. ~Ordinary(Nil)
      BY DEF Ordinary, Nil
    <2> SUFFICES ASSUME Plain(s), s = r PROVE FALSE
      OBVIOUS
    <2>2. 1 \in 1..Len(s) /\ s[1] = Nil
      BY <1>1
    <2> QED
      BY <2>1, <2>2 DEF Plain
  <1> QED
    BY <1>1, <1>2, <1>3, Zenon

\* prependPublicPath, for a prefix that is not "/".
LEMMA PrependFacts ==
    ASSUME NEW X, Nil \in X, NEW q \in Seq(X), NEW p \in Seq(X)
    PROVE  /\ PrependPublicPath(q, p) \in Seq(X)
           /\ IsPrefix(q, PrependPublicPath(q, p))
           /\ Clean(p) = Root => PrependPublicPath(q, p) = q
           /\ Clean(p) # Root /\ ~IsPrefix(q, Clean(p)) => PrependPublicPath(q, p) = q \o Clean(p)
           /\ Clean(p) # Root /\ IsPrefix(q, Clean(p)) => PrependPublicPath(q, p) = Clean(p)
  <1>1. PICK c \in Seq(X) : c = Clean(p)
    BY CleanFacts
  <1>2. q \o c \in Seq(X) /\ IsPrefix(q, q \o c)
    BY ConcatPrefix, ConcatProperties
  <1>3. IsPrefix(q, q)
    BY PrefixOrder
  <1>4. c = Root => PrependPublicPath(q, p) = q
    BY <1>1, Zenon DEF PrependPublicPath
  <1>5. c # Root /\ IsPrefix(q, c) => PrependPublicPath(q, p) = c
    BY <1>1, Zenon DEF PrependPublicPath
  <1>6. c # Root /\ ~IsPrefix(q, c) => PrependPublicPath(q, p) = q \o c
    BY <1>1, Zenon DEF PrependPublicPath
  <1> QED
    BY <1>1, <1>2, <1>3, <1>4, <1>5, <1>6, Zenon

\* Stripping undoes prependPublicPath on a canonical path that is not below the
\* prefix already.
LEMMA StripUndoesPrepend ==
    ASSUME NEW X, Nil \in X, NEW q \in Seq(X), q # <<>>, q # Root, Plain(q),
           NEW p \in Seq(X), Clean(p) = p, ~IsPrefix(q, p),
           NEW g, g = PrependPublicPath(q, p)
    PROVE  /\ g \in Seq(X) /\ IsPrefix(q, g) /\ Clean(g) = g
           /\ StripPathPrefix(g, q) = p
  <1>1. /\ g \in Seq(X) /\ IsPrefix(q, g)
        /\ p = Root => g = q
        /\ p # Root => g = q \o p
    <2>1. PrependPublicPath(q, p) \in Seq(X) /\ IsPrefix(q, PrependPublicPath(q, p))
      BY PrependFacts
    <2>2. Clean(p) = Root => PrependPublicPath(q, p) = q
      BY PrependFacts
    <2>3. Clean(p) # Root /\ ~IsPrefix(q, Clean(p)) => PrependPublicPath(q, p) = q \o Clean(p)
      BY PrependFacts
    <2> QED
      BY <2>1, <2>2, <2>3, Zenon
  <1>2. CASE p = Root
    <2>1. Clean(q) = q
      BY CanonicalIsClean DEF Canonical
    <2>2. StripPathPrefix(q, q) = Root
      BY Zenon DEF StripPathPrefix, Under, IsStrictPrefix
    <2> QED
      BY <1>1, <1>2, <2>1, <2>2, Zenon
  <1>3. CASE p # Root
    <2>1. Plain(p) /\ p # <<>>
      BY <1>3, CanonicalIsClean DEF Canonical
    <2>2. PICK u \in Seq(X) : u = q \o p /\ u = g
      BY <1>1, <1>3, Zenon
    <2>3. Len(u) = Len(q) + Len(p) /\ Len(p) >= 1
      <3>1. Len(q \o p) = Len(q) + Len(p)
        BY ConcatProperties
      <3>2. Len(p) >= 1
        BY <2>1
      <3> QED
        BY <2>2, <3>1, <3>2, Zenon
    <2>4. Plain(u) /\ u # <<>>
      <3>1. Plain(u)
        BY <2>1, <2>2, PlainFacts
      <3>2. Len(u) # 0
        BY <2>3
      <3> QED
        BY <3>1, <3>2
    <2>5. Clean(u) = u
      BY <2>4, CanonicalIsClean DEF Canonical
    <2>6. u # q
      BY <2>3
    <2>7. Under(u, q)
      BY <1>1, <2>2, <2>6, Zenon DEF Under, IsStrictPrefix
    <2>8. StripPathPrefix(u, q) = SubSeq(u, Len(q) + 1, Len(u))
      BY <2>6, <2>7, Zenon DEF StripPathPrefix
    <2>9. SubSeq(q \o p, Len(q) + 1, Len(q) + Len(p)) = p
      <3>1. Len(q) + 1 \in Len(q)+1 .. Len(q)+Len(p) /\ Len(q) + Len(p) \in Len(q)+1 .. Len(q)+Len(p)
        BY <2>3
      <3>2. SubSeq(q \o p, Len(q) + 1, Len(q) + Len(p))
                = SubSeq(p, (Len(q) + 1) - Len(q), (Len(q) + Len(p)) - Len(q))
        BY <3>1, SubSeqOfConcat2
      <3>3. (Len(q) + 1) - Len(q) = 1 /\ (Len(q) + Len(p)) - Len(q) = Len(p)
        OBVIOUS
      <3>4. SubSeq(p, 1, Len(p)) = p
        BY SubSeqFull
      <3> QED
        BY <3>2, <3>3, <3>4, Zenon
    <2>10. StripPathPrefix(u, q) = p
      BY <2>2, <2>3, <2>8, <2>9, Zenon
    <2> QED
      BY <1>1, <2>2, <2>5, <2>10, Zenon
  <1> QED
    BY <1>2, <1>3

\* A cookie that the backend means for its path b reaches it under b's public
\* path.
LEMMA CookieReaches ==
    ASSUME NEW X, Nil \in X, NEW q \in Seq(X), q # <<>>, q # Root, Plain(q),
           NEW inner \in Seq(X), inner # <<>>, ~Under(Clean(inner), q),
           NEW b \in Seq(X), Canonical(b), PathMatch(b, inner)
    PROVE  PathMatch(PublicPath(q, b), PrependPublicPath(q, inner))
  <1>1. PICK c \in Seq(X) : c = Clean(inner) /\ Canonical(c) /\ c # <<>>
    BY CleanFacts
  <1>2. PICK g \in Seq(X) : /\ g = PrependPublicPath(q, inner)
                            /\ c = Root => g = q
                            /\ c # Root /\ ~IsPrefix(q, c) => g = q \o c
                            /\ c # Root /\ IsPrefix(q, c) => g = c
    <2>1. /\ PrependPublicPath(q, inner) \in Seq(X)
          /\ Clean(inner) = Root => PrependPublicPath(q, inner) = q
          /\ Clean(inner) # Root /\ ~IsPrefix(q, Clean(inner))
                 => PrependPublicPath(q, inner) = q \o Clean(inner)
          /\ Clean(inner) # Root /\ IsPrefix(q, Clean(inner))
                 => PrependPublicPath(q, inner) = Clean(inner)
      BY PrependFacts
    <2> QED
      BY <1>1, <2>1, Zenon
  <1>3. PICK u \in Seq(X) : /\ u = PublicPath(q, b)
                            /\ b = Root => u = q
                            /\ b # Root => u = q \o b
    <2>1. q \o b \in Seq(X)
      BY ConcatProperties
    <2> QED
      BY <2>1, Zenon DEF PublicPath
  <1>4. IsPrefix(g, u) => PathMatch(u, g)
    <2>1. IsPrefix(g, u) => g = u \/ Under(u, g)
      BY PrefixOrder
    <2> QED
      BY <2>1, Zenon DEF PathMatch
  <1>5. IsPrefix(q, u)
    <2>1. IsPrefix(q, q) /\ IsPrefix(q, q \o b)
      BY PrefixOrder, ConcatPrefix
    <2> QED
      BY <1>3, <2>1, Zenon
  <1>6. CASE g = q
    BY <1>2, <1>3, <1>4, <1>5, <1>6, Zenon
  <1>7. CASE g # q
    <2>1. c # Root /\ ~IsPrefix(q, c) /\ g = q \o c
      <3>1. IsPrefix(q, c) => q = c \/ Under(c, q)
        BY PrefixOrder
      <3> QED
        BY <1>1, <1>2, <1>7, <3>1, Zenon
    <2>2. Plain(c)
      BY <1>1, <2>1, Zenon DEF Canonical
    <2>3. ASSUME b # Root, IsPrefix(c, b) PROVE IsPrefix(g, u)
      <3>1. IsPrefix(q \o c, q \o b)
        BY <2>3, ConcatPrefix
      <3> QED
        BY <1>3, <2>1, <2>3, <3>1, Zenon
    <2>4. inner # Root
      <3>1. Canonical(Root) /\ Root \in Seq(X)
        BY RootFacts DEF Canonical
      <3>2. Clean(Root) = Root
        BY <3>1, CanonicalIsClean
      <3> QED
        BY <1>1, <2>1, <3>2, Zenon
    <2>5. IsPrefix(inner, b) => b # Root
      BY <2>4, PrefixesOfRoot
    <2>6. CASE b = inner \/ Under(b, inner)
      <3>1. IsPrefix(inner, b)
        BY <2>6, PrefixOrder
      <3>2. b # Root /\ Plain(b)
        BY <2>5, <3>1, Zenon DEF Canonical
      <3>3. Plain(inner)
        BY <3>1, <3>2, PrefixOfPlain
      <3>4. Clean(inner) = inner
        BY <3>3, CanonicalIsClean DEF Canonical
      <3>5. IsPrefix(c, b)
        BY <1>1, <3>1, <3>4, Zenon
      <3> QED
        BY <1>2, <1>3, <1>4, <2>3, <3>2, <3>5, Zenon
    <2>7. CASE Last(inner) = Nil /\ Len(b) >= Len(inner) /\ IsPrefix(Front(inner), b)
      <3>1. PICK f \in Seq(X) : /\ f = Front(inner) /\ Len(f) = Len(inner) - 1
                                /\ \A i \in 1..(Len(inner) - 1) : f[i] = inner[i]
        BY FrontFacts
      <3>2. IsPrefix(f, b) /\ inner[Len(inner)] = Nil
        BY <2>7, <3>1, Zenon DEF Last
      <3>3. PICK r \in Seq(X) : r = Root /\ Len(r) = 1 /\ r[1] = Nil
        BY RootFacts, Zenon
      <3>4. b # r
        <4> SUFFICES ASSUME b = r PROVE FALSE
          OBVIOUS
        <4>1. Len(inner) = 1
          BY <2>7, <3>3
        <4>2. inner = r
          <5>1. Len(inner) = Len(r) /\ \A i \in 1..Len(inner) : inner[i] = r[i]
            BY <3>2, <3>3, <4>1
          <5> QED
            BY <5>1, SeqEqual
        <4> QED
          BY <2>4, <3>3, <4>2, Zenon
      <3>5. Plain(b) /\ b # Root
        BY <3>3, <3>4, Zenon DEF Canonical
      <3>6. Plain(f)
        BY <3>2, <3>5, PrefixOfPlain
      <3>7. Clean(inner) = IF f = <<>> THEN Root ELSE f
        <4>1. Len(inner) = Len(f) + 1 /\ \A i \in 1..Len(f) : inner[i] = f[i]
          BY <3>1
        <4> QED
          BY <3>2, <3>6, <4>1, CleanOfPlain
      <3>8. IsPrefix(c, b)
        BY <1>1, <2>1, <3>2, <3>7, Zenon
      <3> QED
        BY <1>2, <1>3, <1>4, <2>3, <3>5, <3>8, Zenon
    <2> QED
      BY <2>4, <2>6, <2>7, Zenon DEF PathMatch, Nil
  <1> QED
    BY <1>6, <1>7

\* The visits read the same table throughout.
LEMMA Frozen ==
    ASSUME UNCHANGED <<configVars, order>>
    PROVE  /\ stage' = stage /\ cfg' = cfg /\ order' = order
           /\ bindings' = bindings
           /\ TablesOK => TablesOK'
           /\ \A r : StripOf(r)' = StripOf(r)
           /\ \A k, p : Serve(k, p)' = Serve(k, p)
  <1>1. stage' = stage /\ cfg' = cfg /\ order' = order
    BY DEF configVars
  <1>2. bindings' = bindings
    BY <1>1 DEF bindings
  <1>3. TablesOK => TablesOK'
    BY <1>1 DEF TablesOK
  <1>4. \A r : StripOf(r)' = StripOf(r)
    BY <1>2 DEF StripOf
  <1>5. \A k, p : Serve(k, p)' = Serve(k, p)
    BY <1>1, <1>2 DEF Serve, IsControlPath, Keys, Match
  <1> QED
    BY <1>1, <1>2, <1>3, <1>4, <1>5

\* No redirect is followed: nothing to show.
LEMMA NothingFollowed ==
    /\ follows = NoRedirect => CanonicalRedirectArrives
    /\ follows' = NoRedirect => CanonicalRedirectArrives'
  <1>1. NoRedirect.route = NoRoute
    BY DEF NoRedirect
  <1>2. follows = NoRedirect => CanonicalRedirectArrives
    BY <1>1, Zenon DEF CanonicalRedirectArrives, FollowsOwnRedirect
  <1>3. follows' = NoRedirect => CanonicalRedirectArrives'
    BY <1>1, Zenon DEF CanonicalRedirectArrives, FollowsOwnRedirect
  <1> QED
    BY <1>2, <1>3

\* Serving a request establishes everything but the redirect's arrival.
LEMMA ForwardStep ==
    ASSUME RoutingInv, stage = "serving", NEW k, NEW p \in Seq(STRING), Forward(k, p)
    PROVE  /\ ConfigInv' /\ TablesOK' /\ NotYetServing' /\ TargetOK' /\ AnswerOK'
           /\ target' = Serve(k, p)
           /\ target' \notin {Control, NoRoute} => out' = StripPathPrefix(p, StripOf(target'))
           /\ bindings' = bindings /\ \A r : StripOf(r)' = StripOf(r)
  <1>1. UNCHANGED <<configVars, order>>
    BY DEF Forward
  <1>2. ConfigInv'
    BY <1>1, ConfigStutter DEF RoutingInv
  <1>3. /\ stage' = "serving" /\ TablesOK' /\ bindings' = bindings
        /\ \A r : StripOf(r)' = StripOf(r)
        /\ \A l, q : Serve(l, q)' = Serve(l, q)
    BY <1>1, Frozen DEF RoutingInv
  <1>4. PICK t : t = Serve(k, p)
    OBVIOUS
  <1>5. /\ request' = [key |-> k, path |-> p] /\ target' = t
        /\ visit' = IF t \in {Control, NoRoute} THEN "idle" ELSE "forwarded"
        /\ t \notin {Control, NoRoute} => out' = StripPathPrefix(p, StripOf(t))
    BY <1>4, Zenon DEF Forward
  <1>6. request'.key = k /\ request'.path = p
    BY <1>5
  <1>7. visit' \in {"idle", "forwarded"} /\ (visit' # "idle" => target' \notin {Control, NoRoute})
    BY <1>5
  <1>8. TargetOK'
    <2>1. Serve(request.key, request.path)' = Serve(k, p)
      BY <1>3, <1>6, Zenon
    <2>2. target' = Serve(request.key, request.path)'
      BY <1>4, <1>5, <2>1, Zenon
    <2> QED
      BY <1>6, <1>7, <2>2 DEF TargetOK
  <1>9. AnswerOK'
    BY <1>7 DEF AnswerOK
  <1>10. NotYetServing'
    BY <1>3 DEF NotYetServing
  <1> QED
    BY <1>2, <1>3, <1>4, <1>5, <1>8, <1>9, <1>10, Zenon

\* A first request.
LEMMA RequestStep ==
    ASSUME RoutingInv, NEW host \in HostHeaders, NEW p \in RequestPaths, Request(host, p)
    PROVE  RoutingInv'
  <1>1. stage = "serving" /\ follows' = NoRedirect /\ Forward(HostKey(host), p)
    BY DEF Request
  <1>2. p \in Seq(STRING)
    BY InputAssumption, Zenon
  <1>3. PICK k : k = HostKey(host)
    OBVIOUS
  <1>4. Forward(k, p)
    BY <1>1, <1>3, Zenon
  <1>5. ConfigInv' /\ TablesOK' /\ NotYetServing' /\ TargetOK' /\ AnswerOK'
    BY <1>1, <1>2, <1>4, ForwardStep
  <1>6. CanonicalRedirectArrives'
    BY <1>1, NothingFollowed
  <1> QED
    BY <1>5, <1>6 DEF RoutingInv

\* The backend's answer.
LEMMA AnswerStep ==
    ASSUME RoutingInv, NEW loc \in Locations, NEW c \in CookiePaths, Answer(loc, c)
    PROVE  RoutingInv'
  <1>1. /\ UNCHANGED <<configVars, order>> /\ visit = "forwarded" /\ visit' = "answered"
        /\ request' = request /\ target' = target /\ out' = out /\ follows' = follows
        /\ sent' = [loc |-> loc, cookie |-> c]
    BY DEF Answer
  <1>2. PICK q : q = StripOf(target)
    OBVIOUS
  <1>3. got' = IF q = <<>> THEN [loc |-> Text(loc.path, loc.query), cookie |-> c]
               ELSE [loc |-> RewriteLocation(q, loc),
                     cookie |-> IF c = NoPath THEN c ELSE RewriteCookiePath(q, c)]
    BY <1>2, Zenon DEF Answer
  <1>4. ConfigInv'
    BY <1>1, ConfigStutter DEF RoutingInv
  <1>5. /\ stage' = stage /\ TablesOK'
        /\ \A r : StripOf(r)' = StripOf(r)
        /\ \A l, p : Serve(l, p)' = Serve(l, p)
    BY <1>1, Frozen DEF RoutingInv
  <1>6. TargetOK'
    <2>1. target \notin {Control, NoRoute} /\ request.path \in Seq(STRING)
      BY <1>1 DEF RoutingInv, TargetOK
    <2>2. stage # "serving" \/ target = Serve(request.key, request.path)
      BY <1>1 DEF RoutingInv, TargetOK
    <2>3. Serve(request.key, request.path)' = Serve(request.key, request.path)
      BY <1>1, <1>5, Zenon
    <2> QED
      BY <1>1, <1>5, <2>1, <2>2, <2>3 DEF TargetOK
  <1>7. NotYetServing'
    BY <1>1, <1>5 DEF RoutingInv, NotYetServing
  <1>8. AnswerOK'
    <2>1. StripOf(target)' = q
      BY <1>1, <1>2, <1>5, Zenon
    <2>2. sent'.loc = loc /\ sent'.cookie = c
      BY <1>1
    <2>3. /\ got'.loc = IF q = <<>> THEN Text(loc.path, loc.query) ELSE RewriteLocation(q, loc)
          /\ got'.cookie = IF q = <<>> \/ c = NoPath THEN c ELSE RewriteCookiePath(q, c)
      <3>1. CASE q = <<>>
        BY <1>3, <3>1
      <3>2. CASE q # <<>>
        BY <1>3, <3>2
      <3> QED
        BY <3>1, <3>2
    <2> QED
      BY <2>1, <2>2, <2>3, Zenon DEF AnswerOK
  <1>9. CanonicalRedirectArrives'
    <2>1. StripOf(follows.route)' = StripOf(follows.route)
      BY <1>1, <1>5, Zenon
    <2> QED
      BY <1>1, <2>1, Zenon DEF RoutingInv, CanonicalRedirectArrives, FollowsOwnRedirect
  <1> QED
    BY <1>4, <1>5, <1>6, <1>7, <1>8, <1>9 DEF RoutingInv

\* While a visit is under way its route is one of the bindings.
LEMMA VisitFacts ==
    ASSUME RoutingInv, visit # "idle"
    PROVE  /\ stage = "serving" /\ Normalized(bindings)
           /\ request.path \in Seq(STRING) /\ target = Serve(request.key, request.path)
           /\ target \in DOMAIN bindings /\ bindings[target].host = request.key
           /\ Covers(bindings[target].prefix, Clean(request.path))
           /\ \A r \in DOMAIN bindings :
                  bindings[r].host = request.key /\ Covers(bindings[r].prefix, Clean(request.path))
                      => Depth(bindings[r].prefix) <= Depth(bindings[target].prefix)
  <1>1. stage = "serving" /\ ConfigInv /\ TablesOK
    BY DEF RoutingInv, NotYetServing
  <1>2. /\ request.path \in Seq(STRING) /\ target \notin {Control, NoRoute}
        /\ target = Serve(request.key, request.path)
    BY <1>1 DEF RoutingInv, TargetOK
  <1>3. Normalized(bindings)
    BY <1>1, ServingFacts
  <1>4. PICK p \in Seq(STRING) : p = request.path
    BY <1>2, Zenon
  <1>5. PICK k, t : k = request.key /\ t = target
    OBVIOUS
  <1>6. t = Serve(k, p) /\ t \notin {Control, NoRoute}
    BY <1>2, <1>4, <1>5, Zenon
  <1>7. /\ t \in DOMAIN bindings /\ bindings[t].host = k
        /\ Covers(bindings[t].prefix, Clean(p))
        /\ \A r \in DOMAIN bindings :
               bindings[r].host = k /\ Covers(bindings[r].prefix, Clean(p))
                   => Depth(bindings[r].prefix) <= Depth(bindings[t].prefix)
    BY <1>1, <1>6, ServeFacts
  <1> QED
    BY <1>1, <1>2, <1>3, <1>4, <1>5, <1>7, Zenon

\* The stripped prefix is the route's, or "".
LEMMA StripFacts ==
    ASSUME Normalized(bindings), NEW t \in DOMAIN bindings
    PROVE  /\ StripOf(t) \in Seq(STRING)
           /\ StripOf(t) # <<>> => StripOf(t) = bindings[t].prefix /\ Canonical(StripOf(t))
  <1>1. /\ bindings[t].prefix \in Seq(STRING)
        /\ bindings[t].prefix = <<>> \/ Canonical(bindings[t].prefix)
    BY PathFacts, Zenon DEF Normalized
  <1>2. StripOf(t) = <<>> \/ StripOf(t) = bindings[t].prefix
    BY Zenon DEF StripOf
  <1>3. \A X : <<>> \in Seq(X)
    OBVIOUS
  <1> QED
    BY <1>1, <1>2, <1>3, Zenon

\* The visitor follows a redirect.
LEMMA FollowStep ==
    ASSUME RoutingInv, Follow PROVE RoutingInv'
  <1>1. /\ visit = "answered" /\ sent.loc.kind = "path" /\ sent.loc.query = <<>>
        /\ follows' = [route |-> target, path |-> sent.loc.path]
        /\ Forward(request.key, got.loc)
    BY DEF Follow
  <1>2. /\ stage = "serving" /\ Normalized(bindings)
        /\ target \in DOMAIN bindings /\ bindings[target].host = request.key
    BY <1>1, VisitFacts
  <1>3. PICK p \in Seq(STRING) : p = sent.loc.path
    <2>1. sent.loc \in Locations
      BY <1>1, Zenon DEF RoutingInv, AnswerOK
    <2> QED
      BY <2>1, InputAssumption, Zenon
  <1>4. PICK q \in Seq(STRING) :
            /\ q = StripOf(target)
            /\ q # <<>> => q = bindings[target].prefix /\ Canonical(q)
    BY <1>2, StripFacts
  <1>5. PICK X : X = STRING
    OBVIOUS
  <1>6. Nil \in X /\ q \in Seq(X) /\ p \in Seq(X)
    BY <1>5, PathFacts, Zenon
  <1>7. got.loc = IF q = <<>> THEN p ELSE PrependPublicPath(q, p)
    <2>1. Text(p, <<>>) = p
      BY Zenon DEF Text
    <2>2. RewriteLocation(q, sent.loc) = PrependPublicPath(q, Text(p, <<>>))
      BY <1>1, <1>3, Zenon DEF RewriteLocation
    <2>3. got.loc = IF q = <<>> THEN Text(p, <<>>) ELSE RewriteLocation(q, sent.loc)
      BY <1>1, <1>3, <1>4, Zenon DEF RoutingInv, AnswerOK
    <2> QED
      BY <2>1, <2>2, <2>3, Zenon
  <1>8. PICK g \in Seq(X) : g = got.loc
    <2>1. PrependPublicPath(q, p) \in Seq(X)
      BY <1>6, PrependFacts
    <2> QED
      BY <1>6, <1>7, <2>1, Zenon
  <1>9. PICK k : k = request.key
    OBVIOUS
  <1>10. /\ ConfigInv' /\ TablesOK' /\ NotYetServing' /\ TargetOK' /\ AnswerOK'
         /\ target' = Serve(k, g)
         /\ target' \notin {Control, NoRoute} => out' = StripPathPrefix(g, StripOf(target'))
         /\ bindings' = bindings /\ \A r : StripOf(r)' = StripOf(r)
    <2>1. g \in Seq(STRING) /\ Forward(k, g)
      BY <1>1, <1>5, <1>8, <1>9, Zenon
    <2> QED
      BY <1>2, <2>1, ForwardStep
  <1>11. follows'.route = target /\ follows'.path = p
    BY <1>1, <1>3
  <1>12. ASSUME q \notin {<<>>, Root}, ~(p = q \/ Under(p, q)), p = Clean(p)
         PROVE  target' = target /\ out' = p
    <2>1. q = bindings[target].prefix /\ Plain(q) /\ q # <<>> /\ q # Root
      BY <1>4, <1>12, Zenon DEF Canonical
    <2>2. ~IsPrefix(q, p)
      BY <1>6, <1>12, PrefixOrder
    <2>3. g = PrependPublicPath(q, p)
      BY <1>7, <1>8, <2>1, Zenon
    <2>4. IsPrefix(q, g) /\ Clean(g) = g /\ StripPathPrefix(g, q) = p
      BY <1>6, <1>12, <2>1, <2>2, <2>3, StripUndoesPrepend
    <2>5. PICK t \in DOMAIN bindings : t = target
      BY <1>2, Zenon
    <2>6. /\ bindings[t].prefix \notin {<<>>, Root} /\ IsPrefix(bindings[t].prefix, g)
          /\ g \in Seq(STRING)
      BY <1>5, <2>1, <2>4, <2>5, Zenon
    <2>7. Serve(bindings[t].host, g) = t
      BY <1>2, <2>4, <2>6, SpecificRouteWins DEF RoutingInv
    <2>8. target' = target
      BY <1>2, <1>9, <1>10, <2>5, <2>7, Zenon
    <2>9. target' \notin {Control, NoRoute}
      <3>1. t \notin {Control, NoRoute}
        BY <1>2, PositionFacts
      <3> QED
        BY <2>5, <2>8, <3>1, Zenon
    <2> QED
      BY <1>4, <1>10, <2>4, <2>8, <2>9, Zenon
  <1>13. CanonicalRedirectArrives'
    <2>1. StripOf(follows.route)' = q
      BY <1>4, <1>10, <1>11, Zenon
    <2> QED
      BY <1>11, <1>12, <2>1, Zenon DEF CanonicalRedirectArrives, FollowsOwnRedirect
  <1> QED
    BY <1>10, <1>13 DEF RoutingInv

\* Loading and starting.
LEMMA StartStep ==
    ASSUME RoutingInv,
           \/ LoadServer /\ UNCHANGED <<order, visitVars>>
           \/ LoadClient /\ UNCHANGED <<order, visitVars>>
           \/ StartServer
    PROVE  RoutingInv'
  <1>1. stage # "serving"
    BY DEF LoadServer, LoadClient, StartServer, NewServer
  <1>2. visit = "idle" /\ follows = NoRedirect /\ request.path = <<>>
    BY <1>1 DEF RoutingInv, NotYetServing
  <1>3. visit' = "idle" /\ follows' = NoRedirect /\ request' = request
    BY <1>2 DEF StartServer, visitVars
  <1>4. NotYetServing' /\ AnswerOK'
    BY <1>2, <1>3 DEF NotYetServing, AnswerOK
  <1>5. TargetOK'
    BY <1>2, <1>3 DEF RoutingInv, TargetOK
  <1>6. CanonicalRedirectArrives'
    BY <1>3, NothingFollowed
  <1>7. ConfigInv'
    BY LoadServerStep, LoadClientStep, NewServerStep DEF RoutingInv, StartServer
  <1>8. TablesOK'
    <2>1. CASE LoadServer \/ LoadClient
      <3>1. stage' # "serving"
        BY <2>1 DEF LoadServer, LoadClient
      <3> QED
        BY <3>1 DEF TablesOK
    <2>2. CASE StartServer
      <3> SUFFICES ASSUME stage' = "serving" PROVE TablesOK'
        BY DEF TablesOK
      <3>1. cfg'.clients = cfg.clients
        BY <2>2, NewServerStep DEF RoutingInv, StartServer
      <3>2. \A h \in Keys(cfg.clients) : order'[h] \in NewRouteTable(cfg.clients, h)
        BY <2>2, Zenon DEF StartServer
      <3> QED
        BY <3>1, <3>2 DEF TablesOK
    <2> QED
      BY <2>1, <2>2
  <1> QED
    BY <1>4, <1>5, <1>6, <1>7, <1>8 DEF RoutingInv

\* Steps that change nothing.
LEMMA RoutingStutter ==
    ASSUME RoutingInv, UNCHANGED vars PROVE RoutingInv'
  <1>1. /\ UNCHANGED <<configVars, order>>
        /\ visit' = visit /\ request' = request /\ target' = target /\ out' = out
        /\ sent' = sent /\ got' = got /\ follows' = follows
    BY DEF vars, visitVars
  <1>2. ConfigInv'
    BY <1>1, ConfigStutter DEF RoutingInv
  <1>3. /\ stage' = stage /\ TablesOK'
        /\ \A r : StripOf(r)' = StripOf(r)
        /\ \A l, p : Serve(l, p)' = Serve(l, p)
    BY <1>1, Frozen DEF RoutingInv
  <1>4. NotYetServing'
    BY <1>1, <1>3 DEF RoutingInv, NotYetServing
  <1>5. Serve(request.key, request.path)' = Serve(request.key, request.path)
    BY <1>1, <1>3, Zenon
  <1>6. TargetOK'
    BY <1>1, <1>3, <1>5 DEF RoutingInv, TargetOK
  <1>7. StripOf(target)' = StripOf(target) /\ StripOf(follows.route)' = StripOf(follows.route)
    BY <1>1, <1>3, Zenon
  <1>8. AnswerOK'
    BY <1>1, <1>7, Zenon DEF RoutingInv, AnswerOK
  <1>9. CanonicalRedirectArrives'
    BY <1>1, <1>7, Zenon DEF RoutingInv, CanonicalRedirectArrives, FollowsOwnRedirect
  <1> QED
    BY <1>2, <1>3, <1>4, <1>6, <1>8, <1>9 DEF RoutingInv

\* The visits keep to the table, from the start of the process on.
THEOREM RoutingCorrect == Spec => []RoutingInv
  <1>1. Init => RoutingInv
    <2> SUFFICES ASSUME Init PROVE RoutingInv
      OBVIOUS
    <2>1. ConfigInv /\ stage = "file" /\ visit = "idle" /\ follows = NoRedirect
      BY DEF Init, ConfigInit, ConfigInv
    <2>2. request.path = <<>>
      BY DEF Init
    <2>3. \A X : <<>> \in Seq(X)
      OBVIOUS
    <2>4. TablesOK /\ NotYetServing /\ TargetOK /\ AnswerOK
      BY <2>1, <2>2, <2>3, Zenon DEF TablesOK, NotYetServing, TargetOK, AnswerOK
    <2>5. CanonicalRedirectArrives
      BY <2>1, NothingFollowed
    <2> QED
      BY <2>1, <2>4, <2>5 DEF RoutingInv
  <1>2. RoutingInv /\ [Next]_vars => RoutingInv'
    BY StartStep, RequestStep, AnswerStep, FollowStep, RoutingStutter DEF Next
  <1> QED
    BY <1>1, <1>2, PTL DEF Spec

\* h is the label k before the domain R.
Labelled(h, k, R) == h # R /\ Len(h) - Len(R) = 1 /\ h[1] = k /\ IsSuffix(R, h)

\* One label before a domain.
LEMMA LabelBefore ==
    ASSUME NEW X, NEW k \in X, NEW R \in Seq(X)
    PROVE  Labelled(<<k>> \o R, k, R)
  <1>0. PICK h : h = <<k>> \o R
    OBVIOUS
  <1>1. PICK l \in Seq(X) : l = <<k>> /\ Len(l) = 1 /\ l[1] = k
    <2>1. <<k>> \in Seq(X) /\ Len(<<k>>) = 1 /\ <<k>>[1] = k
      OBVIOUS
    <2> QED
      BY <2>1, Zenon
  <1>2. /\ l \o R \in Seq(X) /\ Len(l \o R) = Len(l) + Len(R)
        /\ \A i \in 1..(Len(l) + Len(R)) :
               (l \o R)[i] = IF i <= Len(l) THEN l[i] ELSE R[i - Len(l)]
    BY ConcatProperties
  <1>3. PICK g \in Seq(X) : g = l \o R /\ g = h
    BY <1>0, <1>1, <1>2, Zenon
  <1>4. Len(g) = 1 + Len(R) /\ g[1] = k /\ \A i \in 1..Len(R) : g[i + 1] = R[i]
    BY <1>1, <1>2, <1>3
  <1>5. PICK s \in Seq(X) : /\ s = Reverse(R) /\ Len(s) = Len(R)
                            /\ \A i \in 1..Len(R) : s[i] = R[(Len(R) - i) + 1]
    <2>1. /\ Reverse(R) \in Seq(X) /\ Len(Reverse(R)) = Len(R)
          /\ \A i \in 1..Len(R) : Reverse(R)[i] = R[(Len(R) - i) + 1]
      BY DEF Reverse
    <2> QED
      BY <2>1, Zenon
  <1>6. PICK t \in Seq(X) : /\ t = Reverse(g) /\ Len(t) = Len(g)
                            /\ \A i \in 1..Len(g) : t[i] = g[(Len(g) - i) + 1]
    <2>1. /\ Reverse(g) \in Seq(X) /\ Len(Reverse(g)) = Len(g)
          /\ \A i \in 1..Len(g) : Reverse(g)[i] = g[(Len(g) - i) + 1]
      BY DEF Reverse
    <2> QED
      BY <2>1, Zenon
  <1>7. \A i \in 1..Len(s) : s[i] = t[i]
    <2> TAKE i \in 1..Len(s)
    <2>1. /\ i \in 1..Len(g) /\ (Len(R) - i) + 1 \in 1..Len(R)
          /\ (Len(g) - i) + 1 = ((Len(R) - i) + 1) + 1
      BY <1>4, <1>5
    <2> QED
      BY <1>4, <1>5, <1>6, <2>1, Zenon
  <1>8. IsPrefix(s, t)
    <2>1. Len(s) <= Len(t)
      BY <1>4, <1>5, <1>6
    <2> QED
      BY <1>7, <2>1, PrefixFacts
  <1>9. g # R /\ Len(g) - Len(R) = 1
    BY <1>4
  <1> QED
    BY <1>0, <1>3, <1>4, <1>5, <1>6, <1>8, <1>9, Zenon DEF IsSuffix, Labelled

\* The key of a name below root R, and FQDN of it.
LEMMA HostFacts ==
    ASSUME NEW R \in Seq(Label), NEW h
    PROVE  /\ KeyUnder(h, R) # <<>> => Reachable(KeyUnder(h, R))
           /\ \A k \in Seq(Label) :
                  Reachable(k) /\ h = FQDN(k, R) => KeyUnder(h, R) = k
  <1>1. ASSUME KeyUnder(h, R) # <<>> PROVE Reachable(KeyUnder(h, R))
    <2>1. \/ KeyUnder(h, R) = Apex
          \/ h[1] # Nil /\ KeyUnder(h, R) = <<h[1]>>
      <3>1. PICK n : n = Len(h) - Len(R)
        OBVIOUS
      <3>2. KeyUnder(h, R) =
                CASE h = R                   -> Apex
                  [] n > 0 /\ IsSuffix(R, h) ->
                         IF n > 1 THEN BadHost ELSE IF h[1] = Nil THEN Apex ELSE <<h[1]>>
                  [] OTHER                   -> BadHost
        BY <3>1, Zenon DEF KeyUnder, Nil
      <3>3. BadHost = <<>>
        BY Zenon DEF BadHost
      <3>4. ~(h = R /\ n > 0)
        BY <3>1
      <3> QED
        BY <1>1, <3>2, <3>3, <3>4, Zenon
    <2>2. ASSUME NEW x, x # Nil PROVE Reachable(<<x>>)
      <3>1. PICK k : k = <<x>> /\ Len(k) = 1 /\ k[1] = x
        <4>1. Len(<<x>>) = 1 /\ <<x>>[1] = x
          OBVIOUS
        <4> QED
          BY <4>1, Zenon
      <3> QED
        BY <2>2, <3>1, Zenon DEF Reachable, Nil
    <2>3. Reachable(Apex)
      BY Zenon DEF Reachable
    <2> QED
      BY <2>1, <2>2, <2>3, Zenon
  <1>2. ASSUME NEW k \in Seq(Label), Reachable(k), h = FQDN(k, R)
        PROVE  KeyUnder(h, R) = k
    <2>1. CASE k = Apex
      <3>1. h = R
        BY <1>2, <2>1, Zenon DEF FQDN
      <3>2. ~(Len(R) - Len(R) > 0)
        OBVIOUS
      <3> QED
        BY <2>1, <3>1, <3>2, Zenon DEF KeyUnder
    <2>2. CASE k # Apex
      <3>1. Len(k) = 1 /\ k[1] # Nil
        BY <1>2, <2>2, Zenon DEF Reachable, Nil
      <3>2. PICK l \in Label : l = k[1] /\ k = <<l>>
        BY <3>1
      <3>3. h = <<l>> \o R
        BY <1>2, <2>2, <3>2, Zenon DEF FQDN
      <3>4. h # R /\ Len(h) - Len(R) = 1 /\ h[1] = l /\ IsSuffix(R, h)
        <4>1. Labelled(<<l>> \o R, l, R)
          BY LabelBefore
        <4> QED
          BY <3>3, <4>1, Zenon DEF Labelled
      <3>5. 1 > 0 /\ ~(1 > 1)
        OBVIOUS
      <3>6. Len(h) - Len(R) > 0 /\ ~(Len(h) - Len(R) > 1)
        BY <3>4, <3>5, Zenon
      <3>7. KeyUnder(h, R) = IF h[1] = Nil THEN Apex ELSE <<h[1]>>
        BY <3>4, <3>6, Zenon DEF KeyUnder, Nil
      <3> QED
        BY <3>1, <3>2, <3>4, <3>7, Zenon
    <2> QED
      BY <2>1, <2>2
  <1> QED
    BY <1>1, <1>2, Zenon

-----------------------------------------------------------------------------
(* What the routes promise.                                                *)

\* A forwarded request went to the most specific covering route.
THEOREM LongestMatch == Spec => []MatchIsLongest
  <1>1. RoutingInv => MatchIsLongest
    <2> SUFFICES ASSUME RoutingInv, visit = "forwarded"
                 PROVE  /\ target \in Covering(request.key, request.path)
                        /\ \A i \in Covering(request.key, request.path) :
                               Depth(bindings[i].prefix) <= Depth(bindings[target].prefix)
      BY DEF MatchIsLongest
    <2>1. visit # "idle"
      OBVIOUS
    <2> QED
      BY <2>1, VisitFacts DEF Covering, Covers
  <1> QED
    BY <1>1, RoutingCorrect, PTL

\* The control plane takes no canonical path below a binding's prefix.
THEOREM NotShadowed == Spec => []PrefixNotShadowed
  <1>1. RoutingInv => PrefixNotShadowed
    <2> SUFFICES ASSUME RoutingInv, NEW i \in DOMAIN bindings,
                        bindings[i].prefix \notin {<<>>, Root},
                        request.path = Clean(request.path),
                        request.key = bindings[i].host,
                        IsPrefix(bindings[i].prefix, request.path)
                 PROVE  target \notin {Control, NoRoute}
      BY Zenon DEF PrefixNotShadowed
    <2>1. stage = "serving"
      BY NothingBound, Zenon
    <2>2. PICK p \in Seq(STRING) : p = request.path
      BY Zenon DEF RoutingInv, TargetOK
    <2>3. ConfigInv /\ TablesOK /\ Normalized(bindings)
      BY <2>1, ServingFacts DEF RoutingInv
    <2>4. Clean(p) = p /\ IsPrefix(bindings[i].prefix, p)
      BY <2>2, Zenon
    <2>5. Serve(bindings[i].host, p) = i
      BY <2>1, <2>3, <2>4, SpecificRouteWins
    <2>6. p # <<>>
      BY <2>4, CleanPath
    <2>7. target = Serve(request.key, request.path)
      BY <2>1, <2>2, <2>6, Zenon DEF RoutingInv, TargetOK
    <2>8. target = i
      BY <2>2, <2>5, <2>7, Zenon
    <2>9. i \notin {Control, NoRoute}
      BY <2>3, PositionFacts
    <2> QED
      BY <2>8, <2>9, Zenon
  <1> QED
    BY <1>1, RoutingCorrect, PTL

\* Stripping undoes rewriteLocation across two requests.
THEOREM RedirectsArrive == Spec => []CanonicalRedirectArrives
  <1>1. RoutingInv => CanonicalRedirectArrives
    BY DEF RoutingInv
  <1> QED
    BY <1>1, RoutingCorrect, PTL

\* rewriteCookiePath neither loses nor leaks a session.
THEOREM CookiesFollow == Spec => []CookieFollowsRoute
  <1>1. RoutingInv => CookieFollowsRoute
    <2> DEFINE inner == IF sent.cookie.parts = <<>> THEN Root ELSE sent.cookie.parts
    <2> SUFFICES ASSUME RoutingInv, visit = "answered", StripOf(target) \notin {<<>>, Root},
                        sent.cookie # NoPath
                 PROVE  /\ ~Under(Clean(inner), StripOf(target)) =>
                               \A b \in {Clean(p) : p \in RequestPaths} :
                                   PathMatch(b, inner) =>
                                       PathMatch(PublicPath(StripOf(target), b), got.cookie.parts)
                        /\ got.cookie.slash /\ IsPrefix(StripOf(target), got.cookie.parts)
      BY Zenon DEF CookieFollowsRoute
    <2>1. visit # "idle"
      OBVIOUS
    <2>2. Normalized(bindings) /\ target \in DOMAIN bindings
      BY <2>1, VisitFacts
    <2>3. PICK q \in Seq(STRING) : /\ q = StripOf(target) /\ q # <<>> /\ q # Root
                                   /\ Canonical(q)
      BY <2>2, StripFacts
    <2>4. Plain(q)
      BY <2>3, Zenon DEF Canonical
    <2>5. PICK X : X = STRING
      OBVIOUS
    <2>6. Nil \in X /\ q \in Seq(X)
      BY <2>5, PathFacts, Zenon
    <2>7. Root \in Seq(X) /\ Root # <<>>
      BY <2>6, RootFacts
    <2>8. sent.cookie.parts \in Seq(X) /\ got.cookie = RewriteCookiePath(q, sent.cookie)
      <3>1. sent.cookie \in CookiePaths
        BY Zenon DEF RoutingInv, AnswerOK
      <3>2. got.cookie = IF q = <<>> \/ sent.cookie = NoPath THEN sent.cookie
                         ELSE RewriteCookiePath(q, sent.cookie)
        BY <2>3, Zenon DEF RoutingInv, AnswerOK
      <3>3. sent.cookie \in [slash : BOOLEAN, parts : Seq(X)]
        BY <2>5, <3>1, InputAssumption, Zenon
      <3>4. sent.cookie.parts \in Seq(X)
        BY <3>3
      <3> QED
        BY <2>3, <3>2, <3>4, Zenon
    <2>9. PICK c \in Seq(X) : c = inner /\ c # <<>>
      BY <2>7, <2>8, Zenon
    <2>10. got.cookie.slash /\ got.cookie.parts = PrependPublicPath(q, c)
      <3>1. got.cookie = [slash |-> TRUE, parts |-> PrependPublicPath(q, c)]
        BY <2>8, <2>9, Zenon DEF RewriteCookiePath
      <3> QED
        BY <3>1
    <2>11. IsPrefix(q, PrependPublicPath(q, c))
      BY <2>6, PrependFacts
    <2>12. ASSUME ~Under(Clean(c), q), NEW b \in {Clean(p) : p \in RequestPaths},
                  PathMatch(b, c)
           PROVE  PathMatch(PublicPath(q, b), PrependPublicPath(q, c))
      <3>1. PICK p \in Seq(STRING) : b = Clean(p)
        BY InputAssumption, Zenon
      <3>2. b \in Seq(STRING) /\ Canonical(b)
        BY <3>1, CleanPath
      <3>3. PICK d \in Seq(X) : d = b
        BY <2>5, <3>2, Zenon
      <3>4. Canonical(d) /\ PathMatch(d, c)
        BY <2>12, <3>2, <3>3, Zenon
      <3>5. PathMatch(PublicPath(q, d), PrependPublicPath(q, c))
        BY <2>3, <2>4, <2>6, <2>9, <2>12, <3>4, CookieReaches
      <3> QED
        BY <3>3, <3>5, Zenon
    <2> HIDE DEF inner
    <2> QED
      BY <2>3, <2>9, <2>10, <2>11, <2>12, Zenon
  <1> QED
    BY <1>1, RoutingCorrect, PTL

\* autocert issues certificates for the names of the bound subdomains that
\* HostKey can return, and for no others.
THEOREM CertificatesForBoundHosts == Spec => []CertOnlyForBoundHosts
  <1>1. RoutingInv => CertOnlyForBoundHosts
    <2> SUFFICES ASSUME RoutingInv, stage = "serving", NEW host \in HostHeaders
                 PROVE  AllowedHosts(bindings, host) <=>
                            /\ ~file.padded
                            /\ \E k \in Keys(bindings) :
                                   /\ Reachable(k)
                                   /\ LowerHost(host) = FQDN(k, LowerHost(RootDomain))
      BY Zenon DEF CertOnlyForBoundHosts
    <2>1. Normalized(bindings) /\ cfg.padded = file.padded
      BY ServingFacts DEF RoutingInv
    <2>2. \A k \in Keys(bindings) : k \in Seq(Label) /\ k # <<>>
      BY <2>1, Zenon DEF Keys, Normalized
    <2>3. PICK R, h : R = LowerHost(RootDomain) /\ h = LowerHost(host)
      OBVIOUS
    <2>4. R \in Seq(Label)
      <3>1. PICK d \in Seq(Label) : d = RootDomain
        BY InputAssumption
      <3>2. Lower \in [Label -> Label]
        BY InputAssumption
      <3>3. LowerHost(d) \in Seq(Label)
        BY <3>2 DEF LowerHost
      <3> QED
        BY <2>3, <3>1, <3>3, Zenon
    <2>5. HostKey(host) = KeyUnder(h, R)
      BY <2>3, Zenon DEF HostKey
    <2>6. /\ KeyUnder(h, R) # <<>> => Reachable(KeyUnder(h, R))
          /\ \A k \in Seq(Label) : Reachable(k) /\ h = FQDN(k, R) => KeyUnder(h, R) = k
      BY <2>4, HostFacts
    <2>7. AllowedHosts(bindings, host) <=>
              KeyUnder(h, R) \in Keys(bindings) /\ ~file.padded /\ h = FQDN(KeyUnder(h, R), R)
      BY <2>1, <2>3, <2>5, Zenon DEF AllowedHosts
    <2> QED
      BY <2>2, <2>3, <2>6, <2>7, Zenon
  <1> QED
    BY <1>1, RoutingCorrect, PTL
=============================================================================
