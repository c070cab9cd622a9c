----------------------------- MODULE TopologyProofs ---------------------------
(***************************************************************************)
(* What the operators of Topology compute, for every body: lemmas the      *)
(* proofs about clients of a body and about the constructors rest on.      *)
(*                                                                         *)
(* The walk of validate() is a recursive function over its rounds.  The    *)
(* proofs show that the function exists, take its rounds one by one and    *)
(* conclude by induction over the rounds.                                  *)
(***************************************************************************)
EXTENDS Topology, StreamProofs, WellFoundedInduction

------------------------------------------------------------------------------
(* Numbers and sequences *)

\* A set of naturals has a least element.
LEMMA Least ==
  ASSUME NEW S \in SUBSET Nat, S # {}
  PROVE  \E m \in S : \A i \in S : m <= i
<1>1. PICK m \in S : \A i \in S : ~(<<i, m>> \in OpToRel(<, Nat))
  BY WFMin, NatLessThanWellFounded
<1>2. ASSUME NEW i \in S PROVE ~(i < m)
  <2>1. <<i, m>> \in Nat \X Nat
    OBVIOUS
  <2> QED BY <1>1, <2>1 DEF OpToRel
<1> QED BY <1>2

\* A set of places has a last one.
LEMMA Greatest ==
  ASSUME NEW n \in Nat, NEW S \in SUBSET (1..n), S # {}
  PROVE  \E m \in S : \A i \in S : i <= m
<1>1. PICK T : T = {n - i : i \in S}
  OBVIOUS
<1>2. T \in SUBSET Nat /\ T # {}
  <2>1. \A i \in S : n - i \in Nat
    OBVIOUS
  <2>2. T \in SUBSET Nat
    BY ONLY <1>1, <2>1, Zenon
  <2>3. T # {}
    BY <1>1, Zenon
  <2> QED BY <2>2, <2>3
<1>3. PICK k \in T : \A i \in T : k <= i
  BY <1>2, Least
<1>4. PICK m \in S : k = n - m
  BY <1>1
<1>5. ASSUME NEW i \in S PROVE i <= m
  <2>1. n - i \in T
    BY <1>1
  <2>2. n - m <= n - i
    BY <1>3, <1>4, <2>1
  <2> QED BY <2>2
<1> QED BY <1>5

\* A new last element changes none of the others.
LEMMA AppendOne ==
  ASSUME NEW T, NEW s \in Seq(T), NEW x \in T
  PROVE  /\ Append(s, x) \in Seq(T)
         /\ DOMAIN s \subseteq DOMAIN Append(s, x)
         /\ \A i \in DOMAIN Append(s, x) :
              \/ i \in DOMAIN s /\ Append(s, x)[i] = s[i]
              \/ Append(s, x)[i] = x
  OBVIOUS

\* A new value for one element changes none of the others.
LEMMA PutOne ==
  ASSUME NEW T, NEW s \in Seq(T), NEW i \in DOMAIN s, NEW x \in T
  PROVE  LET n == [s EXCEPT ![i] = x]
         IN  /\ n \in Seq(T)
             /\ DOMAIN n = DOMAIN s
             /\ \A j \in DOMAIN s : n[j] = IF j = i THEN x ELSE s[j]
  OBVIOUS

\* Places are naturals.
LEMMA PlacesAreNaturals ==
  ASSUME NEW T, NEW s \in Seq(T)
  PROVE  DOMAIN s \subseteq Nat
  OBVIOUS

\* A function on the places of a sequence is a sequence of its values.
LEMMA SamePlaces ==
  ASSUME NEW S, NEW T, NEW s \in Seq(S), NEW n, n = [i \in DOMAIN s |-> n[i]],
         \A i \in DOMAIN s : n[i] \in T
  PROVE  n \in Seq(T) /\ DOMAIN n = DOMAIN s
  OBVIOUS

\* link_loop() relinks the coedges before the first dead one.
LEMMA LinkedProperties ==
  ASSUME NEW b, NEW ces \in Seq(Nat)
  PROVE  /\ Linked(b, ces) \in 0 .. Len(ces)
         /\ \A i \in 1 .. Linked(b, ces) : Live(b.coedges, ces[i])
         /\ Linked(b, ces) < Len(ces) =>
              ~Live(b.coedges, ces[Linked(b, ces) + 1])
  <1> DEFINE P(n) == /\ \A i \in 1..n : Live(b.coedges, ces[i])
                     /\ n < Len(ces) => ~Live(b.coedges, ces[n + 1])
  <1>1. \E n \in 0 .. Len(ces) : P(n)
    <2>1. PICK S : S = {i \in 1 .. Len(ces) : ~Live(b.coedges, ces[i])}
      OBVIOUS
    <2>2. CASE S = {}
      <3>1. P(Len(ces))
        BY <2>1, <2>2
      <3> QED BY <3>1
    <2>3. CASE S # {}
      <3>0. S \in SUBSET Nat
        BY <2>1
      <3>1. PICK m \in S : \A i \in S : m <= i
        BY <2>3, <3>0, Least
      <3>2. m \in 1 .. Len(ces) /\ ~Live(b.coedges, ces[m])
        BY <2>1, <3>1
      <3>3. m - 1 \in 0 .. Len(ces) /\ (m - 1) + 1 = m
        BY <3>2
      <3>4. ASSUME NEW i \in 1 .. (m - 1) PROVE Live(b.coedges, ces[i])
        <4>1. i \in 1 .. Len(ces) /\ ~(m <= i)
          BY <3>2
        <4> QED BY <2>1, <3>1, <4>1
      <3> QED BY <3>2, <3>3, <3>4
    <2> QED BY <2>2, <2>3
  <1>2. Linked(b, ces) = CHOOSE n \in 0 .. Len(ces) : P(n)
    BY Zenon DEF Linked
  <1>3. Linked(b, ces) \in 0 .. Len(ces) /\ P(Linked(b, ces))
    BY <1>1, <1>2, Zenon
  <1> QED BY <1>3

------------------------------------------------------------------------------
(* The rounds of a walk *)

FirstRound(start) == [cur |-> start, seen |-> {}, end |-> "walks on"]

WalkEquation(b, start, at) ==
  at = [steps \in Nat |-> IF steps = 0 THEN FirstRound(start)
                          ELSE WalkRound(b, start, at[steps - 1], steps)]

Rounds(b, start, at) ==
  /\ at[0] = FirstRound(start)
  /\ \A n \in Nat : at[n + 1] = WalkRound(b, start, at[n], n + 1)

\* The rounds up to the n-th
Prefix(b, start, n, g) ==
  /\ g[0] = FirstRound(start)
  /\ \A i \in 0..n - 1 : g[i + 1] = WalkRound(b, start, g[i], i + 1)

\* There are rounds up to any number.
LEMMA PrefixExists ==
  ASSUME NEW b, NEW start
  PROVE  \A n \in Nat : \E g : Prefix(b, start, n, g)
<1> DEFINE T == {n \in Nat : \E g : Prefix(b, start, n, g)}
<1>1. 0 \in T
  <2> DEFINE g == [i \in 0..0 |-> FirstRound(start)]
  <2>1. Prefix(b, start, 0, g)
    BY DEF Prefix
  <2> HIDE DEF g
  <2> QED BY <2>1
<1>2. ASSUME NEW n \in Nat, n \in T PROVE n + 1 \in T
  <2>1. PICK f : Prefix(b, start, n, f)
    BY <1>2
  <2> DEFINE g == [i \in 0..n + 1 |-> IF i = n + 1 THEN WalkRound(b, start, f[n], n + 1)
                                                  ELSE f[i]]
  <2>2. \A i \in 0..n : g[i] = f[i]
    OBVIOUS
  <2>3. g[n + 1] = WalkRound(b, start, f[n], n + 1)
    OBVIOUS
  <2> HIDE DEF g
  <2>4. g[0] = FirstRound(start)
    BY <2>1, <2>2 DEF Prefix
  <2>5. ASSUME NEW i \in 0..(n + 1) - 1 PROVE g[i + 1] = WalkRound(b, start, g[i], i + 1)
    <3>1. CASE i = n
      BY <2>2, <2>3, <3>1
    <3>2. CASE i # n
      <4>1. i \in 0..n - 1 /\ i \in 0..n /\ i + 1 \in 0..n
        BY <3>2
      <4>2. f[i + 1] = WalkRound(b, start, f[i], i + 1)
        BY <2>1, <4>1 DEF Prefix
      <4> QED BY <2>2, <4>1, <4>2
    <3> QED BY <3>1, <3>2
  <2>6. Prefix(b, start, n + 1, g)
    BY <2>4, <2>5 DEF Prefix
  <2> QED BY <2>6
<1>3. Nat \subseteq T
  <2> HIDE DEF T
  <2> QED BY <1>1, <1>2, NatSets
<1> QED BY <1>3

\* Two such walks are the same as far as both go.
LEMMA PrefixUnique ==
  ASSUME NEW b, NEW start, NEW n \in Nat, NEW f, NEW g,
         Prefix(b, start, n, f), Prefix(b, start, n + 1, g)
  PROVE  f[n] = g[n]
<1> DEFINE T == {i \in Nat : i <= n => f[i] = g[i]}
<1>1. 0 \in T
  BY DEF Prefix
<1>2. ASSUME NEW i \in Nat, i \in T PROVE i + 1 \in T
  <2> SUFFICES ASSUME i + 1 <= n PROVE f[i + 1] = g[i + 1]
    BY DEF T
  <2>1. f[i] = g[i] /\ i \in 0..n - 1 /\ i \in 0..(n + 1) - 1
    BY <1>2
  <2> QED BY <2>1 DEF Prefix
<1>3. Nat \subseteq T
  <2> HIDE DEF T
  <2> QED BY <1>1, <1>2, NatSets
<1> QED BY <1>3

\* The equation that defines the rounds has a solution.
LEMMA WalkExists ==
  ASSUME NEW b, NEW start
  PROVE  \E at : WalkEquation(b, start, at)
<1> DEFINE pre(n) == CHOOSE g : Prefix(b, start, n, g)
           at == [n \in Nat |-> pre(n)[n]]
<1>1. ASSUME NEW n \in Nat PROVE Prefix(b, start, n, pre(n))
  BY PrefixExists
<1>2. \A n \in Nat : at[n] = pre(n)[n]
  OBVIOUS
<1> HIDE DEF pre
<1>3. at[0] = FirstRound(start)
  BY <1>1, <1>2 DEF Prefix
<1>4. ASSUME NEW n \in Nat PROVE at[n + 1] = WalkRound(b, start, at[n], n + 1)
  <2>1. Prefix(b, start, n, pre(n)) /\ Prefix(b, start, n + 1, pre(n + 1))
    BY <1>1
  <2>2. pre(n)[n] = pre(n + 1)[n]
    BY <2>1, PrefixUnique
  <2>3. pre(n + 1)[n + 1] = WalkRound(b, start, pre(n + 1)[n], n + 1)
    <3>1. n \in 0..(n + 1) - 1
      OBVIOUS
    <3> QED BY <2>1, <3>1 DEF Prefix
  <2> QED BY <1>2, <2>2, <2>3
<1> HIDE DEF at
<1>5. ASSUME NEW n \in Nat
      PROVE  at[n] = IF n = 0 THEN FirstRound(start) ELSE WalkRound(b, start, at[n - 1], n)
  <2>1. CASE n = 0
    BY <1>3, <2>1
  <2>2. CASE n # 0
    <3>1. n - 1 \in Nat /\ (n - 1) + 1 = n
      BY <2>2
    <3> QED BY <1>4, <2>2, <3>1
  <2> QED BY <2>1, <2>2
<1>6. WalkEquation(b, start, at)
  <2>1. at = [n \in Nat |-> at[n]]
    BY DEF at
  <2> QED BY <1>5, <2>1 DEF WalkEquation
<1> QED BY <1>6

\* Walk is the round its bound names.
LEMMA WalkRounds ==
  ASSUME NEW b, NEW start
  PROVE  \E at : Rounds(b, start, at) /\ Walk(b, start) = at[Len(b.coedges) + 5]
<1> DEFINE at == CHOOSE f : WalkEquation(b, start, f)
<1>1. WalkEquation(b, start, at)
  BY WalkExists
<1>2. Walk(b, start) = at[Len(b.coedges) + 5]
  BY DEF Walk, WalkEquation, FirstRound
<1> HIDE DEF at
<1>3. \A n \in Nat : at[n] = IF n = 0 THEN FirstRound(start)
                             ELSE WalkRound(b, start, at[n - 1], n)
  BY <1>1 DEF WalkEquation
<1>4. Rounds(b, start, at)
  <2>1. at[0] = FirstRound(start)
    BY <1>3
  <2>2. ASSUME NEW n \in Nat PROVE at[n + 1] = WalkRound(b, start, at[n], n + 1)
    <3>1. n + 1 \in Nat /\ n + 1 # 0 /\ (n + 1) - 1 = n
      OBVIOUS
    <3> QED BY <1>3, <3>1
  <2> QED BY <2>1, <2>2 DEF Rounds
<1> QED BY <1>2, <1>4

------------------------------------------------------------------------------
(* Where a walk can be *)

NextOf(b, S) == {b.coedges[c].next : c \in S}

\* S is a set of coedges with live edges that next permutes.
Permuted(b, S) ==
  /\ S \subseteq DOMAIN b.coedges
  /\ \A c \in S : Live(b.edges, b.coedges[c].edge)
  /\ NextOf(b, S) = S

\* After n rounds without an end the walk has seen n coedges: the start and the
\* successors of all of them but the last, whose successor it stands at.
OnTheWay(b, start, n, r) ==
  /\ r.seen \subseteq DOMAIN b.coedges
  /\ \A c \in r.seen : Live(b.edges, b.coedges[c].edge)
  /\ Cardinality(r.seen) = n
  /\ NextOf(b, r.seen) \cup {start} = r.seen \cup {r.cur}
  /\ start \notin NextOf(b, r.seen)

Troubles == {"failed to close", "invalid coedge", "visited twice", "invalid edge"}

RoundGood(b, start, n, r) ==
  /\ r.end \in {"walks on", "closed"} \cup Troubles
  /\ r.end # "failed to close"
  /\ r.end = "walks on" => OnTheWay(b, start, n, r)
  /\ r.end = "closed" => Permuted(b, r.seen) /\ start \in r.seen

\* A walk sees no more coedges than there are.
LEMMA SeenBounded ==
  ASSUME NEW b, b.coedges \in Seq(Coedge), NEW start, NEW n, NEW r,
         OnTheWay(b, start, n, r)
  PROVE  IsFiniteSet(r.seen) /\ n \in Nat /\ n <= Len(b.coedges)
<1>1. PICK N \in Nat : N = Len(b.coedges) /\ DOMAIN b.coedges = 1..N
  OBVIOUS
<1>2. IsFiniteSet(1..N) /\ Cardinality(1..N) = N
  BY FS_Interval
<1>3. r.seen \in SUBSET (1..N) /\ Cardinality(r.seen) = n
  BY <1>1 DEF OnTheWay
<1>4. IsFiniteSet(r.seen) /\ Cardinality(r.seen) <= Cardinality(1..N)
  BY <1>2, <1>3, FS_Subset
<1>5. Cardinality(r.seen) \in Nat
  BY <1>4, FS_CardinalityType
<1> QED BY <1>1, <1>2, <1>3, <1>4, <1>5

\* One round keeps the walk good.
LEMMA RoundKeeps ==
  ASSUME NEW b, b.coedges \in Seq(Coedge), NEW start, NEW n \in Nat, NEW r,
         r = [cur |-> r.cur, seen |-> r.seen, end |-> r.end],
         RoundGood(b, start, n, r)
  PROVE  LET q == WalkRound(b, start, r, n + 1)
         IN  /\ RoundGood(b, start, n + 1, q)
             /\ q = [cur |-> q.cur, seen |-> q.seen, end |-> q.end]
<1>1. PICK q : q = WalkRound(b, start, r, n + 1)
  OBVIOUS
<1>2. PICK t : t = Trouble(b, r.cur, r.seen, n + 1)
  OBVIOUS
<1>3. CASE r.end # "walks on"
  <2>1. q = r
    BY <1>1, <1>3 DEF WalkRound
  <2> QED BY <1>1, <1>3, <2>1 DEF RoundGood
<1>4. CASE r.end = "walks on" /\ t # "none"
  <2>1. q = [r EXCEPT !.end = t]
    BY <1>1, <1>2, <1>4 DEF WalkRound
  <2>2. OnTheWay(b, start, n, r)
    BY <1>4 DEF RoundGood
  <2>3. n <= Len(b.coedges) /\ Len(b.coedges) \in Nat
    BY <2>2, SeenBounded
  <2>4. t \in Troubles /\ t # "failed to close"
    <3>1. ~(n + 1 > Len(b.coedges) + 4)
      BY <2>3
    <3>2. t \in {"invalid coedge", "visited twice", "invalid edge"}
      BY <1>2, <1>4, <3>1, Zenon DEF Trouble
    <3> QED BY <3>2 DEF Troubles
  <2>5. q.end = t /\ q = [cur |-> r.cur, seen |-> r.seen, end |-> t]
    BY <2>1
  <2>6. RoundGood(b, start, n + 1, q)
    BY <2>4, <2>5 DEF RoundGood, Troubles
  <2> QED BY <1>1, <2>5, <2>6
<1>5. CASE r.end = "walks on" /\ t = "none"
  <2>1. PICK next : next = b.coedges[r.cur].next
    OBVIOUS
  <2>2. q = [cur |-> next, seen |-> r.seen \cup {r.cur},
             end |-> IF next = start THEN "closed" ELSE "walks on"]
    BY <1>1, <1>2, <1>5, <2>1 DEF WalkRound
  <2>3. OnTheWay(b, start, n, r)
    BY <1>5 DEF RoundGood
  <2>4. /\ Live(b.coedges, r.cur) /\ r.cur \notin r.seen
        /\ Live(b.edges, b.coedges[r.cur].edge)
    BY <1>2, <1>5 DEF Trouble
  <2>5. /\ q.cur = next /\ q.seen = r.seen \cup {r.cur}
        /\ q.end = IF next = start THEN "closed" ELSE "walks on"
        /\ q = [cur |-> q.cur, seen |-> q.seen, end |-> q.end]
    BY <2>2
  <2>6. /\ q.seen \subseteq DOMAIN b.coedges
        /\ \A c \in q.seen : Live(b.edges, b.coedges[c].edge)
    BY <2>3, <2>4, <2>5 DEF OnTheWay, Live
  <2>7. NextOf(b, q.seen) = NextOf(b, r.seen) \cup {next}
    BY <2>1, <2>5 DEF NextOf
  <2>8. CASE next = start
    <3>1. NextOf(b, q.seen) = q.seen /\ start \in q.seen
      BY <2>3, <2>5, <2>7, <2>8 DEF OnTheWay
    <3>2. RoundGood(b, start, n + 1, q)
      BY <2>5, <2>6, <2>8, <3>1 DEF RoundGood, Permuted
    <3> QED BY <1>1, <2>5, <3>2
  <2>9. CASE next # start
    <3>1. /\ NextOf(b, q.seen) \cup {start} = q.seen \cup {q.cur}
          /\ start \notin NextOf(b, q.seen)
      BY <2>3, <2>5, <2>7, <2>9 DEF OnTheWay
    <3>2. Cardinality(q.seen) = n + 1
      <4>1. IsFiniteSet(r.seen) /\ Cardinality(r.seen) = n
        BY <2>3, SeenBounded DEF OnTheWay
      <4> QED BY <2>4, <2>5, <4>1, FS_AddElement
    <3>3. OnTheWay(b, start, n + 1, q)
      BY <2>6, <3>1, <3>2 DEF OnTheWay
    <3>4. RoundGood(b, start, n + 1, q)
      BY <2>5, <2>9, <3>3 DEF RoundGood
    <3> QED BY <1>1, <2>5, <3>4
  <2> QED BY <2>8, <2>9
<1> QED BY <1>3, <1>4, <1>5

IsRound(r) == r = [cur |-> r.cur, seen |-> r.seen, end |-> r.end]

\* So the walk is good at every round.
LEMMA WalkGood ==
  ASSUME NEW b, b.coedges \in Seq(Coedge), NEW start, NEW at, Rounds(b, start, at)
  PROVE  \A n \in Nat : RoundGood(b, start, n, at[n]) /\ IsRound(at[n])
<1> DEFINE T == {n \in Nat : RoundGood(b, start, n, at[n]) /\ IsRound(at[n])}
<1>1. 0 \in T
  <2>1. PICK r : r = at[0]
    OBVIOUS
  <2>2. r.cur = start /\ r.seen = {} /\ r.end = "walks on" /\ IsRound(r)
    <3>1. r = FirstRound(start)
      BY ONLY <2>1, Rounds(b, start, at) DEF Rounds
    <3> QED BY ONLY <3>1 DEF FirstRound, IsRound
  <2>3. NextOf(b, {}) = {}
    BY DEF NextOf
  <2>4. OnTheWay(b, start, 0, r)
    BY <2>2, <2>3, FS_EmptySet DEF OnTheWay
  <2>5. RoundGood(b, start, 0, r)
    BY <2>2, <2>4 DEF RoundGood
  <2> QED BY <2>1, <2>2, <2>5
<1>2. ASSUME NEW n \in Nat, n \in T PROVE n + 1 \in T
  <2>1. PICK r : r = at[n]
    OBVIOUS
  <2>2. RoundGood(b, start, n, r) /\ IsRound(r)
    BY <1>2, <2>1
  <2>3. PICK q : q = WalkRound(b, start, r, n + 1)
    OBVIOUS
  <2>4. RoundGood(b, start, n + 1, q) /\ IsRound(q)
    BY <2>2, <2>3, RoundKeeps DEF IsRound
  <2>5. at[n + 1] = q
    BY <2>1, <2>3 DEF Rounds
  <2> QED BY <2>4, <2>5
<1>3. Nat \subseteq T
  <2> HIDE DEF T
  <2> QED BY <1>1, <1>2, NatSets
<1> QED BY <1>3

\* In a set that next permutes a walk never comes back to a coedge it has seen
\* before it comes back to the start: next would map what it has seen one to one
\* into itself without the start.
LEMMA NoWayBack ==
  ASSUME NEW b, b.coedges \in Seq(Coedge), NEW start, NEW n, NEW r, NEW S,
         OnTheWay(b, start, n, r), Permuted(b, S), r.seen \subseteq S
  PROVE  r.cur \notin r.seen
<1> SUFFICES ASSUME r.cur \in r.seen PROVE FALSE
  OBVIOUS
<1>1. PICK R : R = r.seen
  OBVIOUS
<1>2. NextOf(b, R) \cup {start} = R /\ start \notin NextOf(b, R) /\ R \subseteq S
  BY <1>1 DEF OnTheWay
<1>3. IsFiniteSet(S)
  <2>1. DOMAIN b.coedges = 1..Len(b.coedges) /\ Len(b.coedges) \in Nat
    OBVIOUS
  <2>2. IsFiniteSet(1..Len(b.coedges))
    BY <2>1, FS_Interval
  <2> QED BY <2>1, <2>2, FS_Subset DEF Permuted
<1>4. IsFiniteSet(R)
  BY <1>2, <1>3, FS_Subset
<1> DEFINE f == [c \in S |-> b.coedges[c].next]
           g == [c \in R |-> b.coedges[c].next]
<1>5. f \in Injection(S, S)
  <2>1. f \in Surjection(S, S)
    BY DEF Surjection, Permuted, NextOf
  <2> HIDE DEF f
  <2> QED BY <1>3, <2>1, FS_Surjection
<1>6. \A c, d \in S : b.coedges[c].next = b.coedges[d].next => c = d
  BY <1>5 DEF Injection, IsInjective
<1>7. g \in Injection(R, R)
  <2>1. \A c \in R : b.coedges[c].next \in R
    BY <1>2 DEF NextOf
  <2>2. g \in [R -> R]
    BY <2>1
  <2>3. \A c, d \in R : g[c] = g[d] => c = d
    BY <1>2, <1>6
  <2> HIDE DEF g
  <2> QED BY <2>2, <2>3 DEF Injection, IsInjective
<1>8. g \in Surjection(R, R)
  <2> HIDE DEF g
  <2> QED BY <1>4, <1>7, FS_Injection
<1>9. start \in R
  BY <1>2
<1>10. PICK c \in R : g[c] = start
  <2> HIDE DEF g
  <2> QED BY <1>8, <1>9 DEF Surjection
<1>11. start \in NextOf(b, R)
  BY <1>10 DEF NextOf
<1> QED BY <1>2, <1>11

\* Within such a set
Inside(S, r) ==
  /\ r.end \in {"walks on", "closed"}
  /\ r.seen \subseteq S
  /\ r.end = "walks on" => r.cur \in S

\* A walk that starts in a set that next permutes stays in it, without trouble.
LEMMA WalkInside ==
  ASSUME NEW b, b.coedges \in Seq(Coedge), NEW start, NEW at, Rounds(b, start, at),
         NEW S, Permuted(b, S), start \in S
  PROVE  \A n \in Nat : Inside(S, at[n])
<1> DEFINE T == {n \in Nat : Inside(S, at[n])}
<1>1. 0 \in T
  <2>1. PICK r : r = at[0]
    OBVIOUS
  <2>2. r = FirstRound(start)
    BY ONLY <2>1, Rounds(b, start, at) DEF Rounds
  <2>3. r.cur = start /\ r.seen = {} /\ r.end = "walks on"
    BY ONLY <2>2 DEF FirstRound
  <2>4. Inside(S, r)
    BY <2>3 DEF Inside
  <2> QED BY <2>1, <2>4
<1>2. ASSUME NEW n \in Nat, n \in T PROVE n + 1 \in T
  <2>1. PICK r : r = at[n]
    OBVIOUS
  <2>2. Inside(S, r) /\ RoundGood(b, start, n, r)
    BY <1>2, <2>1, WalkGood
  <2>3. PICK q : q = WalkRound(b, start, r, n + 1)
    OBVIOUS
  <2>4. at[n + 1] = q
    BY <2>1, <2>3 DEF Rounds
  <2>5. PICK t : t = Trouble(b, r.cur, r.seen, n + 1)
    OBVIOUS
  <2>6. CASE r.end # "walks on"
    <3>1. q = r
      BY <2>3, <2>6 DEF WalkRound
    <3> QED BY <2>2, <2>4, <3>1
  <2>7. CASE r.end = "walks on"
    <3>1. OnTheWay(b, start, n, r) /\ r.seen \subseteq S /\ r.cur \in S
      BY <2>2, <2>7 DEF RoundGood, Inside
    <3>2. r.cur \notin r.seen
      BY <3>1, NoWayBack
    <3>3. Live(b.coedges, r.cur) /\ Live(b.edges, b.coedges[r.cur].edge)
      BY <3>1 DEF Permuted, Live
    <3>4. n <= Len(b.coedges) /\ Len(b.coedges) \in Nat
      BY <3>1, SeenBounded
    <3>5. t = "none"
      <4>1. ~(n + 1 > Len(b.coedges) + 4)
        BY <3>4
      <4> QED BY <2>5, <3>2, <3>3, <4>1, Zenon DEF Trouble
    <3>6. PICK next : next = b.coedges[r.cur].next
      OBVIOUS
    <3>7. q = [cur |-> next, seen |-> r.seen \cup {r.cur},
               end |-> IF next = start THEN "closed" ELSE "walks on"]
      BY <2>3, <2>5, <2>7, <3>5, <3>6 DEF WalkRound
    <3>8. next \in S
      BY <3>1, <3>6 DEF Permuted, NextOf
    <3>9. Inside(S, q)
      BY <3>1, <3>7, <3>8 DEF Inside
    <3> QED BY <2>4, <3>9
  <2> QED BY <2>6, <2>7
<1>3. Nat \subseteq T
  <2> HIDE DEF T
  <2> QED BY <1>1, <1>2, NatSets
<1> QED BY <1>3

\* What the verdict on a ring says.
LEMMA VerdictExact ==
  ASSUME NEW b, b.coedges \in Seq(Coedge), NEW start
  PROVE  /\ RingVerdict(b, start) = "closed" <=>
              \E S : Permuted(b, S) /\ start \in S
         /\ RingVerdict(b, start) # "failed to close"
         /\ \A S : Permuted(b, S) /\ start \in S => Walk(b, start).seen \subseteq S
<1>1. PICK at : Rounds(b, start, at) /\ Walk(b, start) = at[Len(b.coedges) + 5]
  BY WalkRounds
<1>2. PICK m \in Nat, n \in Nat : /\ m = Len(b.coedges)
                                  /\ n = m + 5
                                  /\ ~(n <= m)
  <2>1. Len(b.coedges) \in Nat
    OBVIOUS
  <2> QED BY <2>1
<1>3. PICK r : r = Walk(b, start) /\ r = at[n]
  BY <1>1, <1>2
<1>4. RoundGood(b, start, n, r)
  BY <1>1, <1>3, WalkGood
<1>5. r.end # "walks on"
  <2> SUFFICES ASSUME r.end = "walks on" PROVE FALSE
    OBVIOUS
  <2>1. OnTheWay(b, start, n, r)
    BY <1>4 DEF RoundGood
  <2>2. n <= m
    BY <1>2, <2>1, SeenBounded
  <2> QED BY <1>2, <2>2, Zenon
<1>6. r.end = "closed" => \E S : Permuted(b, S) /\ start \in S
  BY <1>4 DEF RoundGood
<1>7. ASSUME NEW S, Permuted(b, S), start \in S
      PROVE  r.end = "closed" /\ r.seen \subseteq S
  <2>1. Inside(S, at[n])
    BY <1>1, <1>7, WalkInside
  <2> QED BY <1>3, <1>5, <2>1 DEF Inside
<1>8. r.end # "failed to close"
  BY <1>4 DEF RoundGood
<1> QED BY <1>3, <1>6, <1>7, <1>8 DEF RingVerdict
==============================================================================
