----------------------------- MODULE StreamProofs -----------------------------
(***************************************************************************)
(* What Pick computes, for every stream: the lemmas the servers' proofs    *)
(* about conserved replies rest on.                                        *)
(***************************************************************************)
EXTENDS Streams, Integers, FiniteSets, FiniteSetTheorems, SequenceTheorems,
        TLAPS

\* Induction, with the property as a set of numbers: a number missing from T
\* would make "add one" a one-to-one map of T's part below it that misses 0.
LEMMA NatSets ==
  ASSUME NEW T, 0 \in T, \A n \in Nat : n \in T => n + 1 \in T
  PROVE  Nat \subseteq T
<1> SUFFICES ASSUME NEW n \in Nat, n \notin T PROVE FALSE
  OBVIOUS
<1> DEFINE S == {i \in 0..n : i \in T}
           next == [i \in S |-> i + 1]
<1>1. IsFiniteSet(S)
  <2>1. IsFiniteSet(0..n)
    BY FS_Interval
  <2>2. S \subseteq 0..n
    OBVIOUS
  <2> QED BY <2>1, <2>2, FS_Subset
<1>2. next \in Injection(S, S)
  <2>1. \A i \in S : i + 1 \in S
    OBVIOUS
  <2> QED BY <2>1 DEF Injection, IsInjective
<1>3. next \in Surjection(S, S)
  BY <1>1, <1>2, FS_Injection
<1>4. 0 \in S
  OBVIOUS
<1>5. PICK i \in S : next[i] = 0
  <2> HIDE DEF next, S
  <2> QED BY <1>3, <1>4 DEF Surjection
<1> QED BY <1>5

\* The places in I and in J are the same up to n, or the same one further on.
Agree(I, J, n) == \A i \in 1..n : i \in I <=> i \in J
Follows(J, I, n) == \A i \in 1..n : i \in J <=> i + 1 \in I

\* The steps of Pick: f[i] is what the first i elements give.
PickSteps(s, I, f) ==
  f = [i \in 0..Len(s) |->
         IF i = 0 THEN <<>> ELSE IF i \in I THEN Append(f[i-1], s[i]) ELSE f[i-1]]

\* One more element extends the steps taken so far.
LEMMA PickStepsExtend ==
  ASSUME NEW S, NEW s \in Seq(S), NEW x \in S, NEW I, NEW J, NEW f,
         Agree(I, J, Len(s)), PickSteps(s, I, f)
  PROVE  \E g : /\ PickSteps(Append(s, x), J, g)
                /\ \A i \in 0..Len(s) : g[i] = f[i]
<1> DEFINE n == Len(s)
           t == Append(s, x)
           last == IF n + 1 \in J THEN Append(f[n], x) ELSE f[n]
           g == [i \in 0..n + 1 |-> IF i = n + 1 THEN last ELSE f[i]]
<1>1. n \in Nat /\ Len(t) = n + 1 /\ t[n + 1] = x /\ \A i \in 1..n : t[i] = s[i]
  OBVIOUS
<1>2. \A i \in 0..n : f[i] = IF i = 0 THEN <<>>
                             ELSE IF i \in I THEN Append(f[i-1], s[i]) ELSE f[i-1]
  BY DEF PickSteps
<1>3. \A i \in 0..n : g[i] = f[i]
  BY <1>1
<1>4. ASSUME NEW i \in 0..n + 1
      PROVE  g[i] = IF i = 0 THEN <<>>
                    ELSE IF i \in J THEN Append(g[i-1], t[i]) ELSE g[i-1]
  <2>1. CASE i = n + 1
    BY <2>1, <1>1, <1>3
  <2>2. CASE i = 0
    BY <2>2, <1>1, <1>2
  <2>3. CASE i \in 1..n
    <3>1. g[i] = f[i] /\ g[i-1] = f[i-1] /\ t[i] = s[i] /\ i # 0
      BY <2>3, <1>1, <1>3
    <3>2. f[i] = IF i \in I THEN Append(f[i-1], s[i]) ELSE f[i-1]
      BY <2>3, <1>2, <3>1
    <3> QED BY <2>3, <3>1, <3>2 DEF Agree
  <2> QED BY <2>1, <2>2, <2>3, <1>1
<1>5. PickSteps(t, J, g)
  <2> DEFINE h == [i \in 0..n + 1 |->
                     IF i = 0 THEN <<>>
                     ELSE IF i \in J THEN Append(g[i-1], t[i]) ELSE g[i-1]]
  <2>1. \A i \in 0..n + 1 : g[i] = h[i]
    BY <1>4
  <2>2. g = h
    <3> HIDE DEF last
    <3> QED BY <2>1
  <2> QED BY <2>2, <1>1 DEF PickSteps
<1> QED BY <1>3, <1>5

\* The steps are determined by the stream and the places.
LEMMA PickStepsUnique ==
  ASSUME NEW S, NEW s \in Seq(S), NEW I, NEW f, NEW g,
         PickSteps(s, I, f), PickSteps(s, I, g)
  PROVE  f = g
<1> DEFINE T == {n \in Nat : n <= Len(s) => f[n] = g[n]}
<1>1. Len(s) \in Nat
  OBVIOUS
<1>2. \A i \in 0..Len(s) :
        /\ f[i] = IF i = 0 THEN <<>> ELSE IF i \in I THEN Append(f[i-1], s[i]) ELSE f[i-1]
        /\ g[i] = IF i = 0 THEN <<>> ELSE IF i \in I THEN Append(g[i-1], s[i]) ELSE g[i-1]
  BY DEF PickSteps
<1>3. 0 \in T
  BY <1>1, <1>2
<1>4. ASSUME NEW n \in Nat, n \in T PROVE n + 1 \in T
  <2> SUFFICES ASSUME n + 1 <= Len(s) PROVE f[n + 1] = g[n + 1]
    BY DEF T
  <2>1. f[n] = g[n] /\ n + 1 \in 0..Len(s) /\ n + 1 # 0 /\ (n + 1) - 1 = n
    BY <1>1, <1>4
  <2> QED BY <2>1, <1>2
<1>5. \A i \in 0..Len(s) : f[i] = g[i]
  <2>1. Nat \subseteq T
    <3> HIDE DEF T
    <3> QED BY <1>3, <1>4, NatSets
  <2> QED BY <2>1, <1>1
<1>6. f = [i \in 0..Len(s) |-> f[i]] /\ g = [i \in 0..Len(s) |-> g[i]]
  BY DEF PickSteps
<1> QED BY <1>5, <1>6

\* Every stream has its steps.
LEMMA PickStepsExist ==
  ASSUME NEW S, NEW s \in Seq(S), NEW I
  PROVE  \E f : PickSteps(s, I, f)
<1> DEFINE T == {n \in Nat : \A t \in Seq(S) : Len(t) = n => \E f : PickSteps(t, I, f)}
<1>1. 0 \in T
  <2> SUFFICES ASSUME NEW t \in Seq(S), Len(t) = 0 PROVE \E f : PickSteps(t, I, f)
    OBVIOUS
  <2> DEFINE f == [i \in 0..Len(t) |-> <<>>]
  <2>1. PickSteps(t, I, f)
    BY DEF PickSteps
  <2> QED BY <2>1
<1>2. ASSUME NEW n \in Nat, n \in T PROVE n + 1 \in T
  <2> SUFFICES ASSUME NEW t \in Seq(S), Len(t) = n + 1 PROVE \E f : PickSteps(t, I, f)
    OBVIOUS
  <2> DEFINE u == SubSeq(t, 1, n)
  <2>1. u \in Seq(S) /\ Len(u) = n /\ t[n + 1] \in S
    OBVIOUS
  <2>2. t = Append(u, t[n + 1])
    OBVIOUS
  <2>3. PICK f : PickSteps(u, I, f)
    BY <1>2, <2>1
  <2>4. \E g : PickSteps(Append(u, t[n + 1]), I, g)
    <3>1. Agree(I, I, Len(u))
      BY DEF Agree
    <3> HIDE DEF u
    <3> QED BY <2>1, <2>3, <3>1, PickStepsExtend
  <2> QED BY <2>2, <2>4
<1>3. Nat \subseteq T
  <2> HIDE DEF T
  <2> QED BY <1>1, <1>2, NatSets
<1> QED BY <1>3

\* Pick is the last step.
LEMMA PickIsLast ==
  ASSUME NEW S, NEW s \in Seq(S), NEW I, NEW f, PickSteps(s, I, f)
  PROVE  Pick(s, I) = f[Len(s)]
<1> DEFINE p == CHOOSE g : PickSteps(s, I, g)
<1>1. PickSteps(s, I, p)
  OBVIOUS
<1>2. p = f
  <2> HIDE DEF p
  <2> QED BY <1>1, PickStepsUnique
<1>3. Pick(s, I) = p[Len(s)]
  BY DEF Pick, PickSteps
<1> QED BY <1>2, <1>3

\* Nothing is picked from an empty stream.
LEMMA PickEmpty == ASSUME NEW I PROVE Pick(<<>>, I) = <<>>
<1> DEFINE f == [i \in 0..0 |-> <<>>]
<1>1. PickSteps(<<>>, I, f)
  BY DEF PickSteps
<1>2. <<>> \in Seq({})
  OBVIOUS
<1>3. Pick(<<>>, I) = f[Len(<<>>)]
  <2> HIDE DEF f
  <2> QED BY <1>1, <1>2, PickIsLast
<1> QED BY <1>3

\* A frame sent is picked last, or not at all.
LEMMA PickAppend ==
  ASSUME NEW S, NEW s \in Seq(S), NEW x \in S, NEW I, NEW J,
         Agree(I, J, Len(s))
  PROVE  Pick(Append(s, x), J) =
           IF Len(s) + 1 \in J THEN Append(Pick(s, I), x) ELSE Pick(s, I)
<1> DEFINE n == Len(s)
           t == Append(s, x)
<1>1. PICK f : PickSteps(s, I, f)
  BY PickStepsExist
<1>2. PICK g : PickSteps(t, J, g) /\ \A i \in 0..n : g[i] = f[i]
  <2>1. \E g : /\ PickSteps(Append(s, x), J, g)
               /\ \A i \in 0..Len(s) : g[i] = f[i]
    BY <1>1, PickStepsExtend
  <2> QED BY <2>1
<1>3. n \in Nat /\ t \in Seq(S) /\ Len(t) = n + 1 /\ t[n + 1] = x
  OBVIOUS
<1>4. Pick(s, I) = f[n] /\ Pick(t, J) = g[n + 1]
  BY <1>1, <1>2, <1>3, PickIsLast
<1>5. g[n + 1] = IF n + 1 \in J THEN Append(g[n], t[n + 1]) ELSE g[n]
  <2>1. n + 1 \in 0..Len(t) /\ n + 1 # 0 /\ (n + 1) - 1 = n
    BY <1>3
  <2> HIDE DEF n, t
  <2> QED BY <1>2, <2>1 DEF PickSteps
<1> QED BY <1>2, <1>3, <1>4, <1>5

\* Only the places within the stream count.
LEMMA PickSame ==
  ASSUME NEW S, NEW s \in Seq(S), NEW I, NEW J, Agree(I, J, Len(s))
  PROVE  Pick(s, I) = Pick(s, J)
<1>1. PICK f : PickSteps(s, I, f)
  BY PickStepsExist
<1>2. PickSteps(s, J, f)
  <2> DEFINE h(K) == [i \in 0..Len(s) |->
                        IF i = 0 THEN <<>>
                        ELSE IF i \in K THEN Append(f[i-1], s[i]) ELSE f[i-1]]
  <2>1. \A i \in 0..Len(s) : i = 0 \/ (i \in I <=> i \in J)
    BY DEF Agree
  <2>2. h(I) = h(J)
    BY <2>1
  <2> QED BY <1>1, <2>2 DEF PickSteps
<1> QED BY <1>1, <1>2, PickIsLast

\* What is picked is in the stream, at one of the places.
LEMMA PickSound ==
  ASSUME NEW S, NEW s \in Seq(S), NEW I
  PROVE  Pick(s, I) \in Seq({s[i] : i \in 1..Len(s) \cap I})
<1> DEFINE R == {s[i] : i \in 1..Len(s) \cap I}
<1>1. PICK f : PickSteps(s, I, f)
  BY PickStepsExist
<1>2. \A i \in 0..Len(s) :
        f[i] = IF i = 0 THEN <<>> ELSE IF i \in I THEN Append(f[i-1], s[i]) ELSE f[i-1]
  BY <1>1 DEF PickSteps
<1> DEFINE T == {n \in Nat : n <= Len(s) => f[n] \in Seq(R)}
<1>3. Len(s) \in Nat
  OBVIOUS
<1>4. 0 \in T
  <2>1. f[0] = <<>>
    BY <1>2, <1>3
  <2>2. <<>> \in Seq(R)
    OBVIOUS
  <2> QED BY <2>1, <2>2
<1>5. ASSUME NEW n \in Nat, n \in T PROVE n + 1 \in T
  <2> SUFFICES ASSUME n + 1 <= Len(s) PROVE f[n + 1] \in Seq(R)
    BY DEF T
  <2>1. f[n] \in Seq(R) /\ n + 1 \in 0..Len(s) /\ n + 1 # 0 /\ (n + 1) - 1 = n
    BY <1>3, <1>5
  <2>2. f[n + 1] = IF n + 1 \in I THEN Append(f[n], s[n + 1]) ELSE f[n]
    BY <2>1, <1>2
  <2>3. n + 1 \in I => s[n + 1] \in R
    BY <2>1
  <2> HIDE DEF R
  <2> QED BY <2>1, <2>2, <2>3
<1>6. Nat \subseteq T
  <2> HIDE DEF T
  <2> QED BY <1>4, <1>5, NatSets
<1>7. f[Len(s)] \in Seq(R)
  BY <1>3, <1>6
<1> QED BY <1>1, <1>7, PickIsLast

\* Nothing is picked at places outside the stream.
LEMMA PickNone ==
  ASSUME NEW S, NEW s \in Seq(S), NEW I, 1..Len(s) \cap I = {}
  PROVE  Pick(s, I) = <<>>
<1>1. {s[i] : i \in 1..Len(s) \cap I} = {}
  OBVIOUS
<1>2. Pick(s, I) \in Seq({})
  BY <1>1, PickSound
<1> QED BY ONLY <1>2

\* One place picks the element there.
LEMMA PickSingle ==
  ASSUME NEW S, NEW s \in Seq(S), NEW I, NEW j \in 1..Len(s), 1..Len(s) \cap I = {j}
  PROVE  Pick(s, I) = <<s[j]>>
<1> DEFINE f == [i \in 0..Len(s) |-> IF i < j THEN <<>> ELSE <<s[j]>>]
<1>1. Len(s) \in Nat /\ j \in Nat
  OBVIOUS
<1>2. ASSUME NEW i \in 0..Len(s)
      PROVE  f[i] = IF i = 0 THEN <<>> ELSE IF i \in I THEN Append(f[i-1], s[i]) ELSE f[i-1]
  <2>1. CASE i = 0
    BY <1>1, <2>1
  <2>2. CASE i # 0
    <3>1. i - 1 \in 0..Len(s) /\ i \in 1..Len(s) /\ (i \in I <=> i = j)
      BY <1>1, <2>2
    <3>2. f[i - 1] = IF i - 1 < j THEN <<>> ELSE <<s[j]>>
      BY <3>1
    <3>3. f[i] = IF i < j THEN <<>> ELSE <<s[j]>>
      OBVIOUS
    <3>4. Append(<<>>, s[j]) = <<s[j]>>
      OBVIOUS
    <3> HIDE DEF f
    <3>5. CASE i < j
      <4>1. i - 1 < j /\ i # j
        BY <1>1, <3>5
      <4> QED BY <2>2, <3>1, <3>2, <3>3, <3>5, <4>1, Zenon
    <3>6. CASE i = j
      <4>1. i - 1 < j /\ ~(i < j)
        BY <1>1, <3>6
      <4> QED BY <2>2, <3>1, <3>2, <3>3, <3>4, <3>6, <4>1, Zenon
    <3>7. CASE ~(i < j) /\ i # j
      <4>1. ~(i - 1 < j)
        BY <1>1, <3>1, <3>7
      <4> QED BY <2>2, <3>1, <3>2, <3>3, <3>7, <4>1, Zenon
    <3> QED BY <3>5, <3>6, <3>7
  <2> QED BY <2>1, <2>2
<1>3. PickSteps(s, I, f)
  <2>1. f = [i \in 0..Len(s) |-> f[i]]
    OBVIOUS
  <2> HIDE DEF f
  <2> QED BY <1>2, <2>1 DEF PickSteps
<1>4. f[Len(s)] = <<s[j]>>
  BY <1>1
<1> HIDE DEF f
<1> QED BY <1>3, <1>4, PickIsLast

\* The first frame of s is picked by I, and J picks the rest.
Splits(s, I, J) ==
  Pick(s, I) = IF 1 \in I THEN <<Head(s)>> \o Pick(Tail(s), J) ELSE Pick(Tail(s), J)

\* The last frame may be picked or not, whatever becomes of the first.
LEMMA PickTailAppend ==
  ASSUME NEW S, NEW u \in Seq(S), u # <<>>, NEW x \in S, NEW I, NEW J,
         Follows(J, I, Len(u)), Splits(u, I, J)
  PROVE  Splits(Append(u, x), I, J)
<1>1. /\ Tail(u) \in Seq(S) /\ Head(u) \in S
      /\ Len(Tail(u)) + 1 = Len(u) /\ Len(u) \in 1..Len(u)
  OBVIOUS
<1>2. Agree(I, I, Len(u)) /\ Agree(J, J, Len(Tail(u)))
  BY DEF Agree
<1>3. Pick(Append(u, x), I) =
        IF Len(u) + 1 \in I THEN Append(Pick(u, I), x) ELSE Pick(u, I)
  BY <1>2, PickAppend
<1>4. Pick(Append(Tail(u), x), J) =
        IF Len(Tail(u)) + 1 \in J THEN Append(Pick(Tail(u), J), x)
                                  ELSE Pick(Tail(u), J)
  <2>1. PICK v : v = Tail(u)
    OBVIOUS
  <2>2. v \in Seq(S) /\ Agree(J, J, Len(v))
    BY <1>1, <1>2, <2>1
  <2>3. Pick(Append(v, x), J) =
          IF Len(v) + 1 \in J THEN Append(Pick(v, J), x) ELSE Pick(v, J)
    BY <2>2, PickAppend
  <2> QED BY <2>1, <2>3
<1>5. Len(u) \in J <=> Len(u) + 1 \in I
  BY <1>1 DEF Follows
<1> DEFINE p == Pick(Tail(u), J)
<1>6. p \in Seq({Tail(u)[i] : i \in 1..Len(Tail(u)) \cap J})
  BY <1>1, PickSound
<1>7. Append(<<Head(u)>> \o p, x) = <<Head(u)>> \o Append(p, x)
  <2>1. PICK R : p \in Seq(R)
    BY <1>6
  <2>2. p \in Seq(R \cup {Head(u), x}) /\ <<Head(u)>> \in Seq(R \cup {Head(u), x})
    <3> HIDE DEF p
    <3> QED BY <2>1
  <2> HIDE DEF p
  <2> QED BY <2>2
<1>8. Tail(Append(u, x)) = Append(Tail(u), x) /\ Head(Append(u, x)) = Head(u)
  OBVIOUS
<1>9. Pick(u, I) = IF 1 \in I THEN <<Head(u)>> \o Pick(Tail(u), J) ELSE Pick(Tail(u), J)
  BY DEF Splits
<1>10. Pick(Append(u, x), I) = IF 1 \in I THEN <<Head(u)>> \o Pick(Append(Tail(u), x), J)
                                         ELSE Pick(Append(Tail(u), x), J)
  BY <1>1, <1>3, <1>4, <1>5, <1>7, <1>9
<1> QED BY <1>8, <1>10 DEF Splits

\* A stream of one frame
LEMMA PickOne ==
  ASSUME NEW S, NEW t \in Seq(S), Len(t) = 1, NEW I, NEW J
  PROVE  Splits(t, I, J)
<1>1. PICK e \in S : e = t[1]
  BY ElementOfSeq
<1>2. t = <<e>> /\ <<e>> = Append(<<>>, e)
  BY <1>1
<1>3. Head(t) = e /\ Tail(t) = <<>>
  BY <1>2
<1>4. PICK z \in Seq(S) : z = <<>>
  <2>1. <<>> \in Seq(S)
    OBVIOUS
  <2> QED BY <2>1
<1>5. Agree(I, I, Len(z)) /\ Len(z) + 1 = 1
  BY <1>4 DEF Agree
<1>6. Pick(Append(z, e), I) = IF Len(z) + 1 \in I THEN Append(Pick(z, I), e)
                                                 ELSE Pick(z, I)
  BY <1>5, PickAppend
<1>7. Pick(<<>>, I) = <<>> /\ Pick(<<>>, J) = <<>>
  BY PickEmpty
<1>8. <<e>> \o <<>> = <<e>>
  OBVIOUS
<1> QED BY <1>2, <1>3, <1>4, <1>5, <1>6, <1>7, <1>8 DEF Splits

\* A frame read was picked first, or not at all.
LEMMA PickTail ==
  ASSUME NEW S, NEW s \in Seq(S), s # <<>>, NEW I, NEW J,
         Follows(J, I, Len(s) - 1)
  PROVE  Pick(s, I) = IF 1 \in I THEN <<Head(s)>> \o Pick(Tail(s), J)
                                 ELSE Pick(Tail(s), J)
<1> DEFINE T == {n \in Nat : \A t \in Seq(S) :
                   (Len(t) = n + 1 /\ n + 1 <= Len(s)) => Splits(t, I, J)}
<1>1. 0 \in T
  <2>1. ASSUME NEW t \in Seq(S), Len(t) = 1 PROVE Splits(t, I, J)
    BY <2>1, PickOne
  <2> QED BY <2>1
<1>2. ASSUME NEW n \in Nat, n \in T PROVE n + 1 \in T
  <2> SUFFICES ASSUME NEW t \in Seq(S), Len(t) = n + 2, n + 2 <= Len(s) PROVE Splits(t, I, J)
    OBVIOUS
  <2> DEFINE u == SubSeq(t, 1, n + 1)
             x == t[n + 2]
  <2>1. u \in Seq(S) /\ Len(u) = n + 1 /\ x \in S
    OBVIOUS
  <2>2. t = Append(u, x)
    OBVIOUS
  <2>3. Tail(Append(u, x)) = Append(Tail(u), x) /\ Head(Append(u, x)) = Head(u) /\ u # <<>>
    <3> HIDE DEF u, x
    <3> QED BY <2>1
  <2>4. n + 1 <= Len(s)
    OBVIOUS
  <2>5. Splits(u, I, J)
    <3>1. \A v \in Seq(S) : (Len(v) = n + 1 /\ n + 1 <= Len(s)) => Splits(v, I, J)
      BY <1>2
    <3> HIDE DEF u
    <3> QED BY <2>1, <2>4, <3>1
  <2>6. Follows(J, I, Len(u))
    <3>1. \A i \in 1..n + 1 : i \in 1..Len(s) - 1
      OBVIOUS
    <3> QED BY <2>1, <3>1 DEF Follows
  <2>7. Splits(Append(u, x), I, J)
    <3> HIDE DEF u, x
    <3> QED BY <2>1, <2>3, <2>5, <2>6, PickTailAppend
  <2> QED BY <2>2, <2>7
<1>3. Nat \subseteq T
  <2> HIDE DEF T
  <2> QED BY <1>1, <1>2, NatSets
<1>4. Len(s) \in Nat /\ Len(s) # 0 /\ Len(s) - 1 \in Nat /\ (Len(s) - 1) + 1 = Len(s)
  OBVIOUS
<1>5. Len(s) - 1 \in T
  <2> HIDE DEF T
  <2> QED BY <1>3, <1>4
<1>6. Splits(s, I, J)
  <2>1. \A t \in Seq(S) :
          (Len(t) = (Len(s) - 1) + 1 /\ (Len(s) - 1) + 1 <= Len(s)) => Splits(t, I, J)
    BY <1>5
  <2> QED BY <1>4, <2>1
<1> QED BY <1>6 DEF Splits
==============================================================================
