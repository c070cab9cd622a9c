----------------------------- MODULE CurveProofs ------------------------------
(***************************************************************************)
(* Proofs about NurbsCurve: for any curves with integer knots, any         *)
(* parameters and any number of insertions, the knots stay what            *)
(* NurbsCurve.KnotsSound says, and find_span() closes in on its answer.    *)
(***************************************************************************)
EXTENDS NurbsSurface, WellFoundedInduction, TLAPS

------------------------------------------------------------------------------
(* The inductive invariant *)

\* The curve: KnotsSound without the search, and the types
KnotsOK ==
  /\ p \in 1..8 /\ n \in Int /\ n >= p
  /\ knots \in [0 .. n + p + 1 -> Int] /\ DOMAIN cps = 0..n
  /\ Sorted(knots, n + p + 1)
  /\ u_min = origin.knots[p] /\ u_max = origin.knots[origin.n + 1]

\* What the caller of find_span() has made sure of
CallOK == call.u \in Int /\ (call.op = "insert" => call.times \in 1..2)

\* The interval of the search, and its answer
SearchOK ==
  /\ search.state = "searching" =>
       /\ CallOK
       /\ search.low \in p..n /\ search.high \in p + 1 .. n + 1
       /\ search.low < search.high
       /\ search.mid = (search.low + search.high) \div 2
       /\ knots[search.low] <= call.u /\ call.u < knots[search.high]
  /\ search.state = "found" =>
       /\ CallOK
       /\ search.mid \in p..n
       /\ knots[search.mid] <= call.u /\ call.u <= knots[search.mid + 1]

IInv ==
  /\ n \in Int
  /\ search.state \in {"none", "searching", "found"}
  /\ Empty => search.state = "none"
  /\ ~Empty => KnotsOK /\ SearchOK

\* A set of naturals has a least element.
LEMMA Least ==
  ASSUME NEW S \in SUBSET Nat, S # {}
  PROVE  \E m \in S : \A i \in S : m <= i
<1>1. PICK m \in S : \A i \in S : ~(<<i, m>> \in OpToRel(<, Nat))
  BY WFMin, NatLessThanWellFounded
<1>2. ASSUME NEW i \in S PROVE m <= i
  <2>1. i \in Nat /\ m \in Nat /\ <<i, m>> \in Nat \X Nat
    OBVIOUS
  <2>2. ~(i < m)
    BY <1>1, <2>1 DEF OpToRel
  <2>3. QED BY <2>1, <2>2
<1>3. QED BY <1>2

\* The middle of an interval lies in it, and inside it unless it is of length 1.
LEMMA Middle ==
  ASSUME NEW low \in Int, NEW high \in Int, low < high
  PROVE  LET mid == (low + high) \div 2
         IN  /\ mid \in Int
             /\ low <= mid /\ mid < high
             /\ low < mid \/ high = low + 1
OBVIOUS

\* The knots are integers in order.
LEMMA KnotsInOrder ==
  ASSUME KnotsOK
  PROVE  /\ \A i \in 0 .. n + p + 1 : knots[i] \in Int
         /\ \A i \in 0 .. n + p : knots[i] <= knots[i + 1]
<1>1. ASSUME NEW i \in 0 .. n + p
      PROVE  knots[i] <= knots[i + 1]
  <2>1. i + 1 \in 1 .. n + p + 1 /\ (i + 1) - 1 = i
    BY DEF KnotsOK
  <2>2. QED BY <2>1 DEF KnotsOK, Sorted
<1>2. QED BY <1>1 DEF KnotsOK

\* The interval of the parameter does not end before it starts.  The knots
\* between are in order pairwise only, so the first pair out of order is sought.
LEMMA IntervalOrdered ==
  ASSUME KnotsOK
  PROVE  u_min <= u_max
<1> DEFINE Below == {i \in 0 .. n + 1 - p : knots[p + i] < knots[p]}
<1>1. p \in 1..8 /\ n \in Int /\ n >= p /\ n + 1 - p \in Nat
  BY DEF KnotsOK
<1>2. ASSUME Below # {} PROVE FALSE
  <2>1. PICK i \in Below : \A j \in Below : i <= j
    <3>1. Below \subseteq Nat
      BY <1>1
    <3>2. QED BY <1>2, <3>1, Least
  <2>2. p + i \in 0 .. n + p + 1 /\ i # 0
    <3>1. i \in 0 .. n + 1 - p /\ knots[p + i] < knots[p]
      OBVIOUS
    <3>2. knots[p] \in Int /\ p + 0 = p
      BY <1>1, KnotsInOrder
    <3>3. i # 0
      BY <3>1, <3>2
    <3>4. QED BY <1>1, <3>1, <3>3
  <2>3. i - 1 \in 0 .. n + 1 - p /\ i - 1 < i /\ p + (i - 1) \in 0 .. n + p
        /\ (p + (i - 1)) + 1 = p + i
    BY <1>1, <2>2
  <2>4. knots[p + (i - 1)] <= knots[p + i]
    BY <2>3, KnotsInOrder
  <2>5. knots[p + (i - 1)] \in Int /\ knots[p + i] \in Int /\ knots[p] \in Int
    BY <1>1, <2>2, <2>3, KnotsInOrder
  <2>6. i - 1 \in Below
    BY <2>3, <2>4, <2>5
  <2>7. QED BY <2>1, <2>3, <2>6
<1>3. n + 1 - p \in 0 .. n + 1 - p /\ p + (n + 1 - p) = n + 1
  BY <1>1
<1>4. ~(knots[n + 1] < knots[p])
  BY <1>2, <1>3
<1>5. knots[n + 1] \in Int /\ knots[p] \in Int
  BY <1>1, KnotsInOrder
<1>6. QED BY <1>4, <1>5 DEF u_min, u_max

\* Before the loop: find_span() has its span, or an interval that holds u.
LEMMA SearchStarts ==
  ASSUME KnotsOK, UNCHANGED curve, NEW u \in Int, u_min <= u, u <= u_max,
         call'.u = u, call'.op = "insert" => call'.times \in 1..2, StartSearch(u)
  PROVE  SearchOK' /\ search'.state \in {"searching", "found"}
<1>1. UNCHANGED <<p, n, knots>>
  BY DEF curve
<1>2. CallOK'
  BY DEF CallOK
<1>3. p \in 1..8 /\ n \in Int /\ n >= p
  BY DEF KnotsOK
<1>4. /\ knots[n] \in Int /\ knots[n + 1] \in Int /\ knots[n] <= knots[n + 1]
      /\ knots[p] \in Int /\ knots[p + 1] \in Int /\ knots[p] <= knots[p + 1]
  <2>1. n \in 0 .. n + p /\ p \in 0 .. n + p
    BY <1>3
  <2>2. n + 1 \in 0 .. n + p + 1 /\ p + 1 \in 0 .. n + p + 1
    BY <1>3
  <2>3. QED BY <2>1, <2>2, KnotsInOrder
<1>5. CASE u >= knots[n + 1]
  <2>1. search' = Found(n) /\ u = knots[n + 1] /\ knots[n] <= knots[n + 1]
    BY <1>4, <1>5 DEF StartSearch, u_max
  <2>2. QED BY <1>1, <1>2, <1>3, <2>1 DEF Found, SearchOK
<1>6. CASE u < knots[n + 1] /\ u <= knots[p]
  <2>1. search' = Found(p) /\ u = knots[p] /\ knots[p] <= knots[p + 1]
    BY <1>4, <1>6 DEF StartSearch, u_min
  <2>2. QED BY <1>1, <1>2, <1>3, <2>1 DEF Found, SearchOK
<1>7. CASE u < knots[n + 1] /\ knots[p] < u
  <2>1. search' = Searching(p, n + 1)
    BY <1>4, <1>7 DEF StartSearch
  <2>2. /\ search'.state = "searching" /\ search'.low = p /\ search'.high = n + 1
        /\ search'.mid = (p + (n + 1)) \div 2
    BY <2>1 DEF Searching
  <2>3. p \in p..n /\ n + 1 \in p + 1 .. n + 1 /\ p < n + 1
    BY <1>3
  <2>4. knots[p] <= u /\ u < knots[n + 1]
    BY <1>4, <1>7
  <2>5. QED BY <1>1, <1>2, <2>2, <2>3, <2>4 DEF SearchOK
<1>8. QED BY <1>5, <1>6, <1>7, <1>4

------------------------------------------------------------------------------
(* One lemma per action *)

\* A curve before its first call satisfies the invariant.
LEMMA IInvInit == ASSUME CurveInit PROVE IInv
BY DEF CurveInit, IInv, Empty, NoSearch

\* init() keeps the invariant.
LEMMA InitKeeps ==
  ASSUME IInv, NEW c \in Curves, InitCurve(c)
  PROVE  IInv'
<1>1. search' = search /\ search.state = "none"
  BY DEF InitCurve, IInv
<1>2. CASE InitStatus(c) # "Ok"
  <2>1. UNCHANGED <<curve, search>> /\ Empty
    BY <1>1, <1>2 DEF InitCurve
  <2>2. QED BY <2>1 DEF IInv, curve, Empty
<1>3. CASE InitStatus(c) = "Ok"
  <2>1. /\ p' = c.p /\ n' = c.n /\ knots' = c.knots
        /\ cps' = [i \in 0 .. c.n |-> <<Times(c.x[i], c.w[i]), c.w[i]>>]
        /\ origin' = [n |-> n', knots |-> knots', cps |-> cps']
    BY <1>3 DEF InitCurve
  <2>2. /\ c.p \in Int /\ c.n \in Int /\ c.n_knots \in Int
        /\ c.knots \in [0 .. c.n_knots - 1 -> Int]
    BY CurvesAssumption
  <2>3. c.p \in 1..8 /\ c.n >= c.p /\ c.n_knots = c.n + c.p + 2 /\ ~Decreasing(c)
    BY <1>3, <2>2 DEF InitStatus
  <2>4. c.n_knots - 1 = c.n + c.p + 1
    BY <2>2, <2>3
  <2>5. ASSUME NEW i \in 1 .. c.n + c.p + 1
        PROVE  c.knots[i - 1] <= c.knots[i]
    <3>1. i \in 1 .. c.n_knots - 1 /\ i - 1 \in 0 .. c.n_knots - 1 /\ i \in 0 .. c.n_knots - 1
      BY <2>2, <2>3
    <3>2. c.knots[i - 1] \in Int /\ c.knots[i] \in Int /\ ~(c.knots[i] < c.knots[i - 1])
      BY <2>2, <2>3, <3>1 DEF Decreasing
    <3>3. QED BY <3>2
  <2>6. KnotsOK'
    <3>1. knots' \in [0 .. n' + p' + 1 -> Int] /\ DOMAIN cps' = 0..n'
      BY <2>1, <2>2, <2>4
    <3>2. Sorted(knots', n' + p' + 1)
      BY <2>1, <2>5 DEF Sorted
    <3>3. u_min' = origin'.knots[p'] /\ u_max' = origin'.knots[origin'.n + 1]
      BY <2>1 DEF u_min, u_max
    <3>4. QED BY <2>1, <2>2, <2>3, <3>1, <3>2, <3>3 DEF KnotsOK
  <2>7. QED BY <1>1, <2>1, <2>2, <2>3, <2>6 DEF IInv, SearchOK, Empty
<1>4. QED BY <1>2, <1>3

\* The parameter of an evaluation is cut to the interval.
LEMMA ClampedInside ==
  ASSUME KnotsOK, NEW u \in Int
  PROVE  Clamped(u) \in Int /\ u_min <= Clamped(u) /\ Clamped(u) <= u_max
<1>1. u_min \in Int /\ u_max \in Int
  <2>1. p \in 0 .. n + p + 1 /\ n + 1 \in 0 .. n + p + 1
    BY DEF KnotsOK
  <2>2. QED BY <2>1, KnotsInOrder DEF u_min, u_max
<1>2. u_min <= u_max
  <2>1. QED BY <1>1, IntervalOrdered
<1>3. QED BY <1>1, <1>2 DEF Clamped

\* A call that starts a search
LEMMA StartKeeps ==
  ASSUME IInv, ~Empty, UNCHANGED <<curve, origin>>, NEW u \in Int, u_min <= u, u <= u_max,
         call'.u = u, call'.op = "insert" => call'.times \in 1..2, StartSearch(u)
  PROVE  IInv'
<1>1. KnotsOK
  BY DEF IInv
<1>2. SearchOK' /\ search'.state \in {"searching", "found"}
  BY <1>1, SearchStarts DEF curve
<1>3. KnotsOK'
  BY <1>1 DEF KnotsOK, curve, u_min, u_max
<1>4. QED BY <1>2, <1>3 DEF IInv, Empty, curve

\* A call that answers without a search
LEMMA RefusalKeeps ==
  ASSUME IInv, UNCHANGED <<curve, origin>>, Idle, search' = search
  PROVE  IInv'
<1>1. KnotsOK => KnotsOK'
  BY DEF KnotsOK, curve, u_min, u_max
<1>2. SearchOK'
  BY DEF SearchOK, Idle
<1>3. QED BY <1>1, <1>2 DEF IInv, Empty, curve, Idle

\* One turn of the loop: its interval still holds the parameter.
LEMMA StepKeeps ==
  ASSUME IInv, SearchStep
  PROVE  IInv'
<1> DEFINE low == search.low
           high == search.high
           mid == search.mid
<1>1. ~Empty /\ KnotsOK /\ SearchOK /\ search.state = "searching"
  BY DEF IInv, SearchStep
<1>2. /\ CallOK
      /\ low \in p..n /\ high \in p + 1 .. n + 1 /\ low < high
      /\ mid = (low + high) \div 2
      /\ knots[low] <= call.u /\ call.u < knots[high]
  BY <1>1 DEF SearchOK
<1>3. p \in 1..8 /\ n \in Int /\ n >= p
  BY <1>1 DEF KnotsOK
<1>4. mid \in p..n /\ low <= mid /\ mid < high /\ (low < mid \/ high = low + 1)
  BY <1>2, <1>3, Middle
<1>5. /\ call.u \in Int
      /\ knots[mid] \in Int /\ knots[mid + 1] \in Int
  <2>1. mid \in 0 .. n + p + 1 /\ mid + 1 \in 0 .. n + p + 1
    BY <1>3, <1>4
  <2>2. QED BY <1>1, <1>2, <2>1, KnotsInOrder DEF CallOK
<1>6. UNCHANGED <<p, n, knots, cps, call, origin>>
  BY DEF SearchStep, curve
<1>7. KnotsOK' /\ CallOK' /\ ~Empty'
  BY <1>1, <1>2, <1>6 DEF KnotsOK, CallOK, Empty, u_min, u_max
<1>8. CASE call.u < knots[mid]
  <2>1. search' = Searching(low, mid)
    BY <1>8 DEF SearchStep
  <2>2. /\ search'.state = "searching" /\ search'.low = low /\ search'.high = mid
        /\ search'.mid = (low + mid) \div 2
    BY <2>1 DEF Searching
  <2>3. low # mid
    BY <1>2, <1>5, <1>8
  <2>4. low < mid /\ mid \in p + 1 .. n + 1
    BY <1>2, <1>3, <1>4, <2>3
  <2>5. SearchOK'
    BY <1>2, <1>6, <1>7, <1>8, <2>2, <2>4 DEF SearchOK
  <2>6. QED BY <1>3, <1>6, <1>7, <2>2, <2>5 DEF IInv
<1>9. CASE ~(call.u < knots[mid]) /\ call.u >= knots[mid + 1]
  <2>1. search' = Searching(mid, high)
    BY <1>9 DEF SearchStep
  <2>2. /\ search'.state = "searching" /\ search'.low = mid /\ search'.high = high
        /\ search'.mid = (mid + high) \div 2
    BY <2>1 DEF Searching
  <2>3. knots[mid] <= call.u
    BY <1>5, <1>9
  <2>4. SearchOK'
    BY <1>2, <1>4, <1>6, <1>7, <2>2, <2>3 DEF SearchOK
  <2>5. QED BY <1>3, <1>6, <1>7, <2>2, <2>4 DEF IInv
<1>10. CASE ~(call.u < knots[mid]) /\ ~(call.u >= knots[mid + 1])
  <2>1. search' = Found(mid)
    BY <1>10 DEF SearchStep
  <2>2. search'.state = "found" /\ search'.mid = mid
    BY <2>1 DEF Found
  <2>3. knots[mid] <= call.u /\ call.u <= knots[mid + 1]
    BY <1>5, <1>10
  <2>4. SearchOK'
    BY <1>4, <1>6, <1>7, <2>2, <2>3 DEF SearchOK
  <2>5. QED BY <1>3, <1>6, <1>7, <2>2, <2>4 DEF IInv
<1>11. QED BY <1>8, <1>9, <1>10

\* point() and derivatives() keep the invariant.
LEMMA EvalKeeps ==
  ASSUME IInv, Evaluate
  PROVE  IInv'
<1>1. UNCHANGED <<p, n, knots, cps, origin>> /\ search' = NoSearch
  BY DEF Evaluate, curve
<1>2. KnotsOK => KnotsOK'
  BY <1>1 DEF KnotsOK, u_min, u_max
<1>3. QED BY <1>1, <1>2 DEF IInv, SearchOK, Empty, NoSearch

\* The knots with some more of u behind knot k, which is u or the last before it
LEMMA RefinedInOrder ==
  ASSUME KnotsOK, NEW k \in p..n, NEW u \in Int, NEW times \in 1..2,
         knots[k] <= u, u <= knots[k + 1]
  PROVE  LET new == KnotsWith(k, u, times)
         IN  /\ new \in [0 .. n + times + p + 1 -> Int]
             /\ Sorted(new, n + times + p + 1)
             /\ new[p] = knots[p] /\ new[n + times + 1] = knots[n + 1]
<1> DEFINE new == KnotsWith(k, u, times)
<1>1. p \in 1..8 /\ n \in Int /\ n >= p
  BY DEF KnotsOK
<1>2. /\ \A i \in 0 .. n + p + 1 : knots[i] \in Int
      /\ \A i \in 0 .. n + p : knots[i] <= knots[i + 1]
  BY KnotsInOrder
<1>3. 0 .. n + p + 1 + times = 0 .. n + times + p + 1
  BY <1>1
<1>4. new = [i \in 0 .. n + times + p + 1 |->
               IF i <= k THEN knots[i] ELSE IF i <= k + times THEN u ELSE knots[i - times]]
  BY <1>3 DEF KnotsWith
<1>5. ASSUME NEW i \in 0 .. n + times + p + 1
      PROVE  /\ i <= k => new[i] = knots[i] /\ i \in 0 .. n + p
             /\ i > k /\ i <= k + times => new[i] = u
             /\ i > k + times => new[i] = knots[i - times] /\ i - times \in 0 .. n + p + 1
             /\ new[i] \in Int
  <2>1. i <= k => i \in 0 .. n + p
    BY <1>1
  <2>2. i > k + times => i - times \in 0 .. n + p + 1 /\ i > k
    BY <1>1
  <2>3. i <= k => new[i] = knots[i]
    BY <1>4
  <2>4. i > k /\ i <= k + times => new[i] = u
    BY <1>1, <1>4
  <2>5. i > k + times => new[i] = knots[i - times]
    BY <1>1, <1>4, <2>2
  <2>6. i \in 0 .. n + p => i \in 0 .. n + p + 1
    BY <1>1
  <2>7. i <= k \/ (i > k /\ i <= k + times) \/ i > k + times
    BY <1>1
  <2>8. QED BY <1>2, <2>1, <2>2, <2>3, <2>4, <2>5, <2>6, <2>7
<1>6. new \in [0 .. n + times + p + 1 -> Int]
  BY <1>4, <1>5
<1>7. ASSUME NEW i \in 1 .. n + times + p + 1
      PROVE  new[i - 1] <= new[i]
  <2>1. /\ i \in 0 .. n + times + p + 1 /\ i - 1 \in 0 .. n + times + p + 1
        /\ (i - 1) + 1 = i
    BY <1>1
  <2>2. CASE i <= k
    <3>1. i - 1 <= k /\ i - 1 \in 0 .. n + p
      BY <1>1, <2>1, <2>2
    <3>2. QED BY <1>2, <1>5, <2>1, <2>2, <3>1
  <2>3. CASE i = k + 1
    <3>1. i - 1 = k /\ i > k /\ i <= k + times
      BY <2>3
    <3>2. new[i - 1] = knots[k] /\ new[i] = u
      BY <1>5, <2>1, <3>1
    <3>3. QED BY <3>2
  <2>4. CASE i > k + 1 /\ i <= k + times
    <3>1. i - 1 > k /\ i - 1 <= k + times /\ i > k
      BY <1>1, <2>4
    <3>2. new[i - 1] = u /\ new[i] = u
      BY <1>5, <2>1, <2>4, <3>1
    <3>3. QED BY <3>2
  <2>5. CASE i = k + times + 1
    <3>1. i - 1 = k + times /\ i - times = k + 1 /\ i > k + times
          /\ i - 1 > k /\ i - 1 <= k + times
      BY <1>1, <2>5
    <3>2. new[i - 1] = u /\ new[i] = knots[k + 1]
      BY <1>5, <2>1, <3>1
    <3>3. QED BY <3>2
  <2>6. CASE i > k + times + 1
    <3>1. i > k + times /\ i - 1 > k + times
          /\ (i - 1) - times \in 0 .. n + p /\ ((i - 1) - times) + 1 = i - times
      BY <1>1, <2>6
    <3>2. new[i - 1] = knots[(i - 1) - times] /\ new[i] = knots[i - times]
      BY <1>5, <2>1, <3>1
    <3>3. QED BY <1>2, <3>1, <3>2
  <2>7. i <= k \/ i = k + 1 \/ (i > k + 1 /\ i <= k + times) \/ i = k + times + 1
        \/ i > k + times + 1
    BY <1>1
  <2>8. QED BY <2>2, <2>3, <2>4, <2>5, <2>6, <2>7
<1>8. new[p] = knots[p]
  <2>1. p \in 0 .. n + times + p + 1 /\ p <= k
    BY <1>1
  <2>2. QED BY <1>5, <2>1
<1>9. new[n + times + 1] = knots[n + 1]
  <2>1. n + times + 1 \in 0 .. n + times + p + 1 /\ n + times + 1 > k + times
        /\ (n + times + 1) - times = n + 1
    BY <1>1
  <2>2. QED BY <1>5, <2>1
<1>10. QED BY <1>6, <1>7, <1>8, <1>9 DEF Sorted

\* insert_knot() keeps the invariant.
LEMMA InsertKeeps ==
  ASSUME IInv, Insert
  PROVE  IInv'
<1>1. search.state = "found" /\ call.op = "insert" /\ search' = NoSearch
      /\ UNCHANGED <<call, origin>>
  BY DEF Insert
<1>2. ~Empty /\ KnotsOK /\ SearchOK
  BY <1>1 DEF IInv
<1>3. CASE UNCHANGED curve
  <2>1. KnotsOK'
    BY <1>1, <1>2, <1>3 DEF KnotsOK, curve, u_min, u_max
  <2>2. QED BY <1>1, <1>2, <1>3, <2>1 DEF IInv, SearchOK, Empty, NoSearch, curve
<1>4. CASE ~UNCHANGED curve
  <2> DEFINE k == search.mid
             times == call.times
  <2>1. /\ n' = n + times /\ p' = p
        /\ knots' = KnotsWith(k, call.u, times)
        /\ cps' = PointsWith(k, Multiplicity(k, call.u), call.u, times)
    BY <1>4 DEF Insert
  <2>2. /\ k \in p..n /\ call.u \in Int /\ times \in 1..2
        /\ knots[k] <= call.u /\ call.u <= knots[k + 1]
    BY <1>1, <1>2 DEF SearchOK, CallOK
  <2>3. /\ knots' \in [0 .. n + times + p + 1 -> Int]
        /\ Sorted(knots', n + times + p + 1)
        /\ knots'[p] = knots[p] /\ knots'[n + times + 1] = knots[n + 1]
    BY <1>2, <2>1, <2>2, RefinedInOrder
  <2>4. DOMAIN cps' = 0..n'
    BY <2>1 DEF PointsWith
  <2>5. p' \in 1..8 /\ n' \in Int /\ n' >= p' /\ n' + p' + 1 = n + times + p + 1
    BY <1>2, <2>1, <2>2 DEF KnotsOK
  <2>6. u_min' = origin'.knots[p'] /\ u_max' = origin'.knots[origin'.n + 1]
    BY <1>1, <1>2, <2>1, <2>3 DEF KnotsOK, u_min, u_max
  <2>7. knots' \in [0 .. n' + p' + 1 -> Int] /\ Sorted(knots', n' + p' + 1)
    BY <2>3, <2>5
  <2>8. Sorted(knots, n + p + 1)' = Sorted(knots', n' + p' + 1)
    BY DEF Sorted
  <2>9. KnotsOK'
    BY <2>4, <2>5, <2>6, <2>7, <2>8 DEF KnotsOK
  <2>10. QED BY <1>1, <2>5, <2>9 DEF IInv, SearchOK, Empty, NoSearch
<1>5. QED BY <1>3, <1>4

\* A call of the client
LEMMA CallKeeps ==
  ASSUME IInv, CurveCall
  PROVE  IInv'
<1>1. ASSUME NEW c \in Curves, InitCurve(c)
      PROVE  IInv'
  BY <1>1, InitKeeps
<1>2. ASSUME NEW op, op # "insert", NEW u \in Parameters, NEW d, NEW status,
             status = "Ok" => ~Empty, StartEval(op, u, d, status)
      PROVE  IInv'
  <2>1. u \in Int
    BY CurvesAssumption
  <2>2. Idle /\ UNCHANGED <<curve, origin>>
    BY <1>2 DEF StartEval
  <2>3. CASE status = "Ok"
    <3>1. /\ call' = [op |-> op, u |-> Clamped(u), order |-> d, times |-> 0]
          /\ StartSearch(Clamped(u))
      BY <1>2, <2>3 DEF StartEval
    <3>2. KnotsOK /\ ~Empty
      BY <1>2, <2>3 DEF IInv
    <3>3. Clamped(u) \in Int /\ u_min <= Clamped(u) /\ Clamped(u) <= u_max
      BY <2>1, <3>2, ClampedInside
    <3>4. call'.u = Clamped(u) /\ call'.op # "insert"
      BY <1>2, <3>1
    <3>5. QED BY <2>2, <3>1, <3>2, <3>3, <3>4, StartKeeps
  <2>4. CASE status # "Ok"
    BY <1>2, <2>2, <2>4, RefusalKeeps DEF StartEval
  <2>5. QED BY <2>3, <2>4
<1>3. ASSUME NEW u \in Parameters, CallPoint(u)
      PROVE  IInv'
  BY <1>2, <1>3 DEF CallPoint, PointStatus
<1>4. ASSUME NEW u \in Parameters, NEW o \in Orders, CallDerivatives(u, o[1], o[2])
      PROVE  IInv'
  BY <1>2, <1>4 DEF CallDerivatives, DerivStatus
<1>5. ASSUME NEW u \in Parameters, NEW times \in 0..2, CallInsert(u, times)
      PROVE  IInv'
  <2>1. u \in Int
    BY CurvesAssumption
  <2>2. /\ Idle /\ UNCHANGED <<curve, origin>>
        /\ call'.op = "insert" /\ call'.u = u /\ call'.times = times
    BY <1>5 DEF CallInsert
  <2>3. CASE InsertStatus(u, times) = "search"
    <3>1. StartSearch(u)
      BY <1>5, <2>3 DEF CallInsert
    <3>2. ~Empty /\ times \in 1..2 /\ ~(u < u_min \/ u > u_max)
      BY <2>3 DEF InsertStatus
    <3>3. u_min \in Int /\ u_max \in Int
      <4>1. KnotsOK
        BY <3>2 DEF IInv
      <4>2. p \in 0 .. n + p + 1 /\ n + 1 \in 0 .. n + p + 1
        BY <4>1 DEF KnotsOK
      <4>3. QED BY <4>1, <4>2, KnotsInOrder DEF u_min, u_max
    <3>4. u_min <= u /\ u <= u_max
      BY <2>1, <3>2, <3>3
    <3>5. QED BY <2>1, <2>2, <3>1, <3>2, <3>4, StartKeeps
  <2>4. CASE InsertStatus(u, times) # "search"
    BY <1>5, <2>2, <2>4, RefusalKeeps DEF CallInsert
  <2>5. QED BY <2>3, <2>4
<1>6. QED BY <1>1, <1>3, <1>4, <1>5 DEF CurveCall

\* A step of the surface leaves the curve alone, and so does a stutter.
LEMMA IInvStep ==
  ASSUME IInv, [SplineNext]_<<curveVars, surfaceVars>>
  PROVE  IInv'
<1>1. CASE CurveNext
  BY <1>1, CallKeeps, StepKeeps, EvalKeeps, InsertKeeps DEF CurveNext
<1>2. CASE UNCHANGED curveVars
  <2>1. UNCHANGED <<p, n, knots, cps, call, search, origin>>
    BY <1>2 DEF curveVars, curve
  <2>2. KnotsOK => KnotsOK'
    BY <2>1 DEF KnotsOK, u_min, u_max
  <2>3. SearchOK => SearchOK'
    BY <2>1 DEF SearchOK, CallOK
  <2>4. QED BY <2>1, <2>2, <2>3 DEF IInv, Empty
<1>3. QED BY <1>1, <1>2 DEF SplineNext

\* The invariant implies what the run checks.
LEMMA IInvKnots == ASSUME IInv PROVE KnotsSound
BY DEF IInv, KnotsOK, SearchOK, KnotsSound

\* For any curves init() takes, however often they are refined and wherever:
\* the knots stay in order and as many as the points want, no insertion moves
\* an end of the interval, and find_span() never loses the parameter and ends
\* on a span of the curve.
THEOREM KnotsStaySound == SplineSpec => []KnotsSound
<1>1. SplineInit => IInv
  BY IInvInit DEF SplineInit
<1>2. IInv /\ [SplineNext]_<<curveVars, surfaceVars>> => IInv'
  BY IInvStep
<1>3. IInv => KnotsSound
  BY IInvKnots
<1>4. QED BY <1>1, <1>2, <1>3, PTL DEF SplineSpec

\* What find_span() has left to search: nothing once it has found its span
Left == IF search.state = "searching" THEN search.high - search.low ELSE 0

\* Each turn of the loop leaves less to search (nurbs_curve.cpp:64-70), whatever
\* the knots: an interval of length 1 holds the parameter, and is the answer.
THEOREM SearchShrinks ==
  SplineSpec => [][SearchStep => Left' \in Nat /\ Left' < Left]_<<curveVars, surfaceVars>>
<1>1. ASSUME IInv, SearchStep
      PROVE  Left' \in Nat /\ Left' < Left
  <2> DEFINE low == search.low
             high == search.high
             mid == search.mid
  <2>1. ~Empty /\ KnotsOK /\ SearchOK /\ search.state = "searching"
    BY <1>1 DEF IInv, SearchStep
  <2>2. /\ CallOK
        /\ low \in Int /\ high \in Int /\ low < high
        /\ mid = (low + high) \div 2
        /\ knots[low] <= call.u /\ call.u < knots[high]
    BY <2>1 DEF SearchOK, KnotsOK
  <2>3. mid \in Int /\ low <= mid /\ mid < high /\ (low < mid \/ high = low + 1)
    BY <2>2, Middle
  <2>4. Left = high - low
    BY <2>1 DEF Left
  <2>5. low \in 0 .. n + p + 1 /\ high \in 0 .. n + p + 1
    <3>1. p \in 1..8 /\ n \in Int /\ low \in p..n /\ high \in p + 1 .. n + 1
      BY <2>1 DEF SearchOK, KnotsOK
    <3>2. QED BY <3>1
  <2>6. knots[low] \in Int /\ knots[high] \in Int /\ call.u \in Int
    BY <2>1, <2>2, <2>5, KnotsInOrder DEF CallOK
  <2>7. CASE call.u < knots[mid]
    <3>1. search' = Searching(low, mid)
      BY <1>1, <2>7 DEF SearchStep
    <3>2. Left' = mid - low
      BY <3>1 DEF Left, Searching
    <3>3. low # mid
      BY <2>2, <2>6, <2>7
    <3>4. QED BY <2>2, <2>3, <2>4, <3>2, <3>3
  <2>8. CASE ~(call.u < knots[mid]) /\ call.u >= knots[mid + 1]
    <3>1. search' = Searching(mid, high)
      BY <1>1, <2>8 DEF SearchStep
    <3>2. Left' = high - mid
      BY <3>1 DEF Left, Searching
    <3>3. mid # low
      BY <2>2, <2>3, <2>6, <2>8
    <3>4. QED BY <2>2, <2>3, <2>4, <3>2, <3>3
  <2>9. CASE ~(call.u < knots[mid]) /\ ~(call.u >= knots[mid + 1])
    <3>1. search' = Found(mid)
      BY <1>1, <2>9 DEF SearchStep
    <3>2. Left' = 0
      BY <3>1 DEF Left, Found
    <3>3. QED BY <2>2, <2>4, <3>2
  <2>10. QED BY <2>7, <2>8, <2>9
<1>2. SplineInit => IInv
  BY IInvInit DEF SplineInit
<1>3. IInv /\ [SplineNext]_<<curveVars, surfaceVars>> => IInv'
  BY IInvStep
<1>4. IInv => [SearchStep => Left' \in Nat /\ Left' < Left]_<<curveVars, surfaceVars>>
  BY <1>1
<1>5. QED BY <1>2, <1>3, <1>4, PTL DEF SplineSpec
==============================================================================
