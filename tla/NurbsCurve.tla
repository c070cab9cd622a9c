------------------------------ MODULE NurbsCurve ------------------------------
(***************************************************************************)
(* src/geom/nurbs_curve.cpp: one curve, and a client that makes it, refines *)
(* it and evaluates it.  find_span() is taken one turn of its loop at a     *)
(* time; what the caller does with the span is one step.                    *)
(*                                                                         *)
(* A control point is <<xw, w>>: y and z are treated as x is.               *)
(***************************************************************************)
EXTENDS Splines, Sequences

CONSTANTS
  Curves,      \* arguments of init(): [p, n_knots, knots, n, x, w]
  Parameters,  \* what the client evaluates at, and inserts
  Orders,      \* <<max_order, n_out>>: the derivatives it asks for
  MaxLast      \* bound: the last control point of a curve the client refines

ASSUME CurvesAssumption ==
  /\ Parameters \subseteq Int
  /\ \A c \in Curves : /\ c.p \in Int /\ c.n \in Int /\ c.n_knots \in Int
                       /\ c.knots \in [0 .. c.n_knots - 1 -> Int]

VARIABLES
  p,       \* p_
  n,       \* cps_.size() - 1
  knots,   \* knots_
  cps,     \* cps_
  call,    \* the call in progress or done: [op, u, order, times]
  search,  \* find_span(): [low, high, mid], or [span] once it has it
  answer,  \* [status, values]: what the call returned, "none" before
  origin   \* history: [n, knots, cps] as init() left them

curve == <<p, n, knots, cps>>
curveVars == <<curve, call, search, answer, origin>>

NoCall == [op |-> "none", u |-> 0, order |-> 0, times |-> 0]
NoSearch == [state |-> "none", low |-> 0, high |-> 0, mid |-> 0]
Searching(low, high) ==
  [state |-> "searching", low |-> low, high |-> high, mid |-> (low + high) \div 2]
Found(span) == [state |-> "found", low |-> span, high |-> span, mid |-> span]
NoAnswer == [status |-> "none", values |-> <<>>]
Says(status) == [status |-> status, values |-> <<>>]

CurveInit ==
  /\ p = 0 /\ n = 0 - 1
  /\ knots = <<>> /\ cps = <<>>
  /\ call = NoCall
  /\ search = NoSearch
  /\ answer = NoAnswer
  /\ origin = [n |-> 0 - 1, knots |-> <<>>, cps |-> <<>>]

Empty == n < 0
Idle == search.state = "none"

------------------------------------------------------------------------------
(* init() *)

\* Mutant of Decreasing: the first pair of knots is not looked at.
DecreasingLater(c) == \E i \in 2 .. c.n_knots - 1 : c.knots[i] < c.knots[i - 1]

Decreasing(c) == \E i \in 1 .. c.n_knots - 1 : c.knots[i] < c.knots[i - 1]

InitStatus(c) ==
  IF c.p < 1 \/ c.p > 8 THEN "OutOfRange"
  ELSE IF c.n < c.p THEN "DegenerateInput"
  ELSE IF c.n_knots # c.n + c.p + 2 THEN "InvalidArgument"
  ELSE IF Decreasing(c) THEN "InvalidArgument"
  ELSE IF \E i \in 0 .. c.n : ~Positive(c.w[i]) THEN "InvalidArgument"
  ELSE "Ok"

\* Bound: the client makes one curve.
InitCurve(c) ==
  /\ Empty
  /\ call' = [NoCall EXCEPT !.op = "init"]
  /\ answer' = Says(InitStatus(c))
  /\ IF InitStatus(c) = "Ok"
     THEN /\ p' = c.p
          /\ n' = c.n
          /\ knots' = c.knots
          /\ cps' = [i \in 0 .. c.n |-> <<Times(c.x[i], c.w[i]), c.w[i]>>]
          /\ origin' = [n |-> n', knots |-> knots', cps |-> cps']
     ELSE UNCHANGED <<curve, origin>>
  /\ UNCHANGED search

u_min == knots[p]
u_max == knots[n + 1]
Clamped(u) == IF u < u_min THEN u_min ELSE IF u > u_max THEN u_max ELSE u

------------------------------------------------------------------------------
(* find_span() *)

\* Mutant of StartSearch: the end of the interval is not looked at first.
StartSearchInside(u) ==
  search' = IF u <= knots[p] THEN Found(p)
            ELSE Searching(p, n + 1)

\* What it does before its loop
StartSearch(u) ==
  search' = IF u >= knots[n + 1] THEN Found(n)
            ELSE IF u <= knots[p] THEN Found(p)
            ELSE Searching(p, n + 1)

\* One turn of the loop, or its end
SearchStep ==
  /\ search.state = "searching"
  /\ search' = IF call.u < knots[search.mid] THEN Searching(search.low, search.mid)
               ELSE IF call.u >= knots[search.mid + 1]
               THEN Searching(search.mid, search.high)
               ELSE Found(search.mid)
  /\ UNCHANGED <<curve, call, answer, origin>>

------------------------------------------------------------------------------
(* point() and derivatives() *)

\* The tests before the search; d > p_ is cut to p_ only after them.
PointStatus == IF Empty THEN "InvalidState" ELSE "Ok"
DerivStatus(d, n_out) ==
  IF Empty THEN "InvalidState"
  ELSE IF d < 0 \/ d > 2 THEN "OutOfRange"
  ELSE IF n_out < d + 1 THEN "InvalidArgument" ELSE "Ok"

StartEval(op, u, d, status) ==
  /\ Idle
  /\ IF status = "Ok"
     THEN /\ call' = [op |-> op, u |-> Clamped(u), order |-> d, times |-> 0]
          /\ StartSearch(Clamped(u))
          /\ answer' = NoAnswer
     ELSE /\ call' = [op |-> op, u |-> u, order |-> d, times |-> 0]
          /\ answer' = Says(status)
          /\ UNCHANGED search
  /\ UNCHANGED <<curve, origin>>

CallPoint(u) == StartEval("point", u, 0, PointStatus)
CallDerivatives(u, d, n_out) == StartEval("derivatives", u, d, DerivStatus(d, n_out))

\* The weighted sum of the control points under a row of basis values, in
\* coordinate c
Combined(span, row, c) ==
  SumOver(LAMBDA j : Times(row[j], cps[span - p + j][c]), 0, p)

\* point(), past find_span()
EvalPoint(span, u) ==
  LET N == BasisFuns(knots, span, p, u)
      cw == Combined(span, N, 2)
  IN  IF cw = Zero THEN Says("Singular")
      ELSE [status |-> "Ok", values |-> <<Over(Combined(span, N, 1), cw)>>]

\* The quotient rule, one order at a time; above the degree a derivative is 0.
Derivatives(span, u, d) ==
  LET N == BasisTable(knots, span, p, u)
      A(k) == Combined(span, BasisDerivs(knots, span, p, N, k), 1)
      W(k) == Combined(span, BasisDerivs(knots, span, p, N, k), 2)
      out0 == Over(A(0), W(0))
      out1 == IF p < 1 THEN Zero ELSE Over(Minus(A(1), Times(W(1), out0)), W(0))
      out2 == IF p < 2 THEN Zero
              ELSE Over(Minus(Minus(A(2), Scale(2, Times(W(1), out1))),
                              Times(W(2), out0)), W(0))
  IN  IF W(0) = Zero THEN Says("Singular")
      ELSE [status |-> "Ok", values |-> SubSeq(<<out0, out1, out2>>, 1, d + 1)]

Evaluate ==
  /\ search.state = "found"
  /\ call.op \in {"point", "derivatives"}
  /\ answer' = IF call.op = "point" THEN EvalPoint(search.mid, call.u)
               ELSE Derivatives(search.mid, call.u, call.order)
  /\ search' = NoSearch
  /\ UNCHANGED <<curve, call, origin>>

------------------------------------------------------------------------------
(* insert_knot() *)

InsertStatus(u, times) ==
  IF Empty THEN "InvalidState"
  ELSE IF times <= 0 THEN "Ok"
  ELSE IF u < u_min \/ u > u_max THEN "OutOfRange" ELSE "search"

CallInsert(u, times) ==
  /\ Idle
  /\ call' = [op |-> "insert", u |-> u, order |-> 0, times |-> times]
  /\ IF InsertStatus(u, times) = "search"
     THEN StartSearch(u) /\ answer' = NoAnswer
     ELSE answer' = Says(InsertStatus(u, times)) /\ UNCHANGED search
  /\ UNCHANGED <<curve, origin>>

\* How often u is among the knots up to k; knot 0 is not counted.
Multiplicity(k, u) ==
  LET apart == {i \in 0..k : i = 0 \/ knots[i] # u}
  IN  k - (CHOOSE i \in apart : \A j \in apart : j <= i)

\* UQ
KnotsWith(k, u, times) ==
  [i \in 0 .. n + p + 1 + times |->
     IF i <= k THEN knots[i] ELSE IF i <= k + times THEN u ELSE knots[i - times]]

\* Mutant of Blend: the weights are swapped.
BlendSwapped(alpha, a, b) ==
  [c \in 1..2 |-> Plus(Times(alpha, b[c]), Times(Minus(One, alpha), a[c]))]

Blend(alpha, a, b) ==
  [c \in 1..2 |-> Plus(Times(alpha, a[c]), Times(Minus(One, alpha), b[c]))]

\* Rw after turn j of the loop over times
Corners(k, s, u, times) ==
  LET Rw[j \in 0..times] ==
        IF j = 0 THEN [i \in 0 .. p - s |-> cps[k - p + i]]
        ELSE LET low(i) == knots[k - p + j + i]
                 alpha(i) == Ratio(u - low(i), knots[i + k + 1] - low(i))
             IN  [i \in 0 .. p - s |->
                    IF i <= p - j - s THEN Blend(alpha(i), Rw[j - 1][i + 1], Rw[j - 1][i])
                    ELSE Rw[j - 1][i]]
  IN  Rw

\* Q: the points before and behind the span stay; between them come the first
\* points of each turn, the rest of the last turn, and the last point of each
\* turn, backwards.
PointsWith(k, s, u, times) ==
  LET Rw == Corners(k, s, u, times)
  IN  [i \in 0 .. n + times |->
         IF i <= k - p THEN cps[i]
         ELSE IF i >= k - s + times THEN cps[i - times]
         ELSE IF i <= k - p + times THEN Rw[i - (k - p)][0]
         ELSE IF i < k - s THEN Rw[times][i - (k - p + times)]
         ELSE LET j == k + times - s - i IN Rw[j][p - j - s]]

\* insert_knot(), past find_span().
Insert ==
  LET k == search.mid
      s == Multiplicity(k, call.u)
  IN  /\ search.state = "found"
      /\ call.op = "insert"
      /\ IF s + call.times > p
         THEN answer' = Says("InvalidArgument") /\ UNCHANGED curve
         ELSE /\ answer' = Says("Ok")
              /\ n' = n + call.times
              /\ knots' = KnotsWith(k, call.u, call.times)
              /\ cps' = PointsWith(k, s, call.u, call.times)
              /\ UNCHANGED p
      /\ search' = NoSearch
      /\ UNCHANGED <<call, origin>>

IsClosed ==
  n >= 1 /\ Over(cps[0][1], cps[0][2]) = Over(cps[n][1], cps[n][2])

------------------------------------------------------------------------------
(* The client *)

\* Bounds: parameters and times are a few; a curve is refined up to
\* MaxLast.
CurveCall ==
  \/ \E c \in Curves : InitCurve(c)
  \/ \E u \in Parameters : CallPoint(u)
  \/ \E u \in Parameters, o \in Orders : CallDerivatives(u, o[1], o[2])
  \/ \E u \in Parameters, times \in 0..2 : n + times <= MaxLast /\ CallInsert(u, times)

CurveNext == CurveCall \/ SearchStep \/ Evaluate \/ Insert

\* The loop of find_span() goes on; the client may stop.
CurveFairness == WF_curveVars(SearchStep)

------------------------------------------------------------------------------
(* Properties *)

\* nurbs_curve.hpp:40-42, kept by every refinement: the knots are non-decreasing
\* and as many as the points and the degree want, and an insertion moves no end
\* of the interval.  find_span() keeps the parameter between its two ends, and
\* the span it ends with is one the basis functions can be read at.
KnotsSound ==
  ~Empty =>
    /\ p \in 1..8 /\ n >= p
    /\ DOMAIN knots = 0 .. n + p + 1 /\ DOMAIN cps = 0..n
    /\ Sorted(knots, n + p + 1)
    /\ u_min = origin.knots[p] /\ u_max = origin.knots[origin.n + 1]
    /\ search.state = "searching" =>
         /\ search.low < search.high
         /\ knots[search.low] <= call.u /\ call.u < knots[search.high]
    /\ search.state = "found" =>
         /\ search.mid \in p..n
         /\ knots[search.mid] <= call.u /\ call.u <= knots[search.mid + 1]

\* find_span() ends for every parameter (nurbs_curve.cpp:64-70): its interval
\* shrinks in each turn.
SearchEnds == search.state = "searching" ~> search.state = "found"

\* A curve at u and its derivatives by the definition, with the knots and
\* points it has or had
Curve(c, u, k, coordinate) ==
  LET N == Defined(c.knots, c.n, p, u, k)
  IN  SumOver(LAMBDA i : Times(N[i], c.cps[i][coordinate]), 0, c.n)

Now == [n |-> n, knots |-> knots, cps |-> cps]

\* A span of length 0, which find_span() gives at an end of the interval that
\* is also the other end of the first or last span
EmptySpan(u) == \/ u = u_max /\ knots[n] = knots[n + 1]
                \/ u = u_min /\ knots[p] = knots[p + 1]

Answered(op) == Idle /\ call.op = op /\ answer.status = "Ok"

\* point() and derivatives() answer what the definition says (Piegl and Tiller
\* (4.8)), up to the degree of the curve; on an empty span, and only there,
\* they answer Ok with what is no number.
AnswersExact ==
  /\ Answered("point") =>
       LET W == Curve(Now, call.u, 0, 2)
       IN  IF EmptySpan(call.u) THEN answer.values = <<Undef>>
           ELSE Times(answer.values[1], W) = Curve(Now, call.u, 0, 1)
  /\ Answered("derivatives") =>
       LET A(k) == Curve(Now, call.u, k, 1)
           W(k) == Curve(Now, call.u, k, 2)
           C(k) == answer.values[k + 1]
       IN  IF EmptySpan(call.u) THEN \A k \in 0 .. call.order : k <= p => C(k) = Undef
           ELSE /\ Times(C(0), W(0)) = A(0)
                /\ call.order >= 1 =>
                     Plus(Times(C(1), W(0)), Times(C(0), W(1))) = A(1)
                /\ call.order >= 2 /\ p >= 2 =>
                     Plus(Plus(Times(C(2), W(0)), Scale(2, Times(C(1), W(1)))),
                          Times(C(0), W(2))) = A(2)

\* A curve is the same after any number of insertions, wherever they are: at
\* every parameter, to the second derivative, and whether it is closed.  Its
\* weights stay positive, so that no evaluation is refused as singular.
InsertKeepsCurve ==
  Answered("insert") =>
    /\ \A i \in 0..n : Positive(cps[i][2])
    /\ \A u \in Parameters :
         u_min <= u /\ u <= u_max =>
           \A k \in 0..2, c \in 1..2 :
             k <= p => Curve(Now, u, k, c) = Curve(origin, u, k, c)
    /\ IsClosed = (Over(origin.cps[0][1], origin.cps[0][2]) =
                   Over(origin.cps[origin.n][1], origin.cps[origin.n][2]))

\* tests/test_nurbs.cpp:91 GMK_TEST("nurbs: knot insertion preserves shape"):
\* point() answers after an insertion what it answered before it.
ShapePreserved ==
  Answered("point") =>
    Times(answer.values[1], Curve(origin, call.u, 0, 2)) = Curve(origin, call.u, 0, 1)
==============================================================================
