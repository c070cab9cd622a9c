----------------------------- MODULE NurbsSurface -----------------------------
(***************************************************************************)
(* src/geom/nurbs_surface.cpp: a surface over a grid of control points,    *)
(* made once and evaluated.  It has find_span() and the basis functions a  *)
(* second time; here a call is one step.  Beside it, the curve: a client   *)
(* makes one or the other.                                                 *)
(***************************************************************************)
EXTENDS NurbsCurve

CONSTANT Surfaces  \* arguments of init(): [p, q, ku, n_ku, kv, n_kv, n_u, n_v, x, w]

VARIABLES
  surface,     \* [p, q, ku, kv, n_u, n_v, cps], cps row by row: i * n_v + j
  asked,       \* the last call: [op, u, v]
  surfaceSays  \* [status, values]: what it returned

surfaceVars == <<surface, asked, surfaceSays>>

NoSurface == [p |-> 0, q |-> 0, ku |-> <<>>, kv |-> <<>>, n_u |-> 0, n_v |-> 0, cps |-> <<>>]
NoSurfaceYet == surface.n_u = 0

SurfaceInit ==
  /\ surface = NoSurface
  /\ asked = [op |-> "none", u |-> 0, v |-> 0]
  /\ surfaceSays = NoAnswer

\* Two knots of U out of order, among the first count
Falls(U, count) == \E i \in 1 .. count - 1 : U[i] < U[i - 1]

SurfaceStatus(s) ==
  IF s.p < 1 \/ s.p > 8 \/ s.q < 1 \/ s.q > 8 THEN "OutOfRange"
  ELSE IF s.n_u < s.p + 1 \/ s.n_v < s.q + 1 THEN "DegenerateInput"
  ELSE IF s.n_ku # s.n_u + s.p + 1 \/ s.n_kv # s.n_v + s.q + 1 THEN "InvalidArgument"
  ELSE IF Falls(s.ku, s.n_ku) \/ Falls(s.kv, s.n_kv) THEN "InvalidArgument"
  ELSE IF \E i \in 0 .. s.n_u * s.n_v - 1 : ~Positive(s.w[i]) THEN "InvalidArgument"
  ELSE "Ok"

\* Bound: the client makes one surface.
InitSurface(s) ==
  /\ NoSurfaceYet
  /\ asked' = [op |-> "init", u |-> 0, v |-> 0]
  /\ surfaceSays' = Says(SurfaceStatus(s))
  /\ IF SurfaceStatus(s) = "Ok"
     THEN surface' = [p |-> s.p, q |-> s.q, ku |-> s.ku, kv |-> s.kv,
                      n_u |-> s.n_u, n_v |-> s.n_v,
                      cps |-> [i \in 0 .. s.n_u * s.n_v - 1 |->
                                 <<Times(s.x[i], s.w[i]), s.w[i]>>]]
     ELSE UNCHANGED surface

\* find_span() of a surface: the whole of its loop
SurfaceSpan(U, last, deg, t) ==
  LET Within[low \in deg..last, high \in deg .. last + 1] ==
        LET mid == (low + high) \div 2
        IN  IF t < U[mid] THEN Within[low, mid]
            ELSE IF t >= U[mid + 1] THEN Within[mid, high] ELSE mid
  IN  IF t >= U[last + 1] THEN last
      ELSE IF t <= U[deg] THEN deg ELSE Within[deg, last + 1]

\* u is cut to its interval, v to its own.
Cut(U, deg, last, t) ==
  IF t < U[deg] THEN U[deg] ELSE IF t > U[last + 1] THEN U[last + 1] ELSE t

\* basis() and basis_derivs(), for order k: the values at the span of t
SurfaceRow(U, span, deg, t, k) ==
  IF k = 0 THEN BasisFuns(U, span, deg, t)
  ELSE BasisDerivs(U, span, deg, BasisTable(U, span, deg, t), k)

\* Mutant of ControlPoint: the grid is read column by column.
ControlPointByColumns(row, column) == surface.cps[column * surface.n_u + row]

ControlPoint(row, column) == surface.cps[row * surface.n_v + column]

\* The sum over the (p + 1) * (q + 1) points that count at u, v: order a in u,
\* order b in v, coordinate c
GridSum(u, v, a, b, c) ==
  LET s == surface
      spu == SurfaceSpan(s.ku, s.n_u - 1, s.p, u)
      spv == SurfaceSpan(s.kv, s.n_v - 1, s.q, v)
      Nu == SurfaceRow(s.ku, spu, s.p, u, a)
      Nv == SurfaceRow(s.kv, spv, s.q, v, b)
  IN  SumOver(LAMBDA i :
        Times(Nu[i], SumOver(LAMBDA j :
          Times(Nv[j], ControlPoint(spu - s.p + i, spv - s.q + j)[c]), 0, s.q)), 0, s.p)

\* point(): <<p>>; point_and_partials(): <<p, du, dv>>
PointAndPartials(op, u, v) ==
  LET A(a, b) == GridSum(u, v, a, b, 1)
      W(a, b) == GridSum(u, v, a, b, 2)
      at == Over(A(0, 0), W(0, 0))
      Partial(a, b) == Over(Minus(A(a, b), Times(W(a, b), at)), W(0, 0))
  IN  IF W(0, 0) = Zero THEN Says("Singular")
      ELSE [status |-> "Ok",
            values |-> IF op = "point" THEN <<at>>
                       ELSE <<at, Partial(1, 0), Partial(0, 1)>>]

EvalSurface(op, u, v) ==
  LET s == surface
      uc == Cut(s.ku, s.p, s.n_u - 1, u)
      vc == Cut(s.kv, s.q, s.n_v - 1, v)
  IN  /\ IF NoSurfaceYet
         THEN /\ asked' = [op |-> op, u |-> u, v |-> v]
              /\ surfaceSays' = Says("InvalidState")
         ELSE /\ asked' = [op |-> op, u |-> uc, v |-> vc]
              /\ surfaceSays' = PointAndPartials(op, uc, vc)
      /\ UNCHANGED surface

SurfaceNext ==
  \/ \E s \in Surfaces : InitSurface(s)
  \/ \E op \in {"point", "partials"}, u, v \in Parameters : EvalSurface(op, u, v)

SplineInit == CurveInit /\ SurfaceInit

\* Bound: a client is after a curve or a surface, not both.
SplineNext ==
  \/ asked.op = "none" /\ CurveNext /\ UNCHANGED surfaceVars
  \/ call.op = "none" /\ SurfaceNext /\ UNCHANGED curveVars

SplineSpec == SplineInit /\ [][SplineNext]_<<curveVars, surfaceVars>> /\ CurveFairness

------------------------------------------------------------------------------
(* Properties *)

\* The sum over the whole grid by the definition of the functions
Tensor(a, b, c) ==
  LET s == surface
      Nu == Defined(s.ku, s.n_u - 1, s.p, asked.u, a)
      Nv == Defined(s.kv, s.n_v - 1, s.q, asked.v, b)
  IN  SumOver(LAMBDA i :
        Times(Nu[i], SumOver(LAMBDA j : Times(Nv[j], s.cps[i * s.n_v + j][c]),
                             0, s.n_v - 1)), 0, s.n_u - 1)

\* The span of t is empty: its end is also the start of the last one, or the
\* end of the first.
EndSpanEmpty(U, deg, last, t) ==
  \/ t = U[last + 1] /\ U[last] = U[last + 1]
  \/ t = U[deg] /\ U[deg] = U[deg + 1]

\* point() and point_and_partials() answer the tensor product of the definition
\* and its partial derivatives (Piegl and Tiller 4.4): over empty end spans,
\* and only there, what they answer with Ok is no number.
SurfaceExact ==
  asked.op \in {"point", "partials"} /\ surfaceSays.status = "Ok" =>
    LET s == surface
        S == surfaceSays.values
    IN  IF \/ EndSpanEmpty(s.ku, s.p, s.n_u - 1, asked.u)
           \/ EndSpanEmpty(s.kv, s.q, s.n_v - 1, asked.v)
        THEN \A k \in DOMAIN S : S[k] = Undef
        ELSE /\ Times(S[1], Tensor(0, 0, 2)) = Tensor(0, 0, 1)
             /\ asked.op = "partials" =>
                  /\ Plus(Times(S[2], Tensor(0, 0, 2)), Times(S[1], Tensor(1, 0, 2))) =
                       Tensor(1, 0, 1)
                  /\ Plus(Times(S[3], Tensor(0, 0, 2)), Times(S[1], Tensor(0, 1, 2))) =
                       Tensor(0, 1, 1)
==============================================================================
