-------------------------------- MODULE Splines -------------------------------
(***************************************************************************)
(* B-spline basis functions: the algorithms A2.2 and A2.3 of Piegl and     *)
(* Tiller as src/geom/nurbs_curve.cpp and nurbs_surface.cpp spell them     *)
(* out, and the recurrence they compute.                                   *)
(*                                                                         *)
(* A knot vector is a function U on 0 .. n + p + 1, as in the code.  Knots *)
(* and parameters are whole numbers of some step: the algorithms compare   *)
(* and subtract them and divide the differences.                           *)
(***************************************************************************)
EXTENDS Rational

\* Is U non-decreasing up to m?
Sorted(U, m) == \A i \in 1..m : U[i - 1] <= U[i]

\* Row j holds the degree-j functions that are not 0 on span i (basis_funs).
BasisTable(U, i, p, u) ==
  LET Left(j) == u - U[i + 1 - j]
      Right(j) == U[i + j] - u
      N[j \in 0..p] ==
        IF j = 0 THEN [r \in {0} |-> One]
        ELSE LET Part(r) == Over(N[j - 1][r], Whole(Right(r + 1) + Left(j - r)))
             IN  [r \in 0..j |->
                    Plus(IF r = 0 THEN Zero ELSE Scale(Left(j - r + 1), Part(r - 1)),
                         IF r = j THEN Zero ELSE Scale(Right(r + 1), Part(r)))]
  IN  N

BasisFuns(U, i, p, u) == BasisTable(U, i, p, u)[p]

\* The row a of weights of the k-th derivative of function r (the loop over k
\* of basis_funs_derivs); what it does not write is not to be read.
DerivRow(U, i, p, r) ==
  LET Knots(row, col) == Whole(U[i + col + 1] - U[i + col + 1 - row])
      a[k \in 0..p] ==
        IF k = 0 THEN [j \in 0..p |-> IF j = 0 THEN One ELSE Undef]
        ELSE LET rk == r - k
                 pk == p - k
                 j1 == IF rk >= 0 - 1 THEN 1 ELSE 0 - rk
                 j2 == IF r - 1 <= pk THEN k - 1 ELSE p - r
             IN  [j \in 0..p |->
                    CASE j = 0 /\ r >= k -> Over(a[k - 1][0], Knots(pk + 1, rk))
                      [] j \in j1..j2 ->
                           Over(Minus(a[k - 1][j], a[k - 1][j - 1]), Knots(pk + 1, rk + j))
                      [] j = k /\ r <= pk ->
                           Over(Scale(0 - 1, a[k - 1][k - 1]), Knots(pk + 1, r))
                      [] OTHER -> Undef]
  IN  a

\* Mutant of Falling: the factor is not reduced from order to order.
FallingPower(p, k) == IF k = 0 THEN 1 ELSE IF k = 1 THEN p ELSE p * p

\* rfact: p! / (p - k)!
Falling(p, k) == IF k = 0 THEN 1 ELSE IF k = 1 THEN p ELSE p * (p - 1)

\* The k-th derivative, k at most 2, of each function on span i, where N is
\* their BasisTable (basis_funs_derivs)
BasisDerivs(U, i, p, N, k) ==
  [r \in 0..p |->
     LET row == DerivRow(U, i, p, r)[k]
         rk == r - k
         written == (IF r >= k THEN {0} ELSE {}) \cup
                    ((IF rk >= 0 - 1 THEN 1 ELSE 0 - rk) ..
                     (IF r - 1 <= p - k THEN k - 1 ELSE p - r)) \cup
                    (IF r <= p - k THEN {k} ELSE {})
     IN  IF k = 0 THEN N[p][r]
         ELSE Scale(Falling(p, k),
                SumOver(LAMBDA j : IF j \in written THEN Times(row[j], N[p - k][rk + j])
                                   ELSE Zero, 0, k))]

------------------------------------------------------------------------------
(* The definition: the functions of degree 0 are 1 on their span and 0 off  *)
(* it, the last span that is not empty counts its end, and 0/0 is 0.        *)

\* The spans that hold u
SpanAt(U, n, p, u) ==
  LET at == {i \in p..n : U[i] < U[i + 1] /\ U[i] <= u}
  IN  {i \in at : \A j \in at : j <= i}

\* The k-th derivative of the function i of degree p at u
Defined(U, n, p, u, k) ==
  LET span == SpanAt(U, n, p, u)
      Quotient(x, a, b) == IF U[a] = U[b] THEN Zero ELSE Over(x, Whole(U[b] - U[a]))
      D[q \in 0..p, d \in 0..k, i \in 0 .. n + p] ==
        CASE q = 0 -> IF d = 0 /\ i \in span THEN One ELSE Zero
          [] q > 0 /\ d = 0 ->
               Plus(Quotient(Scale(u - U[i], D[q - 1, 0, i]), i, i + q),
                    Quotient(Scale(U[i + q + 1] - u, D[q - 1, 0, i + 1]), i + 1, i + q + 1))
          [] OTHER ->
               Scale(q, Minus(Quotient(D[q - 1, d - 1, i], i, i + q),
                              Quotient(D[q - 1, d - 1, i + 1], i + 1, i + q + 1)))
  IN  [i \in 0..n |-> D[p, k, i]]
==============================================================================
