------------------------------- MODULE Rational -------------------------------
(***************************************************************************)
(* Exact rationals for what the code computes in doubles: a pair of        *)
(* integers in lowest terms, the denominator positive.  Undef stands for   *)
(* an infinity or a NaN, which every operation passes on.                  *)
(***************************************************************************)
EXTENDS Integers

Undef == <<0, 0>>

Gcd[a \in Nat, b \in Nat] == IF b = 0 THEN a ELSE Gcd[b, a % b]

Magnitude(a) == IF a < 0 THEN 0 - a ELSE a

\* a / b
Ratio(a, b) ==
  LET g == Gcd[Magnitude(a), Magnitude(b)]
      s == IF b < 0 THEN 0 - 1 ELSE 1
  IN  IF b = 0 THEN Undef ELSE <<s * (a \div g), s * (b \div g)>>

Whole(a) == <<a, 1>>
Zero == Whole(0)
One == Whole(1)

\* Each operation divides common factors out first: TLC's integers are short.
Joined(x, y) == <<x[1] * y[1], x[2] * y[2]>>

\* With an operand that is Undef the denominator is 0.
Times(x, y) == Joined(Ratio(x[1], y[2]), Ratio(y[1], x[2]))
Over(x, y) == Joined(Ratio(x[1], y[1]), Ratio(y[2], x[2]))
Scale(k, x) == Times(Whole(k), x)

Plus(x, y) ==
  LET g == Gcd[x[2], y[2]]
  IN  IF x = Undef \/ y = Undef THEN Undef
      ELSE Ratio(x[1] * (y[2] \div g) + y[1] * (x[2] \div g), x[2] * (y[2] \div g))
Minus(x, y) == Plus(x, Scale(0 - 1, y))

Positive(x) == x[1] > 0

\* The sum of F(i) over i from lo to hi
SumOver(F(_), lo, hi) ==
  LET upTo[i \in lo - 1 .. hi] == IF i < lo THEN Zero ELSE Plus(upTo[i - 1], F(i))
  IN  IF hi < lo THEN Zero ELSE upTo[hi]
==============================================================================
