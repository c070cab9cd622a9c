------------------------------- MODULE MCCurves -------------------------------
EXTENDS NurbsSurface

\* A sequence, counted from 0
From0(s) == [i \in 0 .. Len(s) - 1 |-> s[i + 1]]
Wholes(s) == [i \in 0 .. Len(s) - 1 |-> Whole(s[i + 1])]

\* Arguments of init() of a curve, and of a surface
Args(degree, us, xs, ws) ==
  [p |-> degree, n_knots |-> Len(us), knots |-> From0(us),
   n |-> Len(xs) - 1, x |-> Wholes(xs), w |-> Wholes(ws)]
Grid(degU, degV, us, vs, rows, columns, xs, ws) ==
  [p |-> degU, q |-> degV, n_ku |-> Len(us), ku |-> From0(us),
   n_kv |-> Len(vs), kv |-> From0(vs), n_u |-> rows, n_v |-> columns,
   x |-> Wholes(xs), w |-> Wholes(ws)]

\* The curve of the tests, and curves with one span, a double knot, free ends,
\* a gap, and ends that are too many
TestCurve == Args(2, <<0, 0, 0, 2, 4, 6, 6, 6>>, <<0, 1, 2, 3, 4>>, <<1, 1, 2, 1, 1>>)
MCCurves ==
  {TestCurve,
   Args(1, <<0, 0, 2, 6, 6>>, <<1, 3, 1>>, <<1, 2, 1>>),
   Args(2, <<0, 0, 0, 3, 3, 6, 6, 6>>, <<0, 0 - 1, 2, 1, 0>>, <<1, 1, 1, 3, 1>>),
   Args(2, <<0, 1, 2, 4, 5, 6>>, <<2, 0, 1>>, <<1, 1, 2>>),
   Args(3, <<0, 0, 0, 0, 2, 4, 4, 4, 4>>, <<0, 2, 1, 3, 1>>, <<1, 2, 1, 1, 1>>),
   Args(1, <<0, 0, 3, 3, 6, 6>>, <<0, 1, 2, 3>>, <<1, 1, 1, 1>>),
   Args(1, <<0, 0, 2, 2, 2>>, <<0, 1, 2>>, <<1, 1, 1>>),
   Args(1, <<3, 3, 3, 3>>, <<0, 1>>, <<1, 1>>),
   Args(0, <<0, 1>>, <<0>>, <<1>>),
   Args(2, <<0, 0, 1, 1>>, <<0, 1>>, <<1, 1>>),
   Args(1, <<0, 0, 1, 1, 1>>, <<0, 1>>, <<1, 1>>),
   Args(1, <<1, 0, 2, 2>>, <<0, 1>>, <<1, 1>>),
   Args(1, <<0, 0, 1, 1>>, <<0, 1>>, <<1, 0>>)}
MCTestCurve == {TestCurve}

\* A patch of different degrees, one with an inner knot and more columns than
\* rows, one whose last span in v is empty, and what init() refuses
MCSurfaces ==
  {Grid(1, 2, <<0, 0, 3, 3>>, <<0, 0, 0, 2, 2, 2>>, 2, 3,
        <<0, 1, 0, 2, 4, 1>>, <<1, 2, 1, 1, 1, 3>>),
   Grid(2, 1, <<0, 0, 0, 1, 4, 4, 4>>, <<0, 0, 2, 3, 3>>, 4, 3,
        <<0, 1, 2, 3, 1, 0, 2, 2, 1, 0, 3, 1>>, <<1, 1, 1, 1, 2, 1, 1, 1, 1, 1, 1, 2>>),
   Grid(1, 1, <<0, 0, 1, 1>>, <<0, 0, 2, 2, 2>>, 2, 3, <<0, 1, 2, 3, 4, 5>>, <<1, 1, 1, 1, 1, 1>>),
   Grid(1, 0, <<0, 0, 1, 1>>, <<0, 1>>, 2, 1, <<0, 1>>, <<1, 1>>),
   Grid(1, 2, <<0, 0, 1, 1>>, <<0, 0, 0, 1, 1>>, 2, 2, <<0, 1, 2, 3>>, <<1, 1, 1, 1>>),
   Grid(1, 1, <<0, 0, 1, 1>>, <<0, 0, 0, 1, 1>>, 2, 2, <<0, 1, 2, 3>>, <<1, 1, 1, 1>>),
   Grid(1, 1, <<0, 0, 1, 1>>, <<0, 1, 0, 1>>, 2, 2, <<0, 1, 2, 3>>, <<1, 1, 1, 1>>),
   Grid(1, 1, <<0, 0, 1, 1>>, <<0, 0, 1, 1>>, 2, 2, <<0, 1, 2, 3>>, <<1, 1, 0, 1>>)}
NoSurfaces == {}

MCOrders == {<<2, 3>>, <<1, 2>>, <<2, 2>>, <<3, 3>>}
MCParameters == 0 - 1 .. 6
==============================================================================
