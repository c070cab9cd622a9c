--------------------------------- MODULE Units --------------------------------
(***************************************************************************)
(* The saturating sums of lengths in include/gmk/units.hpp, which          *)
(* Vec3i::operator+ and operator- are made of.  They clamp after they add: *)
(* signed overflow of the sum is undefined, so a sum that does not fit may *)
(* be any int64_t.                                                         *)
(***************************************************************************)
EXTENDS Integers

CONSTANT Int64Max

int64_t == -Int64Max - 1 .. Int64Max

LENGTH_MAX == Int64Max \div 2
LENGTH_MIN == 0 - LENGTH_MAX
Legal == LENGTH_MIN .. LENGTH_MAX

clamp_length(v) ==
  IF v > LENGTH_MAX THEN LENGTH_MAX ELSE IF v < LENGTH_MIN THEN LENGTH_MIN ELSE v

\* What a machine sum may be that should be x
Computed(x) == IF x \in int64_t THEN {x} ELSE int64_t

\* The values they may return
sat_add(a, b) == {clamp_length(r) : r \in Computed(a + b)}
sat_sub(a, b) == {clamp_length(r) : r \in Computed(a - b)}

------------------------------------------------------------------------------
Distance(x, y) == IF x < y THEN y - x ELSE x - y

\* r is a length of the working range, and none is nearer to x.
NearestLegal(r, x) ==
  r \in Legal /\ \A l \in Legal : Distance(r, x) <= Distance(l, x)
==============================================================================
