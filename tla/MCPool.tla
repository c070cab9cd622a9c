------------------------------- MODULE MCPool --------------------------------
(***************************************************************************)
(* Pool with two-bit generations (HalfGens = 2): the third allocation of a *)
(* slot returns to the first one's generation.  MCPool.cfg stays below     *)
(* that, MCPoolWrap.cfg goes past it.                                      *)
(***************************************************************************)
EXTENDS Pool
==============================================================================
