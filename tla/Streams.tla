------------------------------- MODULE Streams --------------------------------
(***************************************************************************)
(* Parts of a stream of frames.  SelectSeq with the places in a set rather *)
(* than a test, and with a recursive function rather than an operator as   *)
(* its definition, so that StreamProofs can show what it does.             *)
(***************************************************************************)
EXTENDS Naturals, Sequences

\* The elements of s at the places in I, in their order.
Pick(s, I) ==
  LET picked[i \in 0..Len(s)] ==
        IF i = 0 THEN <<>>
        ELSE IF i \in I THEN Append(picked[i - 1], s[i]) ELSE picked[i - 1]
  IN  picked[Len(s)]
==============================================================================
