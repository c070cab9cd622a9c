------------------------------ MODULE Numerals -------------------------------
(***************************************************************************)
(* Text and the numbers in it, for the two hand-written readers of the     *)
(* repository: the OpenNuts lexer and the JSON reader scan a number with   *)
(* the same loop and hand it to strtod and strtoll.                        *)
(*                                                                         *)
(* A text is a sequence of symbols; a symbol is one character, or a piece  *)
(* of a word (a keyword, a name) that stands for its letters.  A double is *)
(* the decimal mant * 10^exp it prints as, mant not a multiple of 10.      *)
(***************************************************************************)
EXTENDS Integers, Sequences, FiniteSetsExt, SequencesExt

CONSTANTS
  Precision,  \* digits a printed double has at most: 17
  IntMax      \* the largest int64_t; the smallest is -IntMax - 1

\* A whole double that is printed without an exponent fits an int64_t.
ASSUME NumeralsAssumption ==
  Precision \in Nat \ {0} /\ IntMax \in Nat /\ IntMax >= 10 ^ Precision

DigitOf == <<"0", "1", "2", "3", "4", "5", "6", "7", "8", "9">>
Digits == {DigitOf[i] : i \in DOMAIN DigitOf}
ValueOf(d) == (CHOOSE i \in DOMAIN DigitOf : DigitOf[i] = d) - 1

\* The first position from i on whose symbol is not in S, or the end
RunEnd(text, i, S) ==
  IF \A j \in i .. Len(text) : text[j] \in S THEN IF i > Len(text) THEN i ELSE Len(text) + 1
  ELSE Min({j \in i .. Len(text) : text[j] \notin S})

At(text, i) == IF i \in DOMAIN text THEN text[i] ELSE "end"

\* FoldLeft, halving the sequence: TLC's stack grows with the depth only.
Iterate(Op(_, _), start, seq) ==
  LET RECURSIVE Over(_, _, _)
      Over(i, j, before) ==
        IF i > j THEN before
        ELSE IF i = j THEN Op(before, seq[i])
        ELSE CHOOSE after \in {Over((i + j) \div 2 + 1, j, half) :
                                 half \in {Over(i, (i + j) \div 2, before)}} : TRUE
  IN  Over(1, Len(seq), start)

\* The digits of a text, read in base 10
Whole(digits) == Iterate(LAMBDA n, d : 10 * n + ValueOf(d), 0, digits)

RECURSIVE Decimal(_, _)
Decimal(mant, exp) ==
  IF mant = 0 THEN [mant |-> 0, exp |-> 0]
  ELSE IF mant % 10 = 0 THEN Decimal(mant \div 10, exp + 1)
  ELSE [mant |-> mant, exp |-> exp]

\* strtoll saturates.
Clamp(i) == IF i > IntMax THEN IntMax ELSE IF i < 0 - IntMax - 1 THEN 0 - IntMax - 1 ELSE i

Signed(negative, n) == IF negative THEN 0 - n ELSE n

\* The loop of Lexer::number() and of the JSON parse_number(), from i: where it
\* stops, whether the number is a float, whether strtod or strtoll takes all of
\* it, and the value.  strtod wants a digit, and a digit after an "e" that it
\* takes.
ScanNumber(text, i) ==
  LET negative == At(text, i) = "-"
      start == IF negative THEN i + 1 ELSE i
      point == RunEnd(text, start, Digits)
      mantEnd == IF At(text, point) = "." THEN RunEnd(text, point + 1, Digits)
                 ELSE point
      scaled == At(text, mantEnd) \in {"e", "E"}
      minus == scaled /\ At(text, mantEnd + 1) = "-"
      expStart == IF At(text, mantEnd + 1) \in {"+", "-"} THEN mantEnd + 2
                  ELSE mantEnd + 1
      end == IF scaled THEN RunEnd(text, expStart, Digits) ELSE mantEnd
      whole == SubSeq(text, start, point - 1)
      fraction == SubSeq(text, point + 1, mantEnd - 1)
      exponent == Signed(minus, IF scaled THEN Whole(SubSeq(text, expStart, end - 1))
                                ELSE 0)
      mant == Signed(negative, Whole(whole \o fraction))
      float == end > point
  IN  [end |-> end,
       float |-> float,
       taken |-> whole \o fraction # <<>> /\ (scaled => end > expStart),
       value |-> IF float THEN Decimal(mant, exponent - Len(fraction))
                 ELSE Decimal(Clamp(mant), 0)]

RECURSIVE DigitsOf(_)
DigitsOf(n) ==
  IF n < 10 THEN <<DigitOf[n + 1]>>
  ELSE Append(DigitsOf(n \div 10), DigitOf[(n % 10) + 1])

Zeros(n) == [i \in 1..n |-> "0"]
Sign(n) == IF n < 0 THEN <<"-">> ELSE <<>>
Size(n) == IF n < 0 THEN 0 - n ELSE n

\* snprintf "%lld"
IntText(n) == Sign(n) \o DigitsOf(Size(n))

\* snprintf "%.17g": no trailing zeros, an exponent of two digits when the
\* number is below 1e-4 or does not fit the precision
DoubleText(d) ==
  LET digits == DigitsOf(Size(d.mant))
      n == Len(digits)
      scale == n - 1 + d.exp
      exponent == (IF scale < 0 THEN <<"e", "-">> ELSE <<"e", "+">>) \o
                  (IF Size(scale) < 10 THEN <<"0">> ELSE <<>>) \o
                  DigitsOf(Size(scale))
      Pointed(k) == SubSeq(digits, 1, k) \o
                    (IF k = n THEN <<>> ELSE <<".">> \o SubSeq(digits, k + 1, n))
  IN  Sign(d.mant) \o
      (IF scale < 0 - 4 \/ scale >= Precision THEN Pointed(1) \o exponent
       ELSE IF d.exp >= 0 THEN digits \o Zeros(d.exp)
       ELSE IF scale >= 0 THEN Pointed(scale + 1)
       ELSE <<"0", ".">> \o Zeros(0 - scale - 1) \o digits)
==============================================================================
