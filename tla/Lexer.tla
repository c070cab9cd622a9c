------------------------------- MODULE Lexer ---------------------------------
(***************************************************************************)
(* src/lang/lexer.cpp: the tokens of an OpenNuts source.  A position is an *)
(* index of a symbol; line and column are not kept.                        *)
(***************************************************************************)
EXTENDS Numerals

CONSTANT Names  \* pieces of a word that are not a keyword by themselves

KeywordKind ==
  [unit |-> "KwUnit", tolerance |-> "KwTolerance", body |-> "KwBody",
   at |-> "KwAt", axis |-> "KwAxis", true |-> "KwTrue", false |-> "KwFalse",
   box |-> "KwBox", sphere |-> "KwSphere", cylinder |-> "KwCylinder",
   cone |-> "KwCone", torus |-> "KwTorus", union |-> "KwUnion",
   intersect |-> "KwIntersect", subtract |-> "KwSubtract"]

PunctuationKind ==
  << <<"(", "LParen">>, <<")", "RParen">>, <<"{", "LBrace">>, <<"}", "RBrace">>,
     <<"[", "LBracket">>, <<"]", "RBracket">>, <<",", "Comma">>,
     <<";", "Semicolon">>, <<":", "Colon">>, <<"=", "Equals">> >>

Words == DOMAIN KeywordKind \cup Names
Letters == Words \cup {"e", "E"}
Alnum == Letters \cup Digits
Blanks == {" ", "\t", "\r", "\n"}

\* The position of the "*" that ends the block comment opened at i
Closers(src, i) ==
  {j \in i + 2 .. Len(src) - 1 : src[j] = "*" /\ src[j + 1] = "/"}

\* skip_ws_and_comments(): a block comment that is never closed leaves the last
\* character of the source.
RECURSIVE SkipBlank(_, _)
SkipBlank(src, i) ==
  CASE At(src, i) \in Blanks -> SkipBlank(src, i + 1)
    [] At(src, i) = "/" /\ At(src, i + 1) = "/" ->
         SkipBlank(src, RunEnd(src, i, {src[j] : j \in i .. Len(src)} \ {"\n"}))
    [] At(src, i) = "/" /\ At(src, i + 1) = "*" ->
         SkipBlank(src, IF Closers(src, i) # {} THEN Min(Closers(src, i)) + 2
                        ELSE Max({i + 2, Len(src)}))
    [] OTHER -> i

\* string_lit(): where it ends.  A backslash takes the next character with it;
\* without a closing quote the rest of the source is the string.
RECURSIVE StringEnd(_, _)
StringEnd(src, i) ==
  IF i > Len(src) THEN i
  ELSE IF src[i] = "\"" THEN i + 1
  ELSE StringEnd(src, IF src[i] = "\\" /\ i < Len(src) THEN i + 2 ELSE i + 1)

NoValue == [mant |-> 0, exp |-> 0]
Token(kind, begin, end, text, value) ==
  [kind |-> kind, begin |-> begin, end |-> end, text |-> text, value |-> value]

\* ident_or_keyword()
Word(src, i) ==
  LET end == RunEnd(src, i, Alnum)
      text == SubSeq(src, i, end - 1)
      keyword == Len(text) = 1 /\ text[1] \in DOMAIN KeywordKind
  IN  Token(IF keyword THEN KeywordKind[text[1]] ELSE "Ident", i, end, text,
            NoValue)

\* number()
Number(src, i) ==
  LET n == ScanNumber(src, i)
  IN  Token("Number", i, n.end, <<>>, n.value)

\* punctuation()
Punctuation(src, i) ==
  LET known == {p \in Range(PunctuationKind) : p[1] = src[i]}
  IN  Token(IF known = {} THEN "Invalid" ELSE (CHOOSE p \in known : TRUE)[2],
            i, i + 1, <<>>, NoValue)

\* Mutant of StartsNumber: a sign always starts a number.
StartsNumberAnySign(src, i) == src[i] \in Digits \cup {"-"}

\* A sign starts a number only before a digit.
StartsNumber(src, i) ==
  src[i] \in Digits \/ (src[i] = "-" /\ At(src, i + 1) \in Digits)

\* next(), past blanks and comments, with a character left
NextToken(src, i) ==
  IF src[i] \in Letters THEN Word(src, i)
  ELSE IF StartsNumber(src, i) THEN Number(src, i)
  ELSE IF src[i] = "\"" THEN Token("String", i, StringEnd(src, i + 1), <<>>, NoValue)
  ELSE Punctuation(src, i)

\* The tokens from i on; the end of the source is the end of the sequence.
RECURSIVE Lex(_, _)
Lex(src, i) ==
  LET start == SkipBlank(src, i)
  IN  IF start > Len(src) THEN <<>>
      ELSE LET t == NextToken(src, start) IN <<t>> \o Lex(src, t.end)
==============================================================================
