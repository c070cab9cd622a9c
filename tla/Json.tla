-------------------------------- MODULE Json ---------------------------------
(***************************************************************************)
(* src/server/json.cpp: reading and writing a JSON document.  A value is   *)
(* [t, v]; an object is a sequence of <<key, value>>, which keeps its      *)
(* order and its duplicates.                                               *)
(***************************************************************************)
EXTENDS Numerals

Value(t, v) == [t |-> t, v |-> v]
Null == Value("Null", <<>>)
Text(s) == Value("String", s)
Object(entries) == Value("Object", entries)

\* Value::find(): the first entry of that key, as a set of none or one
Find(value, key) ==
  IF value.t # "Object" THEN {}
  ELSE LET hits == {i \in DOMAIN value.v : value.v[i][1] = key}
       IN  IF hits = {} THEN {} ELSE {value.v[Min(hits)][2]}

\* Value::as_string()
AsString(value, default) == IF value.t = "String" THEN value.v ELSE default

------------------------------------------------------------------------------
(* Writer *)

Control == "<01>"  \* a control character that has no escape of its own

\* One character of write_string()
Escaped(c) ==
  CASE c \in {"\"", "\\"} -> <<"\\", c>>
    [] c = "\n" -> <<"\\", "n">>
    [] c = "\r" -> <<"\\", "r">>
    [] c = "\t" -> <<"\\", "t">>
    [] c = Control -> <<"\\", "u", "0", "0", "0", "1">>
    [] OTHER -> <<c>>

WriteString(s) ==
  <<"\"">> \o FlattenSeq([i \in DOMAIN s |-> Escaped(s[i])]) \o <<"\"">>

Listed(open, parts, close) ==
  open \o FlattenSeq([i \in DOMAIN parts |->
                        IF i = 1 THEN parts[i] ELSE <<",">> \o parts[i]]) \o close

\* write_value(), compact.  A number no double holds is written as null.
RECURSIVE Write(_)
Write(value) ==
  CASE value.t = "Null" -> <<"null">>
    [] value.t = "Bool" -> IF value.v THEN <<"true">> ELSE <<"false">>
    [] value.t = "Int" -> IntText(value.v)
    [] value.t = "Double" -> DoubleText(value.v)
    [] value.t = "NotFinite" -> <<"null">>
    [] value.t = "String" -> WriteString(value.v)
    [] value.t = "Array" ->
         Listed(<<"[">>, [i \in DOMAIN value.v |-> Write(value.v[i])], <<"]">>)
    [] value.t = "Object" ->
         Listed(<<"{">>, [i \in DOMAIN value.v |->
                            WriteString(value.v[i][1]) \o <<":">> \o
                            Write(value.v[i][2])], <<"}">>)

------------------------------------------------------------------------------
(* Reader: each part returns [ok, value, at], at the first symbol not read. *)

JsonBlanks == {" ", "\t", "\r", "\n"}
SkipWs(text, i) == RunEnd(text, i, JsonBlanks)

Read(value, i) == [ok |-> TRUE, value |-> value, at |-> i]
Unreadable(i) == [ok |-> FALSE, value |-> Null, at |-> i]

Literals == [null |-> Null, true |-> Value("Bool", TRUE), false |-> Value("Bool", FALSE)]

\* parse_number(): a text strtod or strtoll leaves a rest of is refused.
ReadNumber(text, i) ==
  LET n == ScanNumber(text, i)
  IN  IF ~n.taken THEN Unreadable(n.end)
      ELSE IF n.float THEN Read(Value("Double", n.value), n.end)
      ELSE Read(Value("Int", n.value.mant * 10 ^ n.value.exp), n.end)

\* What an escape stands for; \u is read apart.
EscapeOf == << <<"\"", "\"">>, <<"\\", "\\">>, <<"/", "/">>, <<"b", "<08>">>,
               <<"f", "<0c>">>, <<"n", "\n">>, <<"r", "\r">>, <<"t", "\t">> >>

\* The four digits of \u.  Bound: of the characters they name only Control is
\* told apart.
CodePoint(text, i) ==
  IF SubSeq(text, i, i + 3) = <<"0", "0", "0", "1">> THEN Control ELSE "<u>"

HexDigits == Digits \cup {"a", "b", "c", "d", "e", "f", "A", "B", "C", "D", "E", "F"}

\* parse_string_to() after the opening quote, from one escape to the next
RECURSIVE ReadChars(_, _, _)
ReadChars(text, i, before) ==
  LET j == RunEnd(text, i, Range(text) \ {"\"", "\\"})
      s == before \o SubSeq(text, i, j - 1)
      known == {e \in Range(EscapeOf) : e[1] = At(text, j + 1)}
  IN  IF j > Len(text) THEN Unreadable(j)
      ELSE IF text[j] = "\"" THEN Read(Text(s), j + 1)
      ELSE IF known # {}
      THEN ReadChars(text, j + 2, Append(s, (CHOOSE e \in known : TRUE)[2]))
      ELSE IF At(text, j + 1) = "u" /\ \A h \in j + 2 .. j + 5 : At(text, h) \in HexDigits
      THEN ReadChars(text, j + 6, Append(s, CodePoint(text, j + 2)))
      ELSE Unreadable(j + 1)

ReadString(text, i) == ReadChars(text, i + 1, <<>>)

\* After an element: "," and another one, or the closing bracket
RECURSIVE ReadValue(_, _), ReadElements(_, _, _), ReadEntries(_, _, _)
ReadElements(text, i, elements) ==
  LET e == ReadValue(text, i)
      next == SkipWs(text, e.at)
      all == Append(elements, e.value)
  IN  IF ~e.ok THEN e
      ELSE CASE At(text, next) = "," -> ReadElements(text, next + 1, all)
             [] At(text, next) = "]" -> Read(Value("Array", all), next + 1)
             [] OTHER -> Unreadable(next)

ReadEntries(text, i, entries) ==
  LET start == SkipWs(text, i)
      key == ReadString(text, start)
      colon == SkipWs(text, key.at)
      v == ReadValue(text, colon + 1)
      next == SkipWs(text, v.at)
      all == Append(entries, <<key.value.v, v.value>>)
  IN  IF At(text, start) # "\"" THEN Unreadable(start)
      ELSE IF ~key.ok THEN key
      ELSE IF At(text, colon) # ":" THEN Unreadable(colon)
      ELSE IF ~v.ok THEN v
      ELSE CASE At(text, next) = "," -> ReadEntries(text, next + 1, all)
             [] At(text, next) = "}" -> Read(Object(all), next + 1)
             [] OTHER -> Unreadable(next)

\* parse_value()
ReadValue(text, i) ==
  LET start == SkipWs(text, i)
      c == At(text, start)
      inside == SkipWs(text, start + 1)
  IN  CASE c = "{" -> IF At(text, inside) = "}" THEN Read(Object(<<>>), inside + 1)
                      ELSE ReadEntries(text, inside, <<>>)
        [] c = "[" -> IF At(text, inside) = "]" THEN Read(Value("Array", <<>>), inside + 1)
                      ELSE ReadElements(text, inside, <<>>)
        [] c = "\"" -> ReadString(text, start)
        [] c \in DOMAIN Literals -> Read(Literals[c], start + 1)
        [] c \in Digits \cup {"-"} -> ReadNumber(text, start)
        [] OTHER -> Unreadable(start)

\* Mutant of Parse: what follows the value is not looked at.
ParsePrefix(text) == ReadValue(text, 1)

\* json::parse(): nothing but blanks may follow the value.
Parse(text) ==
  LET v == ReadValue(text, 1)
  IN  IF v.ok /\ SkipWs(text, v.at) <= Len(text)
      THEN Unreadable(SkipWs(text, v.at)) ELSE v
==============================================================================
