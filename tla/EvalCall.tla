------------------------------ MODULE EvalCall -------------------------------
(***************************************************************************)
(* One gmk.lang.eval call, end to end: a client spells a program, perhaps  *)
(* mistypes it, and sends it as a JSON string in a frame; the server reads *)
(* the frame, the document and the program, and builds the bodies.  It     *)
(* composes the JSON reader and writer, the framing of JsonRpc, the lexer, *)
(* the parser and the evaluator.                                           *)
(*                                                                         *)
(* A program is a sequence of items.  Its primitives give a value to every *)
(* parameter of the constructor, and a style the arguments are written in. *)
(***************************************************************************)
EXTENDS Evaluator, Json, JsonRpc

CONSTANTS
  Drafts,     \* the programs a client writes, and what it puts between tokens
  Fragments,  \* other sources a client sends
  MaxSource,  \* bound: the longest source that is mistyped
  Keys,       \* the symbols a client mistypes
  MaxEdits,   \* bound: how often it does
  Extras,     \* entries a client adds to the parameters of the call
  Slips       \* how far a Content-Length is off

VARIABLES
  stage,     \* "draft", "wire", "parse", "eval" or "done"
  program,   \* what the client means to write, <<>> for a fragment
  source,    \* the text it has
  edits,     \* how often it has mistyped
  sent,      \* the document it sent
  wire,      \* [framing, length, symbols, slip]: what is on the transport
  received   \* [status, message]: what read_message() returned

client == <<program, source, edits>>
vars == <<stage, client, sent, wire, received, parser, tokens, evaluator>>

------------------------------------------------------------------------------
(* The client *)

RECURSIVE Commas(_)
Commas(parts) ==
  IF Len(parts) < 2 THEN FlattenSeq(parts)
  ELSE Head(parts) \o << <<",">> >> \o Commas(Tail(parts))

Numeral(v) == << DoubleText(v) >>

\* The arguments of a primitive in its style: by name, by name from the last to
\* the first, by place, or the first by place and the others by name
Written(prim) ==
  LET n == Len(prim.values)
      Named(i) == << <<Parameters[prim.shape][i]>>, <<":">> >> \o Numeral(prim.values[i])
      Placed(i) == Numeral(prim.values[i])
  IN  [i \in 1..n |->
         CASE prim.style = "named" -> Named(i)
           [] prim.style = "reversed" -> Named(n + 1 - i)
           [] prim.style = "placed" -> Placed(i)
           [] prim.style = "mixed" -> IF i = 1 THEN Placed(i) ELSE Named(i)]

InParentheses(parts) == << <<"(">> >> \o Commas(parts) \o << <<")">> >>

Clause(word, v) ==
  IF v = <<>> THEN <<>>
  ELSE << <<word>> >> \o InParentheses([i \in 1..3 |-> Numeral(v[i])])

SpellStatement(s) ==
  (IF s.is = "boolean"
   THEN << <<s.op>> >> \o InParentheses([i \in DOMAIN s.operands |-> << <<s.operands[i]>> >>])
   ELSE << <<s.shape>> >> \o InParentheses(Written(s)) \o
        Clause("axis", s.axis) \o Clause("at", s.at))
  \o << <<";">> >>

SpellItem(it) ==
  CASE it.is = "unit" -> << <<"unit">>, <<it.spelling>>, <<";">> >>
    [] it.is = "tolerance" -> << <<"tolerance">> >> \o Numeral(it.value) \o << <<";">> >>
    [] it.is = "body" ->
         << <<"body">>, it.name, <<"{">> >> \o
         FlattenSeq([i \in DOMAIN it.statements |-> SpellStatement(it.statements[i])]) \o
         << <<"}">> >>

\* A source that spells the program, with the layout between its tokens; two
\* words that would run into one are kept apart.
Spell(its, layout) ==
  LET words == FlattenSeq([i \in DOMAIN its |-> SpellItem(its[i])])
      Gap(i) == IF layout = <<>> /\ Last(words[i - 1]) \in Alnum
                                /\ Head(words[i]) \in Alnum
                THEN <<" ">> ELSE layout
  IN  FlattenSeq([i \in DOMAIN words |->
                    IF i = 1 THEN words[i] ELSE Gap(i) \o words[i]])

\* Symbols mistyped at position i: one left out, replaced or put before it
Mistyped(text, i) ==
  {RemoveAt(text, i)} \cup
  {ReplaceAt(text, i, k) : k \in Keys} \cup
  {InsertAt(text, i, k) : k \in Keys}

EvalRequest(text, extra) ==
  Object(<< << <<"id">>, Value("Int", 1) >>,
            << <<"method">>, Text(<<"eval">>) >>,
            << <<"params">>, Object(<< << <<"source">>, Text(text) >> >> \o extra) >> >>)

Init ==
  /\ stage = "draft"
  /\ edits = 0
  /\ \/ \E d \in Drafts : program = d.program /\ source = Spell(d.program, d.layout)
     \/ program = <<>> /\ source \in Fragments
  /\ sent = Null
  /\ wire = [framing |-> "none", length |-> 0, symbols |-> <<>>, slip |-> 0]
  /\ received = [status |-> "none", message |-> Null]
  /\ ParseInit(<<>>)
  /\ EvalInit

\* Bound: the last symbol of a source is one character.
Edit ==
  /\ stage = "draft"
  /\ program # <<>>
  /\ edits < MaxEdits /\ Len(source) <= MaxSource
  /\ edits' = edits + 1
  /\ \E i \in DOMAIN source : \E text \in Mistyped(source, i) :
       /\ text # <<>> /\ Last(text) \notin Words
       /\ source' = text
  /\ UNCHANGED <<stage, program, sent, wire, received, parser, tokens, evaluator>>

\* write_message(), with a Content-Length that is slip off.  A length that is
\* too large reaches into the frame after.  Bound: extras and slips come with
\* programs that are not mistyped.
Send(framing, extra, slip, follows) ==
  LET message == EvalRequest(source, extra)
      text == Write(message)
  IN  /\ stage = "draft"
      /\ edits > 0 => extra = <<>> /\ slip = 0 /\ ~follows /\ framing = "headers"
      /\ program = <<>> => extra = <<>> /\ slip = 0 /\ ~follows /\ framing = "headers"
      /\ framing = "newline" => slip = 0
      /\ sent' = message
      /\ wire' = [framing |-> framing,
                  length |-> Len(text) + slip,
                  symbols |-> text \o (IF framing = "newline" THEN <<"\n">> ELSE <<>>)
                              \o (IF follows THEN <<"Content-Length:", "1">> ELSE <<>>),
                  slip |-> slip]
      /\ stage' = "wire"
      /\ UNCHANGED <<client, received, parser, tokens, evaluator>>

------------------------------------------------------------------------------
(* The server *)

\* The body of the first frame, as a set of none or one: the symbols the header
\* announces, or those before the end of the line
FrameBody ==
  IF wire.framing = "newline"
  THEN LET end == RunEnd(wire.symbols, 1, Range(wire.symbols) \ {"\n"})
       IN  IF end > Len(wire.symbols) THEN {} ELSE {SubSeq(wire.symbols, 1, end - 1)}
  ELSE IF wire.length > Len(wire.symbols) THEN {}
  ELSE {SubSeq(wire.symbols, 1, wire.length)}

\* read_message(), as a set of one
ReadMessage ==
  IF FrameBody = {} THEN {[status |-> "Io", message |-> Null]}
  ELSE {[status |-> IF v.ok THEN "Ok" ELSE "Parse", message |-> v.value] :
          v \in {Parse(b) : b \in FrameBody}}

\* The program of an eval request: get_str("source")
SourceOf(message) ==
  {AsString(text, <<>>) :
     text \in UNION {Find(params, <<"source">>) : params \in Find(message, <<"params">>)}}

IsEval(message) ==
  \E m \in Find(message, <<"method">>) : AsString(m, <<>>) = <<"eval">>

Receive ==
  /\ stage = "wire"
  /\ \E r \in ReadMessage :
       /\ received' = r
       /\ \/ /\ r.status = "Ok" /\ IsEval(r.message)
             /\ \E text \in SourceOf(r.message) : tokens' = Lex(text, 1)
             /\ stage' = "parse"
          \/ /\ ~(r.status = "Ok" /\ IsEval(r.message))
             /\ stage' = "done"
             /\ UNCHANGED tokens
  /\ UNCHANGED <<client, sent, wire, parser, evaluator>>

Reading ==
  /\ stage = "parse"
  /\ ParseStep
  /\ UNCHANGED <<stage, client, sent, wire, received, evaluator>>

EndOfParse ==
  /\ stage = "parse"
  /\ Parsed
  /\ stage' = "eval"
  /\ UNCHANGED <<client, sent, wire, received, parser, tokens, evaluator>>

Building ==
  /\ stage = "eval"
  /\ EvalStep
  /\ UNCHANGED <<stage, client, sent, wire, received>>

Reply ==
  /\ stage = "eval"
  /\ Evaluated
  /\ stage' = "done"
  /\ UNCHANGED <<client, sent, wire, received, parser, tokens, evaluator>>

Done == stage = "done" /\ UNCHANGED vars

Next ==
  \/ Edit
  \/ \E framing \in Framings, extra \in Extras, slip \in Slips, follows \in BOOLEAN :
       Send(framing, extra, slip, follows)
  \/ Receive
  \/ Reading
  \/ EndOfParse
  \/ Building
  \/ Reply
  \/ Done

Spec == Init /\ [][Next]_vars
------------------------------------------------------------------------------
(* Properties *)

\* A second description of the layout: what a reader that knows only comments
\* and strings is in, and the symbols at which it comes to be in another.
Shift ==
  {<<"code", <<"/", "/">>, "line">>, <<"line", <<"\n">>, "code">>,
   <<"code", <<"/", "*">>, "opening">>, <<"block", <<"*", "/">>, "closing">>,
   <<"code", <<"\"">>, "string">>, <<"string", <<"\"">>, "code">>,
   <<"string", <<"\\">>, "escaped">>}

Starts(symbols, i) == \A k \in DOMAIN symbols : At(source, i + k - 1) = symbols[k]

ModeAfter(mode, i) ==
  LET hits == {s \in Shift : s[1] = mode /\ Starts(s[2], i)}
  IN  CASE mode = "opening" -> "block"
        [] mode = "closing" -> "code"
        [] mode = "escaped" -> "string"
        [] OTHER -> IF hits = {} THEN mode ELSE (CHOOSE s \in hits : TRUE)[3]

\* The symbol at i belongs to a token: it is neither blank nor comment, or it
\* is the last one, in a comment that is never closed.
IsSolid(mode, i) ==
  \/ mode \in {"string", "escaped"}
  \/ /\ source[i] \notin Blanks
     /\ \/ mode = "code" /\ ModeAfter(mode, i) \in {"code", "string"}
        \/ mode = "block" /\ i = Len(source)

SolidSymbols ==
  Iterate(LAMBDA scan, i : [mode |-> ModeAfter(scan.mode, i),
                            solid |-> IF IsSolid(scan.mode, i) THEN scan.solid \cup {i}
                                      ELSE scan.solid],
          [mode |-> "code", solid |-> {}], [i \in DOMAIN source |-> i]).solid

NumeralSymbols == Digits \cup {".", "e", "E", "+", "-"}

\* -? D+ (. D*)? (e [+-]? D*)?
IsNumeral(s) ==
  \E a \in 0..1, b \in 1 .. Len(s) :
    \E c \in b .. Len(s) :
      /\ a = 1 => s[1] = "-"
      /\ a < b /\ \A i \in a + 1 .. b : s[i] \in Digits
      /\ \/ c = b
         \/ s[b + 1] = "." /\ \A i \in b + 2 .. c : s[i] \in Digits
      /\ \/ c = Len(s)
         \/ /\ s[c + 1] \in {"e", "E"}
            /\ \A i \in c + 2 .. Len(s) :
                 s[i] \in Digits \/ (i = c + 2 /\ s[i] \in {"+", "-"})

\* The tokens cover exactly what is neither blank nor comment, in order, and
\* each is as long as it can be: no layout merges two tokens or splits one, a
\* comment hides nothing but itself, and what follows "-" decides what it is
\* (lexer.cpp next() and skip_ws_and_comments()).
LexExact ==
  stage = "parse" /\ at = 1 =>
    /\ UNION {t.begin .. t.end - 1 : t \in Range(tokens)} = SolidSymbols
    /\ \A i \in DOMAIN tokens \ {1} : tokens[i - 1].end <= tokens[i].begin
    /\ \A t \in Range(tokens) :
         LET text == SubSeq(source, t.begin, t.end - 1)
         IN  CASE t.kind = "Number" ->
                    /\ IsNumeral(text)
                    /\ \A e \in t.end .. RunEnd(source, t.end, NumeralSymbols) - 1 :
                         ~IsNumeral(SubSeq(source, t.begin, e))
               [] t.kind = "String" -> text[1] = "\""
               [] t.text # <<>> ->
                    /\ text[1] \in Letters /\ Range(text) \subseteq Alnum
                    /\ At(source, t.end) \notin Alnum
               [] OTHER -> t.end = t.begin + 1 /\ ~IsNumeral(text)

\* The grammar of OpenNuts, as the transitions of an automaton on token kinds;
\* it is between items in "top" and between statements in "body".
Grammar ==
  LET Chain(from, kinds, to) ==
        {<<IF i = 1 THEN from ELSE <<from, to, kinds, i>>, kinds[i],
           IF i = Len(kinds) THEN to ELSE <<from, to, kinds, i + 1>> >> :
           i \in DOMAIN kinds}
      N == "Number"
      Vector == <<"LParen", N, "Comma", N, "Comma", N, "RParen">>
  IN  Chain(<<"top">>, <<"KwUnit", "UnitName", "Semicolon">>, <<"top">>) \cup
      Chain(<<"top">>, <<"KwTolerance", N, "Semicolon">>, <<"top">>) \cup
      Chain(<<"top">>, <<"KwBody", "Ident", "LBrace">>, <<"body">>) \cup
      {<< <<"top">>, "KwBody", <<"unitname">> >>, << <<"unitname">>, "UnitName", <<"brace">> >>,
       << <<"brace">>, "LBrace", <<"body">> >>, << <<"body">>, "RBrace", <<"top">> >>} \cup
      UNION {Chain(<<"body">>, <<k, "LParen">>, <<"args">>) : k \in DOMAIN ShapeOf} \cup
      {<< <<"args">>, "RParen", <<"clauses">> >>, << <<"args">>, N, <<"next">> >>,
       << <<"arg">>, N, <<"next">> >>, << <<"next">>, "Comma", <<"arg">> >>,
       << <<"next">>, "RParen", <<"clauses">> >>} \cup
      {<<from, name, <<"named">> >> : from \in {<<"args">>, <<"arg">>},
                                      name \in {"Ident", "UnitName"}} \cup
      Chain(<<"named">>, <<"Colon", N>>, <<"next">>) \cup
      UNION {Chain(<<"clauses">>, <<k>> \o Vector, <<"clauses">>) : k \in {"KwAt", "KwAxis"}} \cup
      {<< <<"clauses">>, "Semicolon", <<"body">> >>} \cup
      UNION {Chain(<<"body">>, <<k, "LParen">>, <<"operands">>) : k \in DOMAIN OperationOf} \cup
      {<< <<"operands">>, name, <<"operand">> >> : name \in {"Ident", "UnitName"}} \cup
      {<< <<"operand">>, "Comma", <<"operands">> >>} \cup
      {<<from, "RParen", <<"end">> >> : from \in {<<"operands">>, <<"operand">>}} \cup
      {<< <<"end">>, "Semicolon", <<"body">> >>}

\* Where the automaton ends on the tokens from i to j - 1, {} for nowhere
Accepts(q, i, j) ==
  LET Letter(t) == IF t.kind = "Ident" /\ IsUnit(t.text) THEN "UnitName" ELSE t.kind
  IN  Iterate(LAMBDA qs, t : {d[3] : d \in {e \in Grammar : e[1] \in qs /\ e[2] = Letter(t)}},
               {q}, SubSeq(tokens, i, j - 1))

Between(body) == IF body = <<>> THEN <<"top">> ELSE <<"body">>

\* Every step of the parser takes a text of the grammar and reports nothing, or
\* takes something else and reports it, and every step takes a token or ends a
\* body: an error is blamed on the item or statement it is in, what follows the
\* recovery is not blamed for it, and no damage makes the parser stand still,
\* with or without a report (a turn that takes nothing still adds an item or a
\* statement, so it is no stutter).  parser.hpp:5 "The parser is *recovering*".
BlameExact ==
  [][stage = "parse" /\ stage' = "parse" =>
       /\ diags' = diags <=> Between(open') \in Accepts(Between(open), at, at')
       /\ at' > at \/ (at' = at /\ open # <<>> /\ open' = <<>>)]_vars

Statements(its) ==
  Iterate(LAMBDA n, it : IF it.is = "body" /\ it.name # <<>>
                          THEN n + Len(it.statements) ELSE n, 0, its)

Reports(codes) == Len(SelectSeq(diags, LAMBDA d : d.code \in codes))

\* However the source is damaged, every statement that was parsed into a body
\* with a name gives a body to the store or exactly one diagnostic of its own,
\* and what has no name was reported by the parser (eval.cpp eval_program).
NothingLost ==
  stage = "done" /\ received.status = "Ok" =>
    /\ Len(built) + Reports({"E001", "E002", "E003"}) = Statements(items)
    /\ Len(SelectSeq(items, LAMBDA it : it.is = "body" /\ it.name = <<>>)) <=
         Reports({"P002", "B001"})
    /\ [i \in DOMAIN built |-> built[i].id] = [i \in DOMAIN store |-> i]

\* The bodies a program means, worked out from the values it gives to the
\* parameters
UnitAt(i) ==
  LET before == {j \in 1 .. i - 1 : program[j].is = "unit"}
  IN  IF before = {} THEN "Mm" ELSE UnitOf[program[Max(before)].spelling]

Scaled(v, u) == LengthInUnits(v, u)

Meaning(stmt, u) ==
  [shape |-> stmt.shape,
   centre |-> IF stmt.at = <<>> THEN <<0, 0, 0>>
              ELSE [i \in 1..3 |-> Scaled(stmt.at[i], u)],
   axis |-> stmt.axis,
   lengths |-> [i \in DOMAIN stmt.values |->
                  IF stmt.shape = "box" THEN Scaled(stmt.values[i], u) \div 2
                  ELSE Scaled(stmt.values[i], u)]]

\* The solids of the i-th item, each with its item
Solids(i) ==
  LET it == program[i]
      Sound(stmt) == /\ stmt.is = "primitive"
                     /\ ~Refuses(stmt, Meaning(stmt, UnitAt(i)).lengths)
      Sounds == SelectSeq(it.statements, Sound)
  IN  IF it.is # "body" THEN <<>>
      ELSE [j \in DOMAIN Sounds |-> [of |-> i, solid |-> Meaning(Sounds[j], UnitAt(i))]]

\* A program that is sent as it was meant arrives as it was meant, through the
\* JSON string, the frame, the lexer, the parser and the evaluator: whatever
\* the layout, the order and style of the arguments, and the units before it,
\* the store holds the solid of every primitive that is sound, in order and
\* nothing else, and the reply lists each under a name that begins with its
\* declaration's and that no other solid of the declaration has.  That one
\* declaration gives several bodies, and what comes after its name in theirs,
\* is the code's way and not that of eval.hpp:7-8 and eval.cpp:175-177.
BuiltAsMeant ==
  stage = "done" /\ received.status = "Ok" /\ edits = 0 /\ program # <<>> =>
    LET meant == FlattenSeq([i \in DOMAIN program |-> Solids(i)])
    IN  /\ [k \in DOMAIN built |-> store[built[k].id]] =
             [k \in DOMAIN meant |-> meant[k].solid]
        /\ Len(store) = Len(meant)
        /\ \A k \in DOMAIN meant :
             /\ IsPrefix(program[meant[k].of].name, built[k].name)
             /\ \A l \in DOMAIN meant :
                  meant[l].of = meant[k].of /\ built[l].name = built[k].name => l = k

\* A document as it comes back: a double that prints as a whole number is read
\* as an integer, what is no number as null.
RECURSIVE Reread(_)
Reread(value) ==
  CASE value.t = "Double" ->
         IF value.v.exp >= 0 /\ Size(value.v.mant) * 10 ^ value.v.exp < 10 ^ Precision
         THEN Value("Int", value.v.mant * 10 ^ value.v.exp) ELSE value
    [] value.t = "NotFinite" -> Null
    [] value.t = "Array" ->
         Value("Array", [i \in DOMAIN value.v |-> Reread(value.v[i])])
    [] value.t = "Object" ->
         Object([i \in DOMAIN value.v |-> <<value.v[i][1], Reread(value.v[i][2])>>])
    [] OTHER -> value

FrameKind ==
  IF wire.slip > 0 THEN "overlong" ELSE IF wire.slip < 0 THEN "underlong" ELSE "message"
Frame(kind) == [kind |-> kind, msg |-> 0]

\* What is written is read back; a document that the frame cuts short, or that
\* runs on into the next frame, is refused with the status JsonRpc gives for
\* that frame (jsonrpc.cpp read_message, json.cpp parse).
JsonExact ==
  stage \notin {"draft", "wire"} =>
    /\ received.status =
         ReadStatus(wire.framing,
                    <<Frame(FrameKind)>> \o
                    (IF "Content-Length:" \in Range(wire.symbols)
                     THEN <<Frame("message")>> ELSE <<>>))
    /\ received.status = "Ok" => received.message = Reread(sent)
==============================================================================
