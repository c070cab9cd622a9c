------------------------------- MODULE Parser --------------------------------
(***************************************************************************)
(* src/lang/parser.cpp, the recovering parser of OpenNuts: one step per    *)
(* item of a program and per statement of a body, as its two loops take    *)
(* them.                                                                   *)
(*                                                                         *)
(* Inside a step the parser is [at, diags]: the position of the token it   *)
(* looks at, and what it has reported.  A span keeps its first token.      *)
(***************************************************************************)
EXTENDS Lexer

VARIABLES
  tokens,  \* what the lexer makes of the source
  at,      \* the position of tok_
  items,   \* prog.items
  open,    \* the body whose statements are being parsed, <<>> for none
  diags    \* diags_: [code, at], in order

parser == <<at, items, open, diags>>

Kind(i) == IF i \in DOMAIN tokens THEN tokens[i].kind ELSE "Eof"
Is(p, kind) == Kind(p.at) = kind

\* take(): at the end of the source the lexer returns Eof again.
Take(p) == [p EXCEPT !.at = IF @ \in DOMAIN tokens THEN @ + 1 ELSE @]
Report(p, i, code) == [p EXCEPT !.diags = Append(@, [code |-> code, at |-> i])]

\* expect(): what it does not find it does not take.
Expect(p, kind) == IF Is(p, kind) THEN Take(p) ELSE Report(p, p.at, "P001")

\* sync_to(): the token it stops at is taken.
SyncTo(p, kinds) ==
  Take([p EXCEPT !.at =
          Min({i \in p.at .. Len(tokens) + 1 : Kind(i) \in kinds \cup {"Eof"}})])

\* The guard of both loops: a turn that took nothing takes one token.
Progress(p, from) == IF p.at = from THEN Take(p) ELSE p

------------------------------------------------------------------------------
(* Directives *)

\* Pieces a unit is spelled with
UnitOf ==
  [mm |-> "Mm", millimeter |-> "Mm", cm |-> "Cm", centimeter |-> "Cm",
   m |-> "M", meter |-> "M", in |-> "Inch", inch |-> "Inch",
   ft |-> "Foot", foot |-> "Foot"]

IsUnit(text) == Len(text) = 1 /\ text[1] \in DOMAIN UnitOf

\* parse_unit(): a name it does not know is taken and leaves millimetres, what
\* is no name is left where it is.
UnitDirective(p) ==
  LET n == Take(p)
      text == IF Is(n, "Ident") THEN tokens[n.at].text ELSE <<>>
      read == IF ~Is(n, "Ident") THEN Report(n, n.at, "U001")
              ELSE IF IsUnit(text) THEN Take(n)
              ELSE Take(Report(n, n.at, "U002"))
  IN  [p |-> Expect(read, "Semicolon"),
       item |-> [is |-> "unit", unit |-> IF IsUnit(text) THEN UnitOf[text[1]] ELSE "Mm"]]

\* parse_tolerance(): the value stays 0.001 without a number.
ToleranceDirective(p) ==
  LET n == Take(p)
      number == Is(n, "Number")
  IN  [p |-> Expect(IF number THEN Take(n) ELSE Report(n, n.at, "T001"), "Semicolon"),
       item |-> [is |-> "tolerance",
                 value |-> IF number THEN tokens[n.at].value
                           ELSE [mant |-> 1, exp |-> 0 - 3]]]

------------------------------------------------------------------------------
(* Statements *)

NewPrimitive(shape, begin) ==
  [is |-> "primitive", shape |-> shape, args |-> <<>>, at |-> <<>>,
   axis |-> <<>>, begin |-> begin]

\* parse_arg_list() past its test for an empty list.  A name without a colon is
\* reported and the number after it is taken all the same; without a number the
\* list is left at the next "," or ")", which is taken.
RECURSIVE ArgList(_, _)
ArgList(p, args) ==
  LET ident == Is(p, "Ident")
      named == ident /\ Kind(p.at + 1) = "Colon"
      v == IF named THEN Take(Take(p))
           ELSE IF ident THEN Report(Take(p), p.at, "A001") ELSE p
      arg == [name |-> IF named THEN tokens[p.at].text ELSE <<>>,
              value |-> tokens[v.at].value]
  IN  IF ~Is(v, "Number")
      THEN [p |-> SyncTo(Report(v, v.at, "A002"), {"Comma", "RParen"}),
            args |-> args]
      ELSE IF Kind(v.at + 1) = "Comma"
      THEN ArgList(Take(Take(v)), Append(args, arg))
      ELSE [p |-> Take(v), args |-> Append(args, arg)]

Args(p) == IF Is(p, "RParen") THEN [p |-> p, args |-> <<>>] ELSE ArgList(p, <<>>)

\* parse_vec3(): it stops at the first token out of place.
Vec3(p) ==
  LET wanted == <<"Number", "Comma", "Number", "Comma", "Number">>
      wrong == {i \in 1..5 : Kind(p.at + i - 1) # wanted[i]}
      bad == p.at + Min(wrong) - 1
  IN  IF wrong = {}
      THEN [p |-> [p EXCEPT !.at = @ + 5], ok |-> TRUE,
            v |-> <<tokens[p.at].value, tokens[p.at + 2].value, tokens[p.at + 4].value>>]
      ELSE [p |-> Report([p EXCEPT !.at = bad], bad,
                         IF wanted[Min(wrong)] = "Number" THEN "V001" ELSE "P001"),
            ok |-> FALSE, v |-> <<>>]

\* The placement loop of parse_primitive(): the last clause of a kind counts,
\* and a clause that cannot be read ends the loop.
RECURSIVE Clauses(_, _)
Clauses(p, prim) ==
  LET v == Vec3(Take(Take(p)))
  IN  IF Kind(p.at) \notin {"KwAt", "KwAxis"} THEN [p |-> p, stmt |-> prim]
      ELSE IF Kind(p.at + 1) # "LParen"
      THEN [p |-> Expect(Take(p), "LParen"), stmt |-> prim]
      ELSE IF ~v.ok THEN [p |-> v.p, stmt |-> prim]
      ELSE Clauses(Expect(v.p, "RParen"),
                   IF Is(p, "KwAt") THEN [prim EXCEPT !.at = v.v]
                   ELSE [prim EXCEPT !.axis = v.v])

\* Where a statement is left that does not start as one
EndOfStatement == {"Semicolon", "RBrace"}

\* parse_primitive()
Primitive(p, shape) ==
  LET o == Take(p)
      a == Args(Take(o))
      c == Clauses(Expect(a.p, "RParen"),
                   [NewPrimitive(shape, p.at) EXCEPT !.args = a.args])
  IN  IF ~Is(o, "LParen")
      THEN [p |-> SyncTo(Expect(o, "LParen"), EndOfStatement),
            stmt |-> NewPrimitive(shape, p.at)]
      ELSE [c EXCEPT !.p = Expect(@, "Semicolon")]

\* The operand loop of parse_boolean(): an empty list and a comma after the
\* last name are accepted.
RECURSIVE Operands(_, _)
Operands(p, names) ==
  IF Kind(p.at) \in {"RParen", "Eof"} THEN [p |-> p, names |-> names]
  ELSE IF ~Is(p, "Ident") THEN [p |-> Report(p, p.at, "BO1"), names |-> names]
  ELSE LET all == Append(names, tokens[p.at].text)
       IN  IF Kind(p.at + 1) = "Comma" THEN Operands(Take(Take(p)), all)
           ELSE [p |-> Take(p), names |-> all]

\* parse_boolean()
Boolean(p, op) ==
  LET o == Take(p)
      l == Operands(Take(o), <<>>)
      stmt == [is |-> "boolean", op |-> op, operands |-> <<>>, begin |-> p.at]
  IN  IF ~Is(o, "LParen")
      THEN [p |-> SyncTo(Expect(o, "LParen"), EndOfStatement), stmt |-> stmt]
      ELSE [p |-> Expect(Expect(l.p, "RParen"), "Semicolon"),
            stmt |-> [stmt EXCEPT !.operands = l.names]]

ShapeOf == [KwBox |-> "box", KwSphere |-> "sphere", KwCylinder |-> "cylinder",
            KwCone |-> "cone", KwTorus |-> "torus"]
OperationOf == [KwUnion |-> "union", KwIntersect |-> "intersect",
                KwSubtract |-> "subtract"]

\* parse_body_statement(): what is no statement is a box without arguments, at
\* the start of the source.
Statement(p) ==
  IF Kind(p.at) \in DOMAIN ShapeOf THEN Primitive(p, ShapeOf[Kind(p.at)])
  ELSE IF Kind(p.at) \in DOMAIN OperationOf THEN Boolean(p, OperationOf[Kind(p.at)])
  ELSE [p |-> SyncTo(Report(p, p.at, "S001"), EndOfStatement),
        stmt |-> NewPrimitive("box", 0)]

------------------------------------------------------------------------------
(* Steps *)

Here == [at |-> at, diags |-> diags]
MoveTo(p) == at' = p.at /\ diags' = p.diags

ParseInit(ts) ==
  /\ tokens = ts
  /\ at = 1
  /\ items = <<>>
  /\ open = <<>>
  /\ diags = <<>>

ParseDirective ==
  /\ open = <<>>
  /\ \E d \in (IF Kind(at) = "KwUnit" THEN {UnitDirective(Here)}
               ELSE IF Kind(at) = "KwTolerance" THEN {ToleranceDirective(Here)}
               ELSE {}) :
       /\ MoveTo(Progress(d.p, at))
       /\ items' = Append(items, d.item)
  /\ UNCHANGED <<tokens, open>>

\* parse_body() up to its loop: without a "{" the body ends here, empty.
OpenBody ==
  /\ open = <<>>
  /\ Kind(at) = "KwBody"
  /\ LET n == Take(Here)
         named == Is(n, "Ident")
         b == IF named THEN Take(n) ELSE Report(n, n.at, "B001")
         body == [is |-> "body", name |-> IF named THEN tokens[n.at].text ELSE <<>>,
                  statements |-> <<>>, begin |-> at]
     IN  /\ MoveTo(Expect(b, "LBrace"))
         /\ IF Is(b, "LBrace") THEN open' = <<body>> /\ UNCHANGED items
            ELSE items' = Append(items, body) /\ UNCHANGED open
  /\ UNCHANGED tokens

\* Mutant of EndsBody: a body ends at its brace only.
EndsBodyAtBrace == Kind(at) = "RBrace"

\* The condition that ends the loop over a body's statements
EndsBody == Kind(at) \in {"RBrace", "Eof"}

ParseStatement ==
  /\ open # <<>>
  /\ ~EndsBody
  /\ LET s == Statement(Here)
     IN  /\ MoveTo(Progress(s.p, at))
         /\ open' = <<[open[1] EXCEPT !.statements = Append(@, s.stmt)]>>
  /\ UNCHANGED <<tokens, items>>

CloseBody ==
  /\ open # <<>>
  /\ EndsBody
  /\ MoveTo(Expect(Here, "RBrace"))
  /\ items' = Append(items, open[1])
  /\ open' = <<>>
  /\ UNCHANGED tokens

\* A token no item starts with becomes an empty body without a name.
Stray ==
  /\ open = <<>>
  /\ Kind(at) \notin {"KwUnit", "KwTolerance", "KwBody", "Eof"}
  /\ MoveTo(Progress(Take(Report(Here, at, "P002")), at))
  /\ items' = Append(items, [is |-> "body", name |-> <<>>, statements |-> <<>>,
                             begin |-> 0])
  /\ UNCHANGED <<tokens, open>>

Parsed == open = <<>> /\ Kind(at) = "Eof"
ParseStep == ParseDirective \/ OpenBody \/ ParseStatement \/ CloseBody \/ Stray
==============================================================================
