----------------------------- MODULE Evaluator -------------------------------
(***************************************************************************)
(* src/lang/eval.cpp: eval_program() walks the parsed items, one step per  *)
(* directive and per statement, and hands a body to the store for each     *)
(* primitive it can build.  What a constructor makes of its arguments is   *)
(* module Primitives; here it is the arguments, and whether they are       *)
(* refused.                                                                *)
(***************************************************************************)
EXTENDS Parser

CONSTANT LengthPerMm  \* LENGTH_PER_MM: 10^12

ASSUME LengthAssumption == LengthPerMm \in Nat \ {0} /\ LengthPerMm % 10 = 0

VARIABLES
  unit,   \* active_unit
  item,   \* the item the loop is at
  part,   \* the statement of it
  built,  \* out_bodies: [name, id], in order
  store   \* the BodyStore: what each id was added with, from 1

evaluator == <<unit, item, part, built, store>>

\* llround(): to the nearest integer, half away from zero
RoundDiv(n, d) == Signed(n < 0, (2 * Size(n) + d) \div (2 * d))

UnitLength == [Mm |-> LengthPerMm, Cm |-> 10 * LengthPerMm, M |-> 1000 * LengthPerMm,
               Inch |-> (254 * LengthPerMm) \div 10,
               Foot |-> 12 * ((254 * LengthPerMm) \div 10)]

\* length_in_units()
LengthInUnits(v, u) ==
  IF v.exp >= 0 THEN v.mant * 10 ^ v.exp * UnitLength[u]
  ELSE RoundDiv(v.mant * UnitLength[u], 10 ^ (0 - v.exp))

Half(v) == Decimal(5 * v.mant, v.exp - 1)
Zero(v) == v.mant = 0

\* Mutant of FindArg: the position decides before the name.
FindArgByPlace(args, name, place) ==
  LET named == {i \in DOMAIN args : args[i].name = <<name>>}
  IN  IF place \in DOMAIN args THEN {args[place]}
      ELSE IF named # {} THEN {args[Min(named)]}
      ELSE {}

\* find_arg(): the first argument of that name, else the one in its place when
\* that has no name
FindArg(args, name, place) ==
  LET named == {i \in DOMAIN args : args[i].name = <<name>>}
  IN  IF named # {} THEN {args[Min(named)]}
      ELSE IF place \in DOMAIN args /\ args[place].name = <<>> THEN {args[place]}
      ELSE {}

Parameters ==
  [box |-> <<"width", "depth", "height">>, sphere |-> <<"radius">>,
   cylinder |-> <<"radius", "height">>,
   cone |-> <<"radius_base", "radius_top", "height">>,
   torus |-> <<"major_radius", "minor_radius">>]

\* The arguments a primitive takes, each a set of none or one
Required(prim) ==
  [i \in DOMAIN Parameters[prim.shape] |->
     FindArg(prim.args, Parameters[prim.shape][i], i)]

\* The lengths its constructor gets; a box gets half of what is written.
Lengths(prim, u) ==
  [i \in DOMAIN Required(prim) |->
     LET v == (CHOOSE a \in Required(prim)[i] : TRUE).value
     IN  LengthInUnits(IF prim.shape = "box" THEN Half(v) ELSE v, u)]

\* The argument tests at the head of each constructor (brep/primitives.cpp), on
\* a body that is empty.  Bound: an axis is 0 or longer than 1e-15.
Refuses(prim, len) ==
  \/ CASE prim.shape \in {"box", "sphere", "cylinder"} ->
            \E i \in DOMAIN len : len[i] <= 0
       [] prim.shape = "cone" ->
            len[3] <= 0 \/ len[1] < 0 \/ len[2] < 0 \/ (len[1] = 0 /\ len[2] = 0)
       [] prim.shape = "torus" -> len[1] <= 0 \/ len[2] <= 0 \/ len[1] <= len[2]
  \/ /\ prim.shape \in {"cylinder", "cone", "torus"}
     /\ prim.axis # <<>>
     /\ \A i \in 1..3 : Zero(prim.axis[i])

Made(prim, u) ==
  [shape |-> prim.shape,
   centre |-> IF prim.at = <<>> THEN <<0, 0, 0>>
              ELSE [i \in 1..3 |-> LengthInUnits(prim.at[i], u)],
   axis |-> prim.axis,
   lengths |-> Lengths(prim, u)]

\* A body with one statement passes its name on, one with more numbers them.
PartName(body, j) ==
  body.name \o (IF Len(body.statements) > 1 THEN <<"#">> \o DigitsOf(j - 1) ELSE <<>>)

------------------------------------------------------------------------------
(* Steps *)

EvalInit ==
  /\ unit = "Mm"
  /\ item = 1
  /\ part = 1
  /\ built = <<>>
  /\ store = <<>>

Evaluated == item > Len(items)

\* A directive, or a body without a name or without statements
EvalDirective ==
  /\ ~Evaluated
  /\ items[item].is = "body" =>
       items[item].name = <<>> \/ items[item].statements = <<>>
  /\ unit' = IF items[item].is = "unit" THEN items[item].unit ELSE unit
  /\ item' = item + 1
  /\ UNCHANGED <<parser, tokens, part, built, store>>

Buildable(stmt) ==
  /\ stmt.is = "primitive"
  /\ \A i \in DOMAIN Required(stmt) : Required(stmt)[i] # {}
  /\ ~Refuses(stmt, Lengths(stmt, unit))

\* Mutant of Diagnosis: what a constructor refuses is dropped.
DiagnosisOfParts(body, stmt) ==
  IF stmt.is = "boolean" THEN <<[code |-> "E003", at |-> body.begin]>>
  ELSE IF \E i \in DOMAIN Required(stmt) : Required(stmt)[i] = {}
  THEN <<[code |-> "E001", at |-> stmt.begin]>>
  ELSE <<>>

\* What is reported of a statement that gives no body: a Boolean operation at
\* its body, the first missing argument, or the constructor's status
Diagnosis(body, stmt) ==
  IF Buildable(stmt) THEN <<>>
  ELSE IF stmt.is = "boolean" THEN <<[code |-> "E003", at |-> body.begin]>>
  ELSE IF \E i \in DOMAIN Required(stmt) : Required(stmt)[i] = {}
  THEN <<[code |-> "E001", at |-> stmt.begin]>>
  ELSE <<[code |-> "E002", at |-> stmt.begin]>>

\* build_primitive() and BodyStore::add, or a diagnostic; either way the next
\* statement follows.
EvalStatement ==
  /\ ~Evaluated
  /\ items[item].is = "body" /\ items[item].name # <<>>
  /\ part \in DOMAIN items[item].statements
  /\ LET body == items[item]
         stmt == body.statements[part]
     IN  /\ diags' = diags \o Diagnosis(body, stmt)
         /\ store' = IF Buildable(stmt) THEN Append(store, Made(stmt, unit))
                     ELSE store
         /\ built' = IF Buildable(stmt)
                     THEN Append(built, [name |-> PartName(body, part),
                                         id |-> Len(store) + 1])
                     ELSE built
         /\ IF part = Len(body.statements) THEN item' = item + 1 /\ part' = 1
            ELSE part' = part + 1 /\ UNCHANGED item
  /\ UNCHANGED <<tokens, at, items, open, unit>>

EvalStep == EvalDirective \/ EvalStatement
==============================================================================
