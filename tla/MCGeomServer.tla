---------------------------- MODULE MCGeomServer -----------------------------
(***************************************************************************)
(* A client with every kind of call, over one framing.                   *)
(***************************************************************************)
EXTENDS GeomServer

Box(place, size) ==
  [method |-> "primitive", shape |-> "box", place |-> place, size |-> size]
Cone(place, size) ==
  [method |-> "primitive", shape |-> "cone", place |-> place, size |-> size]
DoEval(clear, built) == [method |-> "eval", clear |-> clear, built |-> built]

MCNotify == {Box("good", "good"), [method |-> "clear"]}

MCCalls == MCNotify \cup
  {[method |-> "info"], [method |-> "unknown"], [method |-> "none"],
   [method |-> "delete", id |-> 1],
   [method |-> "query", id |-> 2],
   Box("absent", "good"), Cone("bad", "good"),
   DoEval(FALSE, 2), DoEval(TRUE, 1)}
==============================================================================
