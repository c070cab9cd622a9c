----------------------------- MODULE HandleStore -----------------------------
(***************************************************************************)
(* What a versioned object pool promises its clients: every allocation     *)
(* makes a new object, the object is reachable through its own reference   *)
(* until it is freed, and a reference to a freed object is refused.  The   *)
(* store may lose track of its free room while it allocates; from then on, *)
(* until it is cleared, an allocation may take the room of a live object,  *)
(* whose references are refused from there on and never reach another.     *)
(* There are no slots, generations or free list here.  Objects are         *)
(* numbered in the order they are allocated.                               *)
(***************************************************************************)
EXTENDS Naturals

VARIABLES
  total,   \* how many objects have been allocated so far
  live,    \* the objects that a reference still reaches
  torn,    \* has the store lost track of its free room?
  last     \* the last operation, the object it named and what it returned

vars == <<total, live, torn, last>>

Did(op, o, st) == last' = [op |-> op, obj |-> o, status |-> st]

Init ==
  /\ total = 0
  /\ live = {}
  /\ torn = FALSE
  /\ last = [op |-> "new", obj |-> 0, status |-> "Ok"]

Alloc ==
  /\ total' = total + 1
  /\ live' = live \cup {total + 1}
  /\ torn' \in {torn, TRUE}
  /\ Did("alloc", total + 1, "Ok")

\* The new object takes the room of the live object o.
AllocOver(o) ==
  /\ torn
  /\ o \in live
  /\ total' = total + 1
  /\ live' = (live \ {o}) \cup {total + 1}
  /\ Did("alloc", total + 1, "Ok")
  /\ UNCHANGED torn

\* Freeing succeeds once, on the object named and on no other.
Free(o) ==
  /\ o \in live
  /\ live' = live \ {o}
  /\ Did("free", o, "Ok")
  /\ UNCHANGED <<total, torn>>

\* A reference to an object that is gone is refused and disturbs nothing.
FreeStale(o) ==
  /\ o \in 1..total
  /\ o \notin live
  /\ Did("free", o, "NotFound")
  /\ UNCHANGED <<total, live, torn>>

\* A reference that names no object at all (object number 0).
FreeForged ==
  /\ \E st \in {"InvalidArgument", "NotFound"} : Did("free", 0, st)
  /\ UNCHANGED <<total, live, torn>>

Clear ==
  /\ live' = {}
  /\ torn' = FALSE
  /\ Did("clear", 0, "Ok")
  /\ UNCHANGED total

Next ==
  \/ Alloc
  \/ \E o \in 1..total : AllocOver(o) \/ Free(o) \/ FreeStale(o)
  \/ FreeForged
  \/ Clear

Spec == Init /\ [][Next]_vars
==============================================================================
