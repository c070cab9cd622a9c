------------------------------ MODULE Topology -------------------------------
(***************************************************************************)
(* The topology of one gmk::brep::Body as a value: the entities of         *)
(* brep/topology.hpp in one sequence per pool, the operations of           *)
(* src/brep/body.cpp as functions from bodies to bodies, and validate().   *)
(*                                                                         *)
(* No caller of the kernel frees an entity, so a pool hands out the slots  *)
(* 1, 2, 3 ... with one generation each and a handle is its slot: 0 is the *)
(* null handle, and a number past the end a handle of another body that    *)
(* names nothing here.  Left out, for none of them reads it: the kind of a *)
(* body, loop or shell and the sense of a face.  A parameter interval is   *)
(* proper or not, and a bounding box is the set of points included in it.  *)
(***************************************************************************)
EXTENDS Naturals, Sequences

CONSTANT Points  \* vertex positions

Vertex == [pos : Points, outgoing : Nat]
Edge == [curve : Nat, start : Nat, end : Nat, proper : BOOLEAN,
         coedge_a : Nat, coedge_b : Nat]
Coedge == [edge : Nat, loop : Nat, same : BOOLEAN,
           prev : Nat, next : Nat, partner : Nat]
Loop == [face : Nat, first : Nat]
Face == [surface : Nat, outer : Nat, inner : Seq(Nat), shell : Nat]
Shell == Seq(Nat)

Body == [
  curves : Nat,             \* how many curves the pool holds
  surfaces : Nat,
  vertices : Seq(Vertex), edges : Seq(Edge), coedges : Seq(Coedge),
  loops : Seq(Loop), faces : Seq(Face),
  shells : Seq(Shell),      \* the faces of each shell
  shell_list : Seq(Nat),
  bbox_dirty : BOOLEAN, cached_bbox : SUBSET Points]

EmptyBody == [
  curves |-> 0, surfaces |-> 0, vertices |-> <<>>, edges |-> <<>>,
  coedges |-> <<>>, loops |-> <<>>, faces |-> <<>>, shells |-> <<>>,
  shell_list |-> <<>>, bbox_dirty |-> TRUE, cached_bbox |-> {}]

\* Pool::get: does the handle name an entity of the pool?
Live(pool, h) == h \in DOMAIN pool

------------------------------------------------------------------------------
(* Creation: each operation appends one entity, whose handle is the new      *)
(* length, and takes the handles it is given as they are.                    *)

AddCurve(b) == [b EXCEPT !.curves = @ + 1]
AddSurface(b) == [b EXCEPT !.surfaces = @ + 1]

\* Mutant of NewVertex: the box stays as it was.
NewVertexKeepsBox(b, p) ==
  [b EXCEPT !.vertices = Append(@, [pos |-> p, outgoing |-> 0])]

NewVertex(b, p) ==
  [b EXCEPT !.vertices = Append(@, [pos |-> p, outgoing |-> 0]),
            !.bbox_dirty = TRUE]

NewEdge(b, c, vs, ve, proper) ==
  [b EXCEPT !.edges = Append(@, [curve |-> c, start |-> vs, end |-> ve,
                                 proper |-> proper,
                                 coedge_a |-> 0, coedge_b |-> 0])]

NewCoedge(b, e, l, same) ==
  [b EXCEPT !.coedges = Append(@, [edge |-> e, loop |-> l, same |-> same,
                                   prev |-> 0, next |-> 0, partner |-> 0])]

NewLoop(b, f) == [b EXCEPT !.loops = Append(@, [face |-> f, first |-> 0])]

NewFace(b, s) ==
  [b EXCEPT !.faces = Append(@, [surface |-> s, outer |-> 0,
                                 inner |-> <<>>, shell |-> 0])]

NewShell(b) == [b EXCEPT !.shells = Append(@, <<>>)]

------------------------------------------------------------------------------
(* Stitching *)

\* How many of the coedges link_loop() relinks: all up to the first dead one.
Linked(b, ces) ==
  CHOOSE n \in 0 .. Len(ces) :
    /\ \A i \in 1..n : Live(b.coedges, ces[i])
    /\ n < Len(ces) => ~Live(b.coedges, ces[n + 1])

LinkStatus(b, ces) ==
  IF ces = <<>> THEN "InvalidArgument"
  ELSE IF Linked(b, ces) < Len(ces) THEN "NotFound" ELSE "Ok"

\* Mutant of Relink: next is written when the next coedge is reached.
RelinkLate(b, ces) ==
  LET n == Len(ces)
      m == Linked(b, ces)
      At(c) == {i \in 1..m : ces[i] = c}
      LastAt(c) == CHOOSE i \in At(c) : \A j \in At(c) : j <= i
  IN  [c \in DOMAIN b.coedges |->
         IF At(c) = {} THEN b.coedges[c]
         ELSE LET i == LastAt(c)
              IN  [b.coedges[c] EXCEPT
                     !.prev = ces[IF i = 1 THEN n ELSE i - 1],
                     !.next = IF i = m /\ m < n THEN @
                              ELSE ces[IF i = n THEN 1 ELSE i + 1]]]

\* The ring links of the relinked coedges; one listed twice keeps the later.
Relink(b, ces) ==
  LET n == Len(ces)
      At(c) == {i \in 1 .. Linked(b, ces) : ces[i] = c}
      LastAt(c) == CHOOSE i \in At(c) : \A j \in At(c) : j <= i
  IN  [c \in DOMAIN b.coedges |->
         IF At(c) = {} THEN b.coedges[c]
         ELSE LET i == LastAt(c)
              IN  [b.coedges[c] EXCEPT
                     !.prev = ces[IF i = 1 THEN n ELSE i - 1],
                     !.next = ces[IF i = n THEN 1 ELSE i + 1]]]

\* What a failed link_loop() relinked stays so.
LinkLoop(b, ces) ==
  LET relinked == [b EXCEPT !.coedges = Relink(b, ces)]
      first == ces[1]
      loop == b.coedges[first].loop
  IN  IF LinkStatus(b, ces) = "Ok" /\ Live(b.loops, loop)
      THEN [relinked EXCEPT !.loops[loop].first = first]
      ELSE relinked

\* Mutant of MateSlots: the second slot is filled without a look at the first.
MateSlotsTwice(e, x, y) ==
  [e EXCEPT !.coedge_a = IF @ = 0 THEN x ELSE @,
            !.coedge_b = IF e.coedge_a \notin {0, x} THEN x
                         ELSE IF @ = 0 THEN y ELSE @]

\* The two coedge slots of ca's edge after mate_coedges(x, y).
MateSlots(e, x, y) ==
  LET a == IF e.coedge_a = 0 THEN x ELSE e.coedge_a
      b == IF e.coedge_a \notin {0, x} THEN x ELSE e.coedge_b
  IN  [e EXCEPT !.coedge_a = a,
                !.coedge_b = IF b = 0 /\ a # y THEN y ELSE b]

MateCoedges(b, x, y) ==
  LET mated == [b EXCEPT !.coedges[x].partner = y, !.coedges[y].partner = x]
      e == b.coedges[x].edge
  IN  IF ~Live(b.coedges, x) \/ ~Live(b.coedges, y) THEN b
      ELSE IF Live(b.edges, e)
           THEN [mated EXCEPT !.edges[e] = MateSlots(@, x, y)]
           ELSE mated

AddFaceToShell(b, s, f) ==
  IF Live(b.shells, s) /\ Live(b.faces, f)
  THEN [b EXCEPT !.shells[s] = Append(@, f), !.faces[f].shell = s]
  ELSE b

AddOuterLoop(b, f, l) ==
  IF Live(b.faces, f) /\ Live(b.loops, l)
  THEN [b EXCEPT !.faces[f].outer = l, !.loops[l].face = f]
  ELSE b

AddInnerLoop(b, f, l) ==
  IF Live(b.faces, f) /\ Live(b.loops, l)
  THEN [b EXCEPT !.faces[f].inner = Append(@, l), !.loops[l].face = f]
  ELSE b

RegisterShell(b, s) == [b EXCEPT !.shell_list = Append(@, s)]

------------------------------------------------------------------------------
(* Bounding box and copy *)

\* The walk of bbox() over the vertices
Box(b) == {b.vertices[v].pos : v \in DOMAIN b.vertices}

BBox(b) == IF b.bbox_dirty THEN Box(b) ELSE b.cached_bbox
AfterBBox(b) == [b EXCEPT !.cached_bbox = BBox(b), !.bbox_dirty = FALSE]

\* mark_bbox_dirty(), which a client calls after it moved vertices itself
MoveVertex(b, v, p) ==
  [b EXCEPT !.vertices[v].pos = p, !.bbox_dirty = TRUE]

\* Mutant of Remap: the largest index stands for none, not 0.
RemapToNone(pool, h) == IF Live(pool, h) THEN h ELSE 0 - 1

\* clone()'s remap_*: the copy's entity i stands for the source's entity i,
\* and a handle that names nothing becomes null.
Remap(pool, h) == IF Live(pool, h) THEN h ELSE 0
RemapCount(count, h) == IF h \in 1..count THEN h ELSE 0

CloneVertex(b, v) == [v EXCEPT !.outgoing = Remap(b.coedges, @)]

\* Mutant of CloneEdge: the coedges are not known yet.
CloneEdgeEarly(b, e) == [e EXCEPT
  !.curve = RemapCount(b.curves, @),
  !.start = Remap(b.vertices, @), !.end = Remap(b.vertices, @),
  !.coedge_a = 0, !.coedge_b = 0]

CloneEdge(b, e) == [e EXCEPT
  !.curve = RemapCount(b.curves, @),
  !.start = Remap(b.vertices, @), !.end = Remap(b.vertices, @),
  !.coedge_a = Remap(b.coedges, @), !.coedge_b = Remap(b.coedges, @)]

CloneCoedge(b, c) == [c EXCEPT
  !.edge = Remap(b.edges, @), !.loop = Remap(b.loops, @),
  !.prev = Remap(b.coedges, @), !.next = Remap(b.coedges, @),
  !.partner = Remap(b.coedges, @)]

\* Mutant of CloneLoop: remapped before the coedges have been copied.
CloneLoopEarly(b, l) == [l EXCEPT !.face = Remap(b.faces, @), !.first = 0]

CloneLoop(b, l) == [l EXCEPT
  !.face = Remap(b.faces, @), !.first = Remap(b.coedges, @)]

CloneFace(b, f) == [f EXCEPT
  !.surface = RemapCount(b.surfaces, @),
  !.outer = Remap(b.loops, @), !.shell = Remap(b.shells, @),
  !.inner = [i \in DOMAIN @ |-> Remap(b.loops, @[i])]]

Clone(b) == [b EXCEPT
  !.vertices = [v \in DOMAIN @ |-> CloneVertex(b, @[v])],
  !.edges = [e \in DOMAIN @ |-> CloneEdge(b, @[e])],
  !.coedges = [c \in DOMAIN @ |-> CloneCoedge(b, @[c])],
  !.loops = [l \in DOMAIN @ |-> CloneLoop(b, @[l])],
  !.faces = [f \in DOMAIN @ |-> CloneFace(b, @[f])],
  !.shells = [s \in DOMAIN @ |->
                [i \in DOMAIN @[s] |-> Remap(b.faces, @[s][i])]],
  !.shell_list = [i \in DOMAIN @ |-> Remap(b.shells, @[i])],
  !.bbox_dirty = TRUE,
  !.cached_bbox = {}]

------------------------------------------------------------------------------
(* validate(): the errors of a report; one entry for equal ones *)

Issue(on, slot, what) == [on |-> on, slot |-> slot, what |-> what]

EdgeIssues(b) ==
  {Issue("edge", e, "null curve") : e \in
     {d \in DOMAIN b.edges : b.edges[d].curve = 0}} \cup
  {Issue("edge", e, "stale curve") : e \in
     {d \in DOMAIN b.edges : b.edges[d].curve \notin 0 .. b.curves}} \cup
  {Issue("edge", e, "start") : e \in
     {d \in DOMAIN b.edges : ~Live(b.vertices, b.edges[d].start)}} \cup
  {Issue("edge", e, "end") : e \in
     {d \in DOMAIN b.edges : ~Live(b.vertices, b.edges[d].end)}} \cup
  {Issue("edge", e, "interval") : e \in
     {d \in DOMAIN b.edges : ~b.edges[d].proper}}

\* Mutant of Trouble: a coedge seen before is none.
TroubleUnseen(b, c, seen, steps) ==
  IF steps > Len(b.coedges) + 4 THEN "failed to close"
  ELSE IF ~Live(b.coedges, c) THEN "invalid coedge"
  ELSE IF ~Live(b.edges, b.coedges[c].edge) THEN "invalid edge"
  ELSE "none"

\* What is wrong with the coedge the walk around a ring has come to, if anything
Trouble(b, c, seen, steps) ==
  IF steps > Len(b.coedges) + 4 THEN "failed to close"
  ELSE IF ~Live(b.coedges, c) THEN "invalid coedge"
  ELSE IF c \in seen THEN "visited twice"
  ELSE IF ~Live(b.edges, b.coedges[c].edge) THEN "invalid edge"
  ELSE "none"

\* One round of the walk, from where the last one left it
WalkRound(b, start, last, steps) ==
  LET trouble == Trouble(b, last.cur, last.seen, steps)
      next == b.coedges[last.cur].next
  IN  IF last.end # "walks on" THEN last
      ELSE IF trouble # "none" THEN [last EXCEPT !.end = trouble]
      ELSE [cur |-> next, seen |-> last.seen \cup {last.cur},
            end |-> IF next = start THEN "closed" ELSE "walks on"]

\* The walk from the first coedge of a ring, of at most Len(b.coedges) + 5
\* rounds: the coedges seen and how it ended.
Walk(b, start) ==
  LET at[steps \in Nat] ==
        IF steps = 0 THEN [cur |-> start, seen |-> {}, end |-> "walks on"]
        ELSE WalkRound(b, start, at[steps - 1], steps)
  IN  at[Len(b.coedges) + 5]

RingVerdict(b, start) == Walk(b, start).end

\* A face without an outer loop, an empty loop (a sphere's face) or a ring
OuterVerdict(b, f) ==
  LET outer == b.faces[f].outer
  IN  IF ~Live(b.loops, outer) THEN "outer loop"
      ELSE IF b.loops[outer].first = 0 THEN "closed"
           ELSE RingVerdict(b, b.loops[outer].first)

FaceIssues(b) ==
  {Issue("face", f, "surface") : f \in
     {g \in DOMAIN b.faces : b.faces[g].surface \notin 1 .. b.surfaces}} \cup
  {Issue("face", f, OuterVerdict(b, f)) : f \in
     {g \in DOMAIN b.faces : OuterVerdict(b, g) # "closed"}}

ShellIssues(b) ==
  LET listed == {b.shell_list[i] : i \in DOMAIN b.shell_list}
      StaleFace(s) == \E i \in DOMAIN b.shells[s] :
                        ~Live(b.faces, b.shells[s][i])
  IN  {Issue("shell", s, "invalid shell") : s \in
         {t \in listed : ~Live(b.shells, t)}} \cup
      {Issue("shell", s, "stale face") : s \in
         {t \in listed : Live(b.shells, t) /\ StaleFace(t)}}

\* No issue is a sound body (ValidationReport::ok).
Validate(b) == EdgeIssues(b) \cup FaceIssues(b) \cup ShellIssues(b)
==============================================================================
