----------------------------- MODULE Primitives ------------------------------
(***************************************************************************)
(* The constructors of src/brep/primitives.cpp, as folds over Topology's   *)
(* operations, and a client that calls them on one body.                   *)
(*                                                                         *)
(* Positions are integers (length_t), metres are doubles: a coordinate     *)
(* that goes through to_vec3d_m() is rounded.  Only directions along a     *)
(* coordinate axis are given, so sines and cosines are 0 and 1.            *)
(***************************************************************************)
EXTENDS Topology, Streams, Integers, FiniteSets, FiniteSetsExt

CONSTANTS
  Calls,  \* the calls the client makes, see Requests
  Exact   \* integers below this are exact doubles: 2^53

Axes == {"x", "y", "z"}
Directions == Axes \cup {"none"}
Triples == [x : Int, y : Int, z : Int]

\* The parameters of the five constructors: any integers, the axis unit or null
Requests ==
  [shape : {"box"}, at : Triples, size : Triples] \cup
  [shape : {"sphere"}, at : Triples, r : Int] \cup
  [shape : {"cylinder"}, at : Triples, axis : Directions, r : Int, height : Int] \cup
  [shape : {"cone"}, at : Triples, axis : Directions, r_base : Int, r_top : Int,
   height : Int] \cup
  [shape : {"torus"}, at : Triples, axis : Directions, major : Int, minor : Int]

ASSUME ExactAssumption == Exact \in Nat \ {0} /\ Exact % 2 = 0
ASSUME CallsAssumption == Calls \subseteq Requests

VARIABLES
  body,    \* the body the client passes
  status,  \* what the last call returned, "none" for a new body
  call     \* history: the call that made the body

vars == <<body, status, call>>

Shift(p, axis, d) == [p EXCEPT ![axis] = @ + d]

\* static_cast<double>: to the nearest double, to an even one between two.
\* Bound: coordinates below 4 * Exact.
ToDouble(i) ==
  LET size == IF i < 0 THEN 0 - i ELSE i
      step == IF size < Exact THEN 1 ELSE IF size < 2 * Exact THEN 2 ELSE 4
      below == size \div step
      rest == size % step
      up == 2 * rest > step \/ (2 * rest = step /\ below % 2 = 1)
      near == step * (IF up THEN below + 1 ELSE below)
  IN  IF i < 0 THEN 0 - near ELSE near

\* body_is_empty(): loops, coedges and geometry are not looked at.
IsEmpty(b) ==
  b.vertices = <<>> /\ b.edges = <<>> /\ b.faces = <<>> /\ b.shells = <<>>

\* FoldLeft, in a form TLC evaluates in one pass
Iterate(Op(_, _), start, seq) ==
  LET after[i \in 0 .. Len(seq)] ==
        IF i = 0 THEN start ELSE Op(after[i - 1], seq[i])
  IN  after[Len(seq)]

Places(seq) == [i \in DOMAIN seq |-> i]

Done(b) == [body |-> b, status |-> "Ok"]
Fail(b, why) == [body |-> b, status |-> why]

------------------------------------------------------------------------------
(* Parts *)

\* A face of shell 1 with the given surface and an outer loop of coedges, each
\* an [edge, same].  A sphere or a torus links no loop.
AddFace(b, surface, uses) ==
  LET f == Len(b.faces) + 1
      l == Len(b.loops) + 1
      n == Len(b.coedges)
      framed == AddFaceToShell(
                  AddOuterLoop(NewLoop(NewFace(b, surface), f), f, l), 1, f)
      used == Iterate(LAMBDA c, u : NewCoedge(c, u.edge, l, u.same),
                       framed, uses)
  IN  LinkLoop(used, [i \in DOMAIN uses |-> n + i])

Use(edge, same) == [edge |-> edge, same |-> same]

Finish(b) == [RegisterShell(b, 1) EXCEPT !.bbox_dirty = TRUE]

------------------------------------------------------------------------------
(* Box *)

\* Mutant of Corner: the box grows from its centre.
CornerFromCentre(c, h, i) ==
  [x |-> c.x + (IF i % 2 = 1 THEN h.x ELSE 0),
   y |-> c.y + (IF (i \div 2) % 2 = 1 THEN h.y ELSE 0),
   z |-> c.z + (IF i \div 4 = 1 THEN h.z ELSE 0)]

\* Corner i of a box, by the bits of i
Corner(c, h, i) ==
  [x |-> c.x + (IF i % 2 = 1 THEN h.x ELSE 0 - h.x),
   y |-> c.y + (IF (i \div 2) % 2 = 1 THEN h.y ELSE 0 - h.y),
   z |-> c.z + (IF i \div 4 = 1 THEN h.z ELSE 0 - h.z)]

BoxVertices(c, h) ==
  Iterate(LAMBDA b, i : NewVertex(b, Corner(c, h, i)), EmptyBody,
           <<0, 1, 2, 3, 4, 5, 6, 7>>)

\* EDGES, by corner: four along x, four along y, four along z
BoxEdges == << <<0, 1>>, <<2, 3>>, <<4, 5>>, <<6, 7>>,
               <<0, 2>>, <<1, 3>>, <<4, 6>>, <<5, 7>>,
               <<0, 4>>, <<1, 5>>, <<2, 6>>, <<3, 7>> >>

\* LineCurve::init refuses a direction of length 0: the corners of the edge
\* are the same doubles.
NoDirection(b, pair) ==
  \A a \in Axes : ToDouble(b.vertices[pair[1] + 1].pos[a]) =
                  ToDouble(b.vertices[pair[2] + 1].pos[a])

AddBoxEdge(b, pair) ==
  NewEdge(AddCurve(b), b.curves + 1, pair[1] + 1, pair[2] + 1, TRUE)

\* The edges up to the first without a direction
AddBoxEdges(b) ==
  Iterate(LAMBDA c, i : IF \E j \in 1..i : NoDirection(b, BoxEdges[j])
                         THEN c ELSE AddBoxEdge(c, BoxEdges[i]),
           b, Places(BoxEdges))

\* FACES, by corner, counterclockwise from outside: -x, +x, -y, +y, -z, +z
BoxFaces == << <<0, 2, 6, 4>>, <<1, 5, 7, 3>>, <<0, 4, 5, 1>>,
               <<2, 3, 7, 6>>, <<0, 1, 3, 2>>, <<4, 6, 7, 5>> >>

\* find_edge()
FindEdge(va, vb) ==
  LET e == CHOOSE e \in DOMAIN BoxEdges :
             BoxEdges[e] \in {<<va, vb>>, <<vb, va>>}
  IN  Use(e, BoxEdges[e] = <<va, vb>>)

\* Mutant of AddBoxFaces: every coedge runs along its edge's curve.
AddBoxFacesUnsigned(b) ==
  Iterate(LAMBDA c, vs :
             AddFace(AddSurface(c), c.surfaces + 1,
                     [i \in 1..4 |->
                        Use(FindEdge(vs[i], vs[(i % 4) + 1]).edge, TRUE)]),
           NewShell(b), BoxFaces)

AddBoxFaces(b) ==
  Iterate(LAMBDA c, vs :
             AddFace(AddSurface(c), c.surfaces + 1,
                     [i \in 1..4 |-> FindEdge(vs[i], vs[(i % 4) + 1])]),
           NewShell(b), BoxFaces)

\* The coedges of the outer ring of a face, from the first one on
Ring(b, f) ==
  LET first == b.loops[b.faces[f].outer].first
      at[k \in 0 .. Len(b.coedges)] ==
        IF k = 0 THEN first ELSE b.coedges[at[k - 1]].next
  IN  IF first = 0 THEN <<>>
      ELSE LET n == CHOOSE n \in 1 .. Len(b.coedges) :
                      at[n] = first /\ \A k \in 1 .. n - 1 : at[k] # first
           IN  [k \in 1..n |-> at[k - 1]]

\* The coedges in the order the faces are walked
AllRings(b) == Iterate(LAMBDA all, f : all \o Ring(b, f), <<>>, Places(b.faces))

\* Mutant of MateAll: the second coedge of each pair of neighbours is mated.
MateAllNeighbours(b) ==
  LET all == AllRings(b)
  IN  Iterate(LAMBDA c, i : IF i < Len(all)
                             THEN MateCoedges(c, all[i], all[i + 1]) ELSE c,
               b, Places(all))

\* Each coedge is mated with those behind it that have its edge.
MateAll(b) ==
  LET all == AllRings(b)
      Behind(i) == {j \in DOMAIN all :
                      i < j /\ b.coedges[all[j]].edge = b.coedges[all[i]].edge}
  IN  Iterate(LAMBDA c, i : Iterate(LAMBDA d, y : MateCoedges(d, all[i], y),
                                    c, Pick(all, Behind(i))),
              b, Places(all))

\* The vertex a coedge starts, or ends, at
From(b, c) == LET e == b.edges[b.coedges[c].edge]
              IN  IF b.coedges[c].same THEN e.start ELSE e.end
To(b, c) == LET e == b.edges[b.coedges[c].edge]
            IN  IF b.coedges[c].same THEN e.end ELSE e.start

\* Every vertex points to the first coedge found that starts there.
SetOutgoing(b) ==
  Iterate(LAMBDA d, c : IF d.vertices[From(b, c)].outgoing = 0
                         THEN [d EXCEPT !.vertices[From(b, c)].outgoing = c]
                         ELSE d,
           b, AllRings(b))

MakeBox(c) ==
  LET edged == AddBoxEdges(BoxVertices(c.at, c.size))
  IN  IF \E a \in Axes : c.size[a] <= 0 THEN Fail(EmptyBody, "DegenerateInput")
      ELSE IF Len(edged.edges) < 12 THEN Fail(edged, "DegenerateInput")
      ELSE Done(Finish(SetOutgoing(MateAll(AddBoxFaces(edged)))))

------------------------------------------------------------------------------
(* The other shapes *)

\* One face without edges, and two vertices to hold the bounding box
Round(lo, hi) ==
  NewVertex(NewVertex(
    Finish(AddFace(NewShell(AddSurface(EmptyBody)), 1, <<>>)), lo), hi)

MakeSphere(c) ==
  IF c.r <= 0 THEN Fail(EmptyBody, "DegenerateInput")
  ELSE LET Moved(d) == [a \in Axes |-> c.at[a] + d]
       IN  Done(Round(Moved(0 - c.r), Moved(c.r)))

\* The two vertices are placed as if the axis were z.
MakeTorus(c) ==
  LET outer == c.major + c.minor
      Moved(s) == [x |-> c.at.x + s * outer, y |-> c.at.y + s * outer,
                   z |-> c.at.z + s * c.minor]
  IN  IF \/ c.minor <= 0
         \/ c.major <= c.minor
         \/ c.axis = "none"
      THEN Fail(EmptyBody, "DegenerateInput")
      ELSE Done(Round(Moved(0 - 1), Moved(1)))

\* The direction of the seam from the axis: x, or y about the x axis
Across(axis) == IF axis = "x" THEN "y" ELSE "x"

\* How many of the two rims there are
Caps(bottom, top) == (IF bottom THEN 1 ELSE 0) + (IF top THEN 1 ELSE 0)

\* The two vertices, a circle at each rim and the seam from v_bot to v_top
Seamed(v_bot, v_top, bottom, top) ==
  LET n == Caps(bottom, top) + 1
      points == NewVertex(NewVertex(
                  [EmptyBody EXCEPT !.surfaces = n, !.curves = n], v_bot), v_top)
      b1 == IF bottom THEN NewEdge(points, 1, 1, 1, TRUE) ELSE points
      b2 == IF top THEN NewEdge(b1, n - 1, 2, 2, TRUE) ELSE b1
  IN  NewEdge(b2, n, 1, 2, TRUE)

\* Up and down the seam, by the rims
SideUses(bottom, top) ==
  LET seam == Caps(bottom, top) + 1
      Rim(present, edge, same) == IF present THEN <<Use(edge, same)>> ELSE <<>>
  IN  Rim(bottom, 1, TRUE) \o <<Use(seam, TRUE)>> \o
      Rim(top, seam - 1, FALSE) \o <<Use(seam, FALSE)>>

\* A lateral face, and a cap at each end that has a rim.  No coedge is mated and
\* no vertex gets an outgoing coedge.
Revolve(v_bot, v_top, bottom, top) ==
  LET n == Caps(bottom, top) + 1
      side == AddFace(NewShell(Seamed(v_bot, v_top, bottom, top)), 1,
                      SideUses(bottom, top))
      under == IF bottom THEN AddFace(side, 2, <<Use(1, FALSE)>>) ELSE side
  IN  Finish(IF top THEN AddFace(under, n, <<Use(n - 1, TRUE)>>) ELSE under)

MakeCylinder(c) ==
  LET v_bot == Shift(c.at, Across(c.axis), c.r)
  IN  IF c.r <= 0 \/ c.height <= 0 \/ c.axis = "none"
      THEN Fail(EmptyBody, "DegenerateInput")
      ELSE Done(Revolve(v_bot, Shift(v_bot, c.axis, c.height), TRUE, TRUE))

\* The vertices of a cone go through metres and back.
MakeCone(c) ==
  LET Rounded(p) == [a \in Axes |-> ToDouble(p[a])]
      base == Rounded(c.at)
      top == Rounded(Shift(base, c.axis, c.height))
      v_bot == Rounded(Shift(base, Across(c.axis), c.r_base))
      v_top == Rounded(Shift(top, Across(c.axis), c.r_top))
  IN  IF \/ c.height <= 0 \/ c.r_base < 0 \/ c.r_top < 0
         \/ c.r_base = 0 /\ c.r_top = 0
         \/ c.axis = "none"
      THEN Fail(EmptyBody, "DegenerateInput")
      ELSE Done(Revolve(v_bot, v_top, c.r_base > 0, c.r_top > 0))

------------------------------------------------------------------------------
(* The client *)

Built(c) ==
  CASE c.shape = "box" -> MakeBox(c)
    [] c.shape = "sphere" -> MakeSphere(c)
    [] c.shape = "cylinder" -> MakeCylinder(c)
    [] c.shape = "cone" -> MakeCone(c)
    [] c.shape = "torus" -> MakeTorus(c)

Init == body = EmptyBody /\ status = "none" /\ call = [shape |-> "none"]

\* These calls leave a body that is empty to IsEmpty either untouched or full,
\* so the empty one they build on is EmptyBody.
Make(c) ==
  \/ /\ ~IsEmpty(body)
     /\ status' = "InvalidState"
     /\ UNCHANGED <<body, call>>
  \/ /\ IsEmpty(body)
     /\ body' = Built(c).body
     /\ status' = Built(c).status
     /\ call' = IF Built(c).status = "Ok" THEN c ELSE call

\* The client starts over with another body.
NewBody ==
  /\ body' = EmptyBody
  /\ status' = "none"
  /\ call' = [shape |-> "none"]

Next == (\E c \in Calls : Make(c)) \/ NewBody

Spec == Init /\ [][Next]_vars

------------------------------------------------------------------------------
(* Properties *)

UsesOf(e) == {c \in DOMAIN body.coedges : body.coedges[c].edge = e}

\* topology.hpp:3-12, primitives.cpp: a primitive's faces close up to the
\* boundary of a solid.  Every edge is used twice, once in each direction, the
\* coedges of a ring follow each other from vertex to vertex, and vertices,
\* edges and faces satisfy Euler's formula.
SolidBoundary ==
  status = "Ok" =>
    /\ \A e \in DOMAIN body.edges :
         /\ Cardinality(UsesOf(e)) = 2
         /\ {body.coedges[c].same : c \in UsesOf(e)} = BOOLEAN
    /\ \A f \in DOMAIN body.faces :
         LET ring == Ring(body, f)
         IN  \A i \in DOMAIN ring :
               To(body, ring[i]) = From(body, ring[(i % Len(ring)) + 1])
    /\ body.edges # <<>> =>
         Len(body.vertices) + Len(body.faces) = Len(body.edges) + 2

\* primitives.cpp:144-215: in a box every coedge has the other coedge of its
\* edge as partner, the edge knows both, and every vertex a coedge that starts
\* there.
BoxMated ==
  status = "Ok" /\ call.shape = "box" =>
    /\ \A c \in DOMAIN body.coedges :
         UsesOf(body.coedges[c].edge) = {c, body.coedges[c].partner}
    /\ \A e \in DOMAIN body.edges :
         {body.edges[e].coedge_a, body.edges[e].coedge_b} = UsesOf(e)
    /\ \A v \in DOMAIN body.vertices :
         From(body, body.vertices[v].outgoing) = v

\* tests/test_brep.cpp:20 and :87 ask it of a box and of counts: a primitive
\* validates clean, and its copy is the same body.
SoundAndCopied ==
  status = "Ok" => /\ Validate(body) = {}
                   /\ Clone(body) = body

\* The solid's extent along an axis: its least and greatest coordinate
Extent(a) ==
  LET Around(lo, hi) == <<call.at[a] + lo, call.at[a] + hi>>
      Sym(r) == Around(0 - r, r)
      Wide == IF call.r_base > call.r_top THEN call.r_base ELSE call.r_top
  IN  CASE call.shape = "box" -> Sym(call.size[a])
        [] call.shape = "sphere" -> Sym(call.r)
        [] call.shape = "torus" ->
             Sym(IF a = call.axis THEN call.minor ELSE call.major + call.minor)
        [] call.shape = "cylinder" ->
             IF a = call.axis THEN Around(0, call.height) ELSE Sym(call.r)
        [] call.shape = "cone" ->
             IF a = call.axis THEN Around(0, call.height) ELSE Sym(Wide)

Coordinates(a) == {p[a] : p \in BBox(body)}

\* The box is exactly as long along each axis as a box, a sphere or a torus
\* about z: it holds the solid and touches it.
TightBBox ==
  /\ status = "Ok"
  /\ call.shape \in {"box", "sphere"} \/ (call.shape = "torus" /\ call.axis = "z")
  => \A a \in Axes :
       /\ Min(Coordinates(a)) = Extent(a)[1]
       /\ Max(Coordinates(a)) = Extent(a)[2]

\* primitives.hpp:9-10 "on failure the body is left in its original empty
\* state"
FailureLeavesEmpty == status = "DegenerateInput" => IsEmpty(body)
==============================================================================
