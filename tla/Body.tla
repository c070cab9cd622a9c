-------------------------------- MODULE Body ---------------------------------
(***************************************************************************)
(* One gmk::brep::Body under a client that makes any calls of its          *)
(* interface in any order (body.hpp), passing null handles and handles of  *)
(* other bodies among the good ones.                                       *)
(***************************************************************************)
EXTENDS Topology, FiniteSets

CONSTANTS
  Starts,       \* bodies the client may start from: empty, or built already
  Dead,         \* handles that name nothing: 0, and those of other bodies
  RingLength,   \* bound: coedges passed to link_loop()
  MaxCreations, \* bound: entities created
  MaxEdits      \* bound: stitching calls, copies and moves

Fresh(b) == BBox(b) = Box(b)

Null(pool, h) == h = 0 \/ Live(pool, h)

\* An edge's coedges: first coedge_a, then another one as coedge_b
SlotsGood(b, e) ==
  /\ Null(b.coedges, e.coedge_a)
  /\ Null(b.coedges, e.coedge_b)
  /\ e.coedge_a = e.coedge_b => e.coedge_a = 0
  /\ e.coedge_a = 0 => e.coedge_b = 0

FaceGood(b, f) ==
  /\ Null(b.loops, f.outer)
  /\ Null(b.shells, f.shell)
  /\ \A i \in DOMAIN f.inner : Live(b.loops, f.inner[i])

PartnersGood(b) ==
  \A c \in DOMAIN b.coedges : Null(b.coedges, b.coedges[c].partner)
EdgesGood(b) == \A e \in DOMAIN b.edges : SlotsGood(b, b.edges[e])
LoopsGood(b) == \A l \in DOMAIN b.loops : Null(b.coedges, b.loops[l].first)
FacesGood(b) == \A f \in DOMAIN b.faces : FaceGood(b, b.faces[f])
ShellsGood(b) ==
  \A s \in DOMAIN b.shells :
    \A i \in DOMAIN b.shells[s] : Live(b.faces, b.shells[s][i])

HelperReferences(b) ==
  /\ PartnersGood(b)
  /\ EdgesGood(b)
  /\ LoopsGood(b)
  /\ FacesGood(b)
  /\ ShellsGood(b)

ASSUME StartsAssumption ==
  \A b \in Starts : b \in Body /\ Fresh(b) /\ HelperReferences(b)
ASSUME DeadAssumption == Dead \subseteq Nat
ASSUME BoundsAssumption ==
  /\ RingLength \in Nat
  /\ MaxCreations \in Nat
  /\ MaxEdits \in Nat

VARIABLES
  body,       \* the body
  creations,  \* history: entities created so far
  edits       \* history: stitching calls, copies and moves so far

vars == <<body, creations, edits>>

Init == body \in Starts /\ creations = 0 /\ edits = 0

------------------------------------------------------------------------------
(* Creation *)

Create(b) ==
  /\ creations < MaxCreations
  /\ creations' = creations + 1
  /\ body' = b
  /\ UNCHANGED edits

Vertices == DOMAIN body.vertices \cup Dead
Edges == DOMAIN body.edges \cup Dead
Coedges == DOMAIN body.coedges \cup Dead
Loops == DOMAIN body.loops \cup Dead
Faces == DOMAIN body.faces \cup Dead
Shells == DOMAIN body.shells \cup Dead

CreateCurve == Create(AddCurve(body))
CreateSurface == Create(AddSurface(body))
CreateVertex == \E p \in Points : Create(NewVertex(body, p))
CreateEdge ==
  \E c \in 1 .. body.curves \cup Dead, vs, ve \in Vertices, proper \in BOOLEAN :
    Create(NewEdge(body, c, vs, ve, proper))
CreateCoedge ==
  \E e \in Edges, l \in Loops, same \in BOOLEAN :
    Create(NewCoedge(body, e, l, same))
CreateLoop == \E f \in Faces : Create(NewLoop(body, f))
CreateFace ==
  \E s \in 1 .. body.surfaces \cup Dead : Create(NewFace(body, s))
CreateShell == Create(NewShell(body))

------------------------------------------------------------------------------
(* Stitching, copying, measuring *)

Edit(b) ==
  /\ edits < MaxEdits
  /\ edits' = edits + 1
  /\ body' = b
  /\ UNCHANGED creations

\* The arrays a client passes to link_loop()
Rings == UNION {[1..n -> Coedges] : n \in 0 .. RingLength}

Link == \E ces \in Rings : Edit(LinkLoop(body, ces))
Mate == \E x, y \in Coedges : Edit(MateCoedges(body, x, y))
PutFace == \E s \in Shells, f \in Faces : Edit(AddFaceToShell(body, s, f))
PutOuterLoop == \E f \in Faces, l \in Loops : Edit(AddOuterLoop(body, f, l))
PutInnerLoop == \E f \in Faces, l \in Loops : Edit(AddInnerLoop(body, f, l))
Register == \E s \in Shells : Edit(RegisterShell(body, s))

\* The client goes on with the copy.
Copy == Edit(Clone(body))

Measure == body' = AfterBBox(body) /\ UNCHANGED <<creations, edits>>

Move == \E v \in DOMAIN body.vertices, p \in Points :
          Edit(MoveVertex(body, v, p))

Next ==
  \/ CreateCurve \/ CreateSurface \/ CreateVertex \/ CreateEdge
  \/ CreateCoedge \/ CreateLoop \/ CreateFace \/ CreateShell
  \/ Link \/ Mate \/ PutFace \/ PutOuterLoop \/ PutInnerLoop
  \/ Register \/ Copy \/ Measure \/ Move

Spec == Init /\ [][Next]_vars

------------------------------------------------------------------------------
(* Properties *)

\* The types of the body's pools.
TypeOK ==
  /\ body \in Body
  /\ creations \in 0 .. MaxCreations
  /\ edits \in 0 .. MaxEdits

\* body.hpp:97: the box is kept lazily, and whatever order of edits, copies
\* and queries led here, bbox() returns what a walk over the vertices would.
BBoxFresh == Fresh(body)

\* The references the stitching helpers write (body.cpp:87-140), as opposed to
\* those the client gives when it creates an entity, never dangle: they are
\* null or name an entity of this body, in a copy too.  And an edge never
\* counts one coedge as both of its sides.
ReferencesLive == HelperReferences(body)

\* What "closed" means for a ring, said without a walk: next permutes a set of
\* coedges with live edges that holds the first one.
Closed(start) ==
  \E S \in SUBSET DOMAIN body.coedges :
    /\ start \in S
    /\ \A c \in S : Live(body.edges, body.coedges[c].edge)
    /\ {body.coedges[c].next : c \in S} = S

\* validate.cpp:52-87: the walk accepts exactly the rings that close, in every
\* tangle of rings a client can link, and its guard against running for ever is
\* never what ends it.
RingVerdictExact ==
  \A c \in DOMAIN body.coedges :
    /\ RingVerdict(body, c) = "closed" <=> Closed(c)
    /\ RingVerdict(body, c) # "failed to close"

\* An issue in the words both a body and its copy are given: a copy has null
\* where the original has a dead handle.
Blurred(i) ==
  [i EXCEPT !.slot = IF i.what = "invalid shell" THEN 0 ELSE @,
            !.what = IF @ = "stale curve" THEN "null curve" ELSE @]

\* clone() (body.cpp:157): a copy is as sound or unsound as its original, for
\* the same reasons.
CloneKeepsVerdict ==
  {Blurred(i) : i \in Validate(Clone(body))} =
  {Blurred(i) : i \in Validate(body)}

\* The coedges on the way around the outer ring of a face
OuterRing(f) == Walk(body, body.loops[body.faces[f].outer].first).seen

\* body.cpp:89-94: a link_loop() that fails half-way has already relinked some
\* coedges; no face whose ring it touched still passes validate().
HalfLinkNoticed ==
  \A f \in DOMAIN body.faces : Live(body.loops, body.faces[f].outer) =>
    LET ring == OuterRing(f)
    IN  ring # {} =>
          \A ces \in Rings :
            /\ LinkStatus(body, ces) = "NotFound"
            /\ \E i \in 1 .. Linked(body, ces) : ces[i] \in ring
            => OuterVerdict(LinkLoop(body, ces), f) # "closed"
==============================================================================
