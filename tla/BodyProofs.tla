------------------------------ MODULE BodyProofs -----------------------------
(***************************************************************************)
(* Proofs about Body: types, a fresh bounding box and live references, for *)
(* any client, any starting bodies and any bounds.                         *)
(***************************************************************************)
EXTENDS Body, TopologyProofs

\* The fields the references of a body live in, and those its box depends on
SameTopology(r, b) ==
  /\ r.coedges = b.coedges /\ r.edges = b.edges /\ r.loops = b.loops
  /\ r.faces = b.faces /\ r.shells = b.shells

SameBox(r, b) ==
  /\ r.vertices = b.vertices
  /\ r.bbox_dirty = b.bbox_dirty
  /\ r.cached_bbox = b.cached_bbox

------------------------------------------------------------------------------
(* Fields *)

\* The fields of a body, one fact each.
LEMMA Fields ==
  ASSUME NEW b \in Body
  PROVE  /\ b.curves \in Nat
         /\ b.surfaces \in Nat
         /\ b.vertices \in Seq(Vertex)
         /\ b.edges \in Seq(Edge)
         /\ b.coedges \in Seq(Coedge)
         /\ b.loops \in Seq(Loop)
         /\ b.faces \in Seq(Face)
         /\ b.shells \in Seq(Shell)
         /\ b.shell_list \in Seq(Nat)
         /\ b.bbox_dirty \in BOOLEAN
         /\ b.cached_bbox \in SUBSET Points
  BY Zenon DEF Body

\* Replacing the vertices of a body changes nothing else.
LEMMA PutVertices ==
  ASSUME NEW b \in Body, NEW s \in Seq(Vertex)
  PROVE  LET r == [b EXCEPT !.vertices = s]
         IN  /\ r \in Body
             /\ r.vertices = s
             /\ SameTopology(r, b)
  BY Zenon DEF Body, SameTopology

\* Replacing the edges of a body changes nothing else.
LEMMA PutEdges ==
  ASSUME NEW b \in Body, NEW s \in Seq(Edge)
  PROVE  LET r == [b EXCEPT !.edges = s]
         IN  /\ r \in Body
             /\ r.edges = s
             /\ r.coedges = b.coedges
             /\ r.loops = b.loops
             /\ r.faces = b.faces
             /\ r.shells = b.shells
             /\ SameBox(r, b)
  BY Zenon DEF Body, SameBox

\* Replacing the coedges of a body changes nothing else.
LEMMA PutCoedges ==
  ASSUME NEW b \in Body, NEW s \in Seq(Coedge)
  PROVE  LET r == [b EXCEPT !.coedges = s]
         IN  /\ r \in Body
             /\ r.coedges = s
             /\ r.edges = b.edges
             /\ r.loops = b.loops
             /\ r.faces = b.faces
             /\ r.shells = b.shells
             /\ SameBox(r, b)
  BY Zenon DEF Body, SameBox

\* Replacing the loops of a body changes nothing else.
LEMMA PutLoops ==
  ASSUME NEW b \in Body, NEW s \in Seq(Loop)
  PROVE  LET r == [b EXCEPT !.loops = s]
         IN  /\ r \in Body
             /\ r.loops = s
             /\ r.coedges = b.coedges
             /\ r.edges = b.edges
             /\ r.faces = b.faces
             /\ r.shells = b.shells
             /\ SameBox(r, b)
  BY Zenon DEF Body, SameBox

\* Replacing the faces of a body changes nothing else.
LEMMA PutFaces ==
  ASSUME NEW b \in Body, NEW s \in Seq(Face)
  PROVE  LET r == [b EXCEPT !.faces = s]
         IN  /\ r \in Body
             /\ r.faces = s
             /\ r.coedges = b.coedges
             /\ r.edges = b.edges
             /\ r.loops = b.loops
             /\ r.shells = b.shells
             /\ SameBox(r, b)
  BY Zenon DEF Body, SameBox

\* Replacing the shells of a body changes nothing else.
LEMMA PutShells ==
  ASSUME NEW b \in Body, NEW s \in Seq(Shell)
  PROVE  LET r == [b EXCEPT !.shells = s]
         IN  /\ r \in Body
             /\ r.shells = s
             /\ r.coedges = b.coedges
             /\ r.edges = b.edges
             /\ r.loops = b.loops
             /\ r.faces = b.faces
             /\ SameBox(r, b)
  BY Zenon DEF Body, SameBox

\* Replacing the shell list of a body changes nothing else.
LEMMA PutShellList ==
  ASSUME NEW b \in Body, NEW s \in Seq(Nat)
  PROVE  LET r == [b EXCEPT !.shell_list = s]
         IN  /\ r \in Body
             /\ r.shell_list = s
             /\ SameTopology(r, b) /\ SameBox(r, b)
  BY Zenon DEF Body, SameTopology, SameBox

\* Replacing the curves of a body changes nothing else.
LEMMA PutCurves ==
  ASSUME NEW b \in Body, NEW s \in Nat
  PROVE  LET r == [b EXCEPT !.curves = s]
         IN  /\ r \in Body
             /\ r.curves = s
             /\ SameTopology(r, b) /\ SameBox(r, b)
  BY Zenon DEF Body, SameTopology, SameBox

\* Replacing the surfaces of a body changes nothing else.
LEMMA PutSurfaces ==
  ASSUME NEW b \in Body, NEW s \in Nat
  PROVE  LET r == [b EXCEPT !.surfaces = s]
         IN  /\ r \in Body
             /\ r.surfaces = s
             /\ SameTopology(r, b) /\ SameBox(r, b)
  BY Zenon DEF Body, SameTopology, SameBox

------------------------------------------------------------------------------
(* The invariant: what holds of every body a client can make *)

GoodBody(b) == b \in Body /\ Fresh(b) /\ HelperReferences(b)

\* The box of a body depends on three fields only.
LEMMA SameBoxFresh ==
  ASSUME NEW b, NEW r, Fresh(b), SameBox(r, b)
  PROVE  Fresh(r)
  BY DEF Fresh, BBox, Box, SameBox

\* A body whose box is to be recomputed is fresh.
LEMMA DirtyFresh ==
  ASSUME NEW r, r.bbox_dirty = TRUE
  PROVE  Fresh(r)
  BY DEF Fresh, BBox

\* Each part of HelperReferences depends on the entities it is about and on
\* which handles of the pools they refer to are live.
LEMMA PartnersKept ==
  ASSUME NEW b, NEW r, PartnersGood(b), r.coedges = b.coedges
  PROVE  PartnersGood(r)
  BY DEF PartnersGood, Null, Live

\* The slots of edges, with coedges at least those there were
LEMMA EdgesKept ==
  ASSUME NEW b, NEW r, EdgesGood(b), r.edges = b.edges,
         DOMAIN b.coedges \subseteq DOMAIN r.coedges
  PROVE  EdgesGood(r)
  BY DEF EdgesGood, SlotsGood, Null, Live

\* The first coedges of loops
LEMMA LoopsKept ==
  ASSUME NEW b, NEW r, LoopsGood(b), r.loops = b.loops,
         DOMAIN b.coedges \subseteq DOMAIN r.coedges
  PROVE  LoopsGood(r)
  BY DEF LoopsGood, Null, Live

\* The loops and shells of faces
LEMMA FacesKept ==
  ASSUME NEW b, NEW r, FacesGood(b), r.faces = b.faces,
         DOMAIN b.loops \subseteq DOMAIN r.loops,
         DOMAIN b.shells \subseteq DOMAIN r.shells
  PROVE  FacesGood(r)
  BY DEF FacesGood, FaceGood, Null, Live

\* The faces of shells
LEMMA ShellsKept ==
  ASSUME NEW b, NEW r, ShellsGood(b), r.shells = b.shells,
         DOMAIN b.faces \subseteq DOMAIN r.faces
  PROVE  ShellsGood(r)
  BY DEF ShellsGood, Live

\* References live in five fields only.
LEMMA SameTopologyReferences ==
  ASSUME NEW b, NEW r, HelperReferences(b), SameTopology(r, b)
  PROVE  HelperReferences(r)
  BY PartnersKept, EdgesKept, LoopsKept, FacesKept, ShellsKept
     DEF HelperReferences, SameTopology

\* An empty body is good, so the assumption on Starts can be met.
LEMMA EmptyBodyGood == GoodBody(EmptyBody)
  <1>1. EmptyBody \in Body
    BY DEF EmptyBody, Body
  <1>2. Fresh(EmptyBody)
    BY DEF EmptyBody, Fresh, BBox
  <1>3. HelperReferences(EmptyBody)
    BY DEF EmptyBody, HelperReferences, PartnersGood, EdgesGood, LoopsGood,
           FacesGood, ShellsGood
  <1> QED BY <1>1, <1>2, <1>3 DEF GoodBody

------------------------------------------------------------------------------
(* Operations that touch no reference *)

\* add_curve(), add_surface() and register_shell() touch no reference.
LEMMA GeometryGood ==
  ASSUME NEW b, GoodBody(b)
  PROVE  /\ GoodBody(AddCurve(b))
         /\ GoodBody(AddSurface(b))
         /\ \A s \in Nat : GoodBody(RegisterShell(b, s))
  <1> USE DEF GoodBody
  <1>1. GoodBody(AddCurve(b))
    <2>1. PICK n : n = b.curves + 1
      OBVIOUS
    <2>2. n \in Nat
      BY <2>1, Fields
    <2>3. AddCurve(b) = [b EXCEPT !.curves = n]
      BY <2>1 DEF AddCurve
    <2>4. /\ AddCurve(b) \in Body
          /\ SameTopology(AddCurve(b), b) /\ SameBox(AddCurve(b), b)
      BY <2>2, <2>3, PutCurves, Zenon
    <2> QED BY <2>4, SameBoxFresh, SameTopologyReferences, Zenon
  <1>2. GoodBody(AddSurface(b))
    <2>1. PICK n : n = b.surfaces + 1
      OBVIOUS
    <2>2. n \in Nat
      BY <2>1, Fields
    <2>3. AddSurface(b) = [b EXCEPT !.surfaces = n]
      BY <2>1 DEF AddSurface
    <2>4. /\ AddSurface(b) \in Body
          /\ SameTopology(AddSurface(b), b) /\ SameBox(AddSurface(b), b)
      BY <2>2, <2>3, PutSurfaces, Zenon
    <2> QED BY <2>4, SameBoxFresh, SameTopologyReferences, Zenon
  <1>3. ASSUME NEW s \in Nat PROVE GoodBody(RegisterShell(b, s))
    <2>1. PICK n : n = Append(b.shell_list, s)
      OBVIOUS
    <2>2. n \in Seq(Nat)
      BY <2>1, Fields
    <2>3. RegisterShell(b, s) = [b EXCEPT !.shell_list = n]
      BY <2>1 DEF RegisterShell
    <2>4. PICK r : r = RegisterShell(b, s)
      OBVIOUS
    <2>5. r \in Body /\ SameTopology(r, b) /\ SameBox(r, b)
      BY <2>2, <2>3, <2>4, PutShellList, Zenon
    <2> QED BY <2>4, <2>5, SameBoxFresh, SameTopologyReferences, Zenon
  <1> QED BY <1>1, <1>2, <1>3

\* new_vertex(), bbox() and a move keep the box fresh.
LEMMA BoxGood ==
  ASSUME NEW b, GoodBody(b)
  PROVE  /\ \A p \in Points : GoodBody(NewVertex(b, p))
         /\ \A v \in DOMAIN b.vertices, p \in Points :
              GoodBody(MoveVertex(b, v, p))
         /\ GoodBody(AfterBBox(b))
  <1> USE DEF GoodBody
  <1>1. ASSUME NEW p \in Points PROVE GoodBody(NewVertex(b, p))
    <2>1. PICK n : n = Append(b.vertices, [pos |-> p, outgoing |-> 0])
      OBVIOUS
    <2>2. n \in Seq(Vertex)
      <3>1. PICK x : x = [pos |-> p, outgoing |-> 0]
        OBVIOUS
      <3>2. x \in Vertex
        BY <3>1 DEF Vertex
      <3>3. b.vertices \in Seq(Vertex)
        BY Fields
      <3>4. n = Append(b.vertices, x)
        BY <2>1, <3>1
      <3> QED BY <3>2, <3>3, <3>4, AppendOne
    <2>3. PICK r : r = NewVertex(b, p)
      OBVIOUS
    <2>4. r = [b EXCEPT !.vertices = n, !.bbox_dirty = TRUE]
      BY <2>1, <2>3 DEF NewVertex
    <2>5. r \in Body /\ SameTopology(r, b) /\ r.bbox_dirty = TRUE
      BY <2>2, <2>4, Zenon DEF Body, SameTopology
    <2> QED BY <2>3, <2>5, DirtyFresh, SameTopologyReferences, Zenon
  <1>2. ASSUME NEW v \in DOMAIN b.vertices, NEW p \in Points
        PROVE  GoodBody(MoveVertex(b, v, p))
    <2>1. PICK n : n = [b.vertices EXCEPT ![v].pos = p]
      OBVIOUS
    <2>2. n \in Seq(Vertex)
      <3>1. PICK x : x = [b.vertices[v] EXCEPT !.pos = p]
        OBVIOUS
      <3>2. b.vertices \in Seq(Vertex)
        BY Fields
      <3>3. b.vertices[v] \in Vertex
        BY <3>2
      <3>4. x \in Vertex
        BY <3>1, <3>3 DEF Vertex
      <3>5. n = [b.vertices EXCEPT ![v] = x]
        BY <2>1, <3>1
      <3> QED BY <3>2, <3>4, <3>5, PutOne
    <2>3. PICK r : r = MoveVertex(b, v, p)
      OBVIOUS
    <2>4. r = [b EXCEPT !.vertices = n, !.bbox_dirty = TRUE]
      BY <2>1, <2>3 DEF MoveVertex
    <2>5. r \in Body /\ SameTopology(r, b) /\ r.bbox_dirty = TRUE
      BY <2>2, <2>4, Zenon DEF Body, SameTopology
    <2> QED BY <2>3, <2>5, DirtyFresh, SameTopologyReferences, Zenon
  <1>3. GoodBody(AfterBBox(b))
    <2>1. PICK n : n = BBox(b)
      OBVIOUS
    <2>2. n \in SUBSET Points
      <3>1. Box(b) \in SUBSET Points
        <4>1. b.vertices \in Seq(Vertex)
          BY Fields
        <4>2. \A v \in DOMAIN b.vertices : b.vertices[v] \in Vertex
          BY <4>1
        <4>3. \A v \in DOMAIN b.vertices : b.vertices[v].pos \in Points
          BY <4>2 DEF Vertex
        <4> QED BY <4>3 DEF Box
      <3> QED BY <2>1, <3>1, Fields DEF BBox
    <2>3. PICK r : r = AfterBBox(b)
      OBVIOUS
    <2>4. r = [b EXCEPT !.cached_bbox = n, !.bbox_dirty = FALSE]
      BY <2>1, <2>3 DEF AfterBBox
    <2>5. /\ r \in Body /\ SameTopology(r, b) /\ r.bbox_dirty = FALSE
          /\ r.vertices = b.vertices /\ r.cached_bbox = n
      BY <2>2, <2>4, Zenon DEF Body, SameTopology
    <2>6. Fresh(r)
      BY <2>1, <2>5 DEF Fresh, BBox, Box
    <2> QED BY <2>3, <2>5, <2>6, SameTopologyReferences, Zenon
  <1> QED BY <1>1, <1>2, <1>3

------------------------------------------------------------------------------
(* One pool of the body replaced *)

\* New coedges, none lost, with partners among them keep a body good.
LEMMA ReplaceCoedges ==
  ASSUME NEW b, GoodBody(b), NEW n \in Seq(Coedge),
         DOMAIN b.coedges \subseteq DOMAIN n,
         \A c \in DOMAIN n : Null(n, n[c].partner)
  PROVE  GoodBody([b EXCEPT !.coedges = n])
  <1>1. b \in Body /\ Fresh(b) /\ HelperReferences(b)
    BY DEF GoodBody
  <1>2. PICK r : r = [b EXCEPT !.coedges = n]
    OBVIOUS
  <1>3. /\ r \in Body /\ SameBox(r, b)
        /\ r.coedges = n
        /\ r.edges = b.edges
        /\ r.loops = b.loops
        /\ r.faces = b.faces
        /\ r.shells = b.shells
    BY <1>1, <1>2, PutCoedges, Zenon
  <1>4. Fresh(r)
    BY <1>1, <1>3, SameBoxFresh
  <1>5. PartnersGood(r)
    BY <1>3 DEF PartnersGood, Null, Live
  <1>6. /\ EdgesGood(r)
        /\ LoopsGood(r)
        /\ FacesGood(r)
        /\ ShellsGood(r)
    BY <1>1, <1>3, EdgesKept, LoopsKept, FacesKept, ShellsKept
       DEF HelperReferences
  <1> QED BY <1>2, <1>3, <1>4, <1>5, <1>6, Zenon DEF GoodBody, HelperReferences

\* New edges with good slots keep a body good.
LEMMA ReplaceEdges ==
  ASSUME NEW b, GoodBody(b), NEW n \in Seq(Edge),
         DOMAIN b.edges \subseteq DOMAIN n,
         \A e \in DOMAIN n : SlotsGood(b, n[e])
  PROVE  GoodBody([b EXCEPT !.edges = n])
  <1>1. b \in Body /\ Fresh(b) /\ HelperReferences(b)
    BY DEF GoodBody
  <1>2. PICK r : r = [b EXCEPT !.edges = n]
    OBVIOUS
  <1>3. /\ r \in Body /\ SameBox(r, b)
        /\ r.coedges = b.coedges
        /\ r.edges = n
        /\ r.loops = b.loops
        /\ r.faces = b.faces
        /\ r.shells = b.shells
    BY <1>1, <1>2, PutEdges, Zenon
  <1>4. Fresh(r)
    BY <1>1, <1>3, SameBoxFresh
  <1>5. EdgesGood(r)
    BY <1>3 DEF EdgesGood, Null, Live, SlotsGood
  <1>6. /\ PartnersGood(r)
        /\ LoopsGood(r)
        /\ FacesGood(r)
        /\ ShellsGood(r)
    BY <1>1, <1>3, PartnersKept, LoopsKept, FacesKept, ShellsKept
       DEF HelperReferences
  <1> QED BY <1>2, <1>3, <1>4, <1>5, <1>6, Zenon DEF GoodBody, HelperReferences

\* New loops, none lost, with live first coedges keep a body good.
LEMMA ReplaceLoops ==
  ASSUME NEW b, GoodBody(b), NEW n \in Seq(Loop),
         DOMAIN b.loops \subseteq DOMAIN n,
         \A l \in DOMAIN n : Null(b.coedges, n[l].first)
  PROVE  GoodBody([b EXCEPT !.loops = n])
  <1>1. b \in Body /\ Fresh(b) /\ HelperReferences(b)
    BY DEF GoodBody
  <1>2. PICK r : r = [b EXCEPT !.loops = n]
    OBVIOUS
  <1>3. /\ r \in Body /\ SameBox(r, b)
        /\ r.coedges = b.coedges
        /\ r.edges = b.edges
        /\ r.loops = n
        /\ r.faces = b.faces
        /\ r.shells = b.shells
    BY <1>1, <1>2, PutLoops, Zenon
  <1>4. Fresh(r)
    BY <1>1, <1>3, SameBoxFresh
  <1>5. LoopsGood(r)
    BY <1>3 DEF LoopsGood, Null, Live
  <1>6. /\ PartnersGood(r)
        /\ EdgesGood(r)
        /\ FacesGood(r)
        /\ ShellsGood(r)
    BY <1>1, <1>3, PartnersKept, EdgesKept, FacesKept, ShellsKept
       DEF HelperReferences
  <1> QED BY <1>2, <1>3, <1>4, <1>5, <1>6, Zenon DEF GoodBody, HelperReferences

\* New faces, none lost, that are good keep a body good.
LEMMA ReplaceFaces ==
  ASSUME NEW b, GoodBody(b), NEW n \in Seq(Face),
         DOMAIN b.faces \subseteq DOMAIN n,
         \A f \in DOMAIN n : FaceGood(b, n[f])
  PROVE  GoodBody([b EXCEPT !.faces = n])
  <1>1. b \in Body /\ Fresh(b) /\ HelperReferences(b)
    BY DEF GoodBody
  <1>2. PICK r : r = [b EXCEPT !.faces = n]
    OBVIOUS
  <1>3. /\ r \in Body /\ SameBox(r, b)
        /\ r.coedges = b.coedges
        /\ r.edges = b.edges
        /\ r.loops = b.loops
        /\ r.faces = n
        /\ r.shells = b.shells
    BY <1>1, <1>2, PutFaces, Zenon
  <1>4. Fresh(r)
    BY <1>1, <1>3, SameBoxFresh
  <1>5. FacesGood(r)
    BY <1>3 DEF FacesGood, Null, Live, FaceGood
  <1>6. /\ PartnersGood(r)
        /\ EdgesGood(r)
        /\ LoopsGood(r)
        /\ ShellsGood(r)
    BY <1>1, <1>3, PartnersKept, EdgesKept, LoopsKept, ShellsKept
       DEF HelperReferences
  <1> QED BY <1>2, <1>3, <1>4, <1>5, <1>6, Zenon DEF GoodBody, HelperReferences

\* New shells, none lost, of live faces keep a body good.
LEMMA ReplaceShells ==
  ASSUME NEW b, GoodBody(b), NEW n \in Seq(Shell),
         DOMAIN b.shells \subseteq DOMAIN n,
         \A s \in DOMAIN n : \A i \in DOMAIN n[s] : Live(b.faces, n[s][i])
  PROVE  GoodBody([b EXCEPT !.shells = n])
  <1>1. b \in Body /\ Fresh(b) /\ HelperReferences(b)
    BY DEF GoodBody
  <1>2. PICK r : r = [b EXCEPT !.shells = n]
    OBVIOUS
  <1>3. /\ r \in Body /\ SameBox(r, b)
        /\ r.coedges = b.coedges
        /\ r.edges = b.edges
        /\ r.loops = b.loops
        /\ r.faces = b.faces
        /\ r.shells = n
    BY <1>1, <1>2, PutShells, Zenon
  <1>4. Fresh(r)
    BY <1>1, <1>3, SameBoxFresh
  <1>5. ShellsGood(r)
    BY <1>3 DEF ShellsGood, Null, Live
  <1>6. /\ PartnersGood(r)
        /\ EdgesGood(r)
        /\ LoopsGood(r)
        /\ FacesGood(r)
    BY <1>1, <1>3, PartnersKept, EdgesKept, LoopsKept, FacesKept
       DEF HelperReferences
  <1> QED BY <1>2, <1>3, <1>4, <1>5, <1>6, Zenon DEF GoodBody, HelperReferences

------------------------------------------------------------------------------
(* Creation *)

\* new_edge() leaves both coedges of the edge null.
LEMMA NewEdgeGood ==
  ASSUME NEW b, GoodBody(b),
         NEW c \in Nat, NEW vs \in Nat, NEW ve \in Nat, NEW proper \in BOOLEAN
  PROVE  GoodBody(NewEdge(b, c, vs, ve, proper))
  <1>1. PICK x, s : /\ x = [curve |-> c, start |-> vs, end |-> ve,
                           proper |-> proper, coedge_a |-> 0, coedge_b |-> 0]
                   /\ s = b.edges
    OBVIOUS
  <1>2. x \in Edge
    BY <1>1, Zenon DEF Edge
  <1>3. s \in Seq(Edge)
    BY <1>1, Fields DEF GoodBody
  <1>4. PICK n : n = Append(s, x)
    OBVIOUS
  <1>5. /\ n \in Seq(Edge)
        /\ DOMAIN s \subseteq DOMAIN n
        /\ \A i \in DOMAIN n : \/ i \in DOMAIN s /\ n[i] = s[i]
                               \/ n[i] = x
    BY <1>2, <1>3, <1>4, AppendOne
  <1>6. x.coedge_a = 0 /\ x.coedge_b = 0
    BY <1>1, Zenon
  <1>7. \A e \in DOMAIN n : SlotsGood(b, n[e])
    BY <1>1, <1>5, <1>6
       DEF GoodBody, HelperReferences, EdgesGood, SlotsGood, Null
  <1>8. NewEdge(b, c, vs, ve, proper) = [b EXCEPT !.edges = n]
    BY <1>1, <1>4, Zenon DEF NewEdge
  <1>9. GoodBody([b EXCEPT !.edges = n])
    BY <1>1, <1>5, <1>7, ReplaceEdges, Zenon
  <1> QED BY ONLY <1>8, <1>9, Zenon

\* new_coedge() leaves the partner null.
LEMMA NewCoedgeGood ==
  ASSUME NEW b, GoodBody(b),
         NEW e \in Nat, NEW l \in Nat, NEW same \in BOOLEAN
  PROVE  GoodBody(NewCoedge(b, e, l, same))
  <1>1. PICK x, s : /\ x = [edge |-> e, loop |-> l, same |-> same,
                           prev |-> 0, next |-> 0, partner |-> 0]
                   /\ s = b.coedges
    OBVIOUS
  <1>2. x \in Coedge
    BY <1>1, Zenon DEF Coedge
  <1>3. s \in Seq(Coedge)
    BY <1>1, Fields DEF GoodBody
  <1>4. PICK n : n = Append(s, x)
    OBVIOUS
  <1>5. /\ n \in Seq(Coedge)
        /\ DOMAIN s \subseteq DOMAIN n
        /\ \A i \in DOMAIN n : \/ i \in DOMAIN s /\ n[i] = s[i]
                               \/ n[i] = x
    BY <1>2, <1>3, <1>4, AppendOne
  <1>6. x.partner = 0
    BY <1>1, Zenon
  <1>7. \A c \in DOMAIN n : Null(n, n[c].partner)
    BY <1>1, <1>5, <1>6
       DEF GoodBody, HelperReferences, PartnersGood, Null, Live
  <1>8. NewCoedge(b, e, l, same) = [b EXCEPT !.coedges = n]
    BY <1>1, <1>4, Zenon DEF NewCoedge
  <1>9. GoodBody([b EXCEPT !.coedges = n])
    BY <1>1, <1>5, <1>7, ReplaceCoedges, Zenon
  <1> QED BY ONLY <1>8, <1>9, Zenon

\* new_loop() leaves the first coedge null.
LEMMA NewLoopGood ==
  ASSUME NEW b, GoodBody(b), NEW f \in Nat
  PROVE  GoodBody(NewLoop(b, f))
  <1>1. PICK x, s : /\ x = [face |-> f, first |-> 0]
                   /\ s = b.loops
    OBVIOUS
  <1>2. x \in Loop
    BY <1>1, Zenon DEF Loop
  <1>3. s \in Seq(Loop)
    BY <1>1, Fields DEF GoodBody
  <1>4. PICK n : n = Append(s, x)
    OBVIOUS
  <1>5. /\ n \in Seq(Loop)
        /\ DOMAIN s \subseteq DOMAIN n
        /\ \A i \in DOMAIN n : \/ i \in DOMAIN s /\ n[i] = s[i]
                               \/ n[i] = x
    BY <1>2, <1>3, <1>4, AppendOne
  <1>6. x.first = 0
    BY <1>1, Zenon
  <1>7. \A l \in DOMAIN n : Null(b.coedges, n[l].first)
    BY <1>1, <1>5, <1>6
       DEF GoodBody, HelperReferences, LoopsGood, Null
  <1>8. NewLoop(b, f) = [b EXCEPT !.loops = n]
    BY <1>1, <1>4, Zenon DEF NewLoop
  <1>9. GoodBody([b EXCEPT !.loops = n])
    BY <1>1, <1>5, <1>7, ReplaceLoops, Zenon
  <1> QED BY ONLY <1>8, <1>9, Zenon

\* new_face() leaves the loops and the shell null.
LEMMA NewFaceGood ==
  ASSUME NEW b, GoodBody(b), NEW g \in Nat
  PROVE  GoodBody(NewFace(b, g))
  <1>1. PICK x, s : /\ x = [surface |-> g, outer |-> 0,
                           inner |-> <<>>, shell |-> 0]
                   /\ s = b.faces
    OBVIOUS
  <1>2. x \in Face
    <2>1. <<>> \in Seq(Nat)
      OBVIOUS
    <2> QED BY <1>1, <2>1, Zenon DEF Face
  <1>3. s \in Seq(Face)
    BY <1>1, Fields DEF GoodBody
  <1>4. PICK n : n = Append(s, x)
    OBVIOUS
  <1>5. /\ n \in Seq(Face)
        /\ DOMAIN s \subseteq DOMAIN n
        /\ \A i \in DOMAIN n : \/ i \in DOMAIN s /\ n[i] = s[i]
                               \/ n[i] = x
    BY <1>2, <1>3, <1>4, AppendOne
  <1>6. x.outer = 0 /\ x.inner = <<>> /\ x.shell = 0
    BY <1>1, Zenon
  <1>7. \A f \in DOMAIN n : FaceGood(b, n[f])
    BY <1>1, <1>5, <1>6
       DEF GoodBody, HelperReferences, FacesGood, FaceGood, Null
  <1>8. NewFace(b, g) = [b EXCEPT !.faces = n]
    BY <1>1, <1>4, Zenon DEF NewFace
  <1>9. GoodBody([b EXCEPT !.faces = n])
    BY <1>1, <1>5, <1>7, ReplaceFaces, Zenon
  <1> QED BY ONLY <1>8, <1>9, Zenon

\* new_shell() makes a shell without faces.
LEMMA NewShellGood ==
  ASSUME NEW b, GoodBody(b)
  PROVE  GoodBody(NewShell(b))
  <1>1. PICK x, s : /\ x = <<>>
                   /\ s = b.shells
    OBVIOUS
  <1>2. x \in Shell
    BY <1>1 DEF Shell
  <1>3. s \in Seq(Shell)
    BY <1>1, Fields DEF GoodBody
  <1>4. PICK n : n = Append(s, x)
    OBVIOUS
  <1>5. /\ n \in Seq(Shell)
        /\ DOMAIN s \subseteq DOMAIN n
        /\ \A i \in DOMAIN n : \/ i \in DOMAIN s /\ n[i] = s[i]
                               \/ n[i] = x
    BY <1>2, <1>3, <1>4, AppendOne
  <1>6. x = <<>>
    BY <1>1, Zenon
  <1>7. \A k \in DOMAIN n : \A i \in DOMAIN n[k] : Live(b.faces, n[k][i])
    BY <1>1, <1>5, <1>6
       DEF GoodBody, HelperReferences, ShellsGood, Live
  <1>8. NewShell(b) = [b EXCEPT !.shells = n]
    BY <1>1, <1>4, Zenon DEF NewShell
  <1>9. GoodBody([b EXCEPT !.shells = n])
    BY <1>1, <1>5, <1>7, ReplaceShells, Zenon
  <1> QED BY ONLY <1>8, <1>9, Zenon

------------------------------------------------------------------------------
(* Stitching *)

\* link_loop() gives the coedges of a ring their neighbours of it, and leaves
\* the partner of every coedge alone.
LEMMA RelinkProperties ==
  ASSUME NEW b \in Body, NEW ces \in Seq(Nat)
  PROVE  LET n == Relink(b, ces)
         IN  /\ n \in Seq(Coedge)
             /\ DOMAIN n = DOMAIN b.coedges
             /\ \A c \in DOMAIN n : n[c].partner = b.coedges[c].partner
  <1> DEFINE At(c) == {i \in 1 .. Linked(b, ces) : ces[i] = c}
             LastAt(c) == CHOOSE i \in At(c) : \A j \in At(c) : j <= i
             Ring(c, i) ==
               [b.coedges[c] EXCEPT
                  !.prev = ces[IF i = 1 THEN Len(ces) ELSE i - 1],
                  !.next = ces[IF i = Len(ces) THEN 1 ELSE i + 1]]
  <1>1. PICK s : s = b.coedges
    OBVIOUS
  <1>2. s \in Seq(Coedge)
    BY <1>1, Fields
  <1>3. PICK n : n = Relink(b, ces)
    OBVIOUS
  <1>4. n = [c \in DOMAIN b.coedges |->
               IF At(c) = {} THEN b.coedges[c] ELSE Ring(c, LastAt(c))]
    BY <1>3 DEF Relink
  <1>5. ASSUME NEW c \in DOMAIN s
        PROVE  n[c] \in Coedge /\ n[c].partner = s[c].partner
    <2>1. s[c] \in Coedge
      BY <1>2
    <2>2. CASE At(c) = {}
      <3>1. n[c] = s[c]
        <4> HIDE DEF LastAt, At, Ring
        <4> QED BY <1>1, <1>4, <2>2, Zenon
      <3> QED BY <2>1, <3>1, Zenon
    <2>3. CASE At(c) # {}
      <3>1. PICK l : l = Linked(b, ces)
        OBVIOUS
      <3>2. l \in 0 .. Len(ces)
        BY <3>1, LinkedProperties
      <3>3. PICK S : S = At(c)
        OBVIOUS
      <3>4. S \in SUBSET (1..l) /\ S # {} /\ l \in Nat
        BY <2>3, <3>1, <3>2, <3>3
      <3>5. \E i \in S : \A j \in S : j <= i
        BY <3>4, Greatest
      <3>6. PICK i : i = LastAt(c)
        OBVIOUS
      <3>7. i \in S
        BY <3>3, <3>5, <3>6, Zenon
      <3>8. i \in 1 .. Len(ces)
        BY <3>2, <3>4, <3>7
      <3>9. PICK p, q : /\ p = ces[IF i = 1 THEN Len(ces) ELSE i - 1]
                        /\ q = ces[IF i = Len(ces) THEN 1 ELSE i + 1]
        OBVIOUS
      <3>10. p \in Nat /\ q \in Nat
        <4>1. \A j \in 1 .. Len(ces) : ces[j] \in Nat
          OBVIOUS
        <4>2. /\ (IF i = 1 THEN Len(ces) ELSE i - 1) \in 1 .. Len(ces)
              /\ (IF i = Len(ces) THEN 1 ELSE i + 1) \in 1 .. Len(ces)
          BY ONLY <3>8
        <4> QED BY ONLY <3>9, <4>1, <4>2, Zenon
      <3>11. n[c] = [s[c] EXCEPT !.prev = p, !.next = q]
        <4>1. n[c] = Ring(c, LastAt(c))
          <5> HIDE DEF LastAt, At, Ring
          <5> QED BY <1>1, <1>4, <2>3, Zenon
        <4>2. n[c] = Ring(c, i)
          <5> HIDE DEF LastAt, Ring
          <5> QED BY <3>6, <4>1, Zenon
        <4>3. Ring(c, i) = [s[c] EXCEPT !.prev = p, !.next = q]
          BY ONLY <1>1, <3>9
        <4> QED BY ONLY <4>2, <4>3, Zenon
      <3> QED BY <2>1, <3>10, <3>11, Zenon DEF Coedge
    <2> QED BY <2>2, <2>3
  <1>6. n = [c \in DOMAIN s |-> n[c]]
    <2> HIDE DEF LastAt, At, Ring
    <2> QED BY <1>1, <1>4, Zenon
  <1>7. n \in Seq(Coedge) /\ DOMAIN n = DOMAIN s
    BY <1>2, <1>5, <1>6, SamePlaces
  <1> QED BY <1>1, <1>3, <1>5, <1>7, Zenon

\* link_loop() moves the first coedge of a loop to a live one, or leaves it.
LEMMA LinkLoopGood ==
  ASSUME NEW b, GoodBody(b), NEW ces \in Seq(Nat)
  PROVE  GoodBody(LinkLoop(b, ces))
  <1>1. b \in Body /\ HelperReferences(b)
    BY DEF GoodBody
  <1>2. PICK n : n = Relink(b, ces)
    OBVIOUS
  <1>3. /\ n \in Seq(Coedge)
        /\ DOMAIN n = DOMAIN b.coedges
        /\ \A c \in DOMAIN n : n[c].partner = b.coedges[c].partner
    BY <1>1, <1>2, RelinkProperties
  <1>4. PICK r : r = [b EXCEPT !.coedges = n]
    OBVIOUS
  <1>5. \A c \in DOMAIN n : Null(n, n[c].partner)
    BY <1>1, <1>3 DEF HelperReferences, PartnersGood, Null, Live
  <1>6. GoodBody(r)
    BY <1>3, <1>4, <1>5, ReplaceCoedges, Zenon
  <1>7. r.coedges = n /\ r.loops = b.loops
    BY <1>1, <1>3, <1>4, PutCoedges, Zenon
  <1>8. PICK first : first = ces[1]
    OBVIOUS
  <1>9. PICK loop : loop = b.coedges[first].loop
    OBVIOUS
  <1>10. CASE LinkStatus(b, ces) = "Ok" /\ Live(b.loops, loop)
    <2>1. LinkLoop(b, ces) = [r EXCEPT !.loops[loop].first = first]
      BY <1>2, <1>4, <1>8, <1>9, <1>10, Zenon DEF LinkLoop
    <2>2. Live(b.coedges, first)
      <3>1. ces # <<>> /\ ~(Linked(b, ces) < Len(ces))
        BY <1>10 DEF LinkStatus
      <3>2. 1 \in 1 .. Linked(b, ces)
        BY <3>1, LinkedProperties
      <3> QED BY <1>8, <3>2, LinkedProperties
    <2>3. PICK s : s = r.loops
      OBVIOUS
    <2>4. s \in Seq(Loop) /\ loop \in DOMAIN s
      BY <1>6, <1>7, <1>10, <2>3, Fields DEF GoodBody, Live
    <2>5. first \in Nat /\ first \in DOMAIN r.coedges
      BY <1>3, <1>7, <2>2 DEF Live
    <2>6. PICK x : x = [s[loop] EXCEPT !.first = first]
      OBVIOUS
    <2>7. x \in Loop /\ x.first = first
      <3>1. s[loop] \in Loop
        BY <2>4
      <3> QED BY <2>5, <2>6, <3>1, Zenon DEF Loop
    <2>8. PICK m : m = [s EXCEPT ![loop] = x]
      OBVIOUS
    <2>9. /\ m \in Seq(Loop) /\ DOMAIN m = DOMAIN s
          /\ \A l \in DOMAIN s : m[l] = IF l = loop THEN x ELSE s[l]
      BY <2>4, <2>7, <2>8, PutOne
    <2>10. \A l \in DOMAIN m : Null(r.coedges, m[l].first)
      BY <1>6, <2>3, <2>5, <2>7, <2>9
         DEF GoodBody, HelperReferences, LoopsGood, Null, Live
    <2>11. GoodBody([r EXCEPT !.loops = m])
      BY <1>6, <2>3, <2>9, <2>10, ReplaceLoops, Zenon
    <2>12. LinkLoop(b, ces) = [r EXCEPT !.loops = m]
      BY <2>1, <2>3, <2>6, <2>8
    <2> QED BY ONLY <2>11, <2>12, Zenon
  <1>11. CASE ~(LinkStatus(b, ces) = "Ok" /\ Live(b.loops, loop))
    <2>1. LinkLoop(b, ces) = r
      BY <1>2, <1>4, <1>8, <1>9, <1>11, Zenon DEF LinkLoop
    <2> QED BY <1>6, <2>1
  <1> QED BY <1>10, <1>11

\* mate_coedges() makes two live coedges partners and fills the slots of an
\* edge, the second never with the coedge in the first.
LEMMA MateCoedgesGood ==
  ASSUME NEW b, GoodBody(b), NEW x, NEW y
  PROVE  GoodBody(MateCoedges(b, x, y))
  <1>1. CASE ~Live(b.coedges, x) \/ ~Live(b.coedges, y)
    <2>1. MateCoedges(b, x, y) = b
      BY <1>1, Zenon DEF MateCoedges
    <2> QED BY <2>1
  <1>2. CASE Live(b.coedges, x) /\ Live(b.coedges, y)
    <2>1. PICK s : s = b.coedges
      OBVIOUS
    <2>2. s \in Seq(Coedge) /\ x \in DOMAIN s /\ y \in DOMAIN s
      BY <1>2, <2>1, Fields DEF GoodBody, Live
    <2>3. x \in Nat /\ y \in Nat /\ x # 0 /\ y # 0
      BY <2>2
    <2>4. PICK u : u = [s[x] EXCEPT !.partner = y]
      OBVIOUS
    <2>5. u \in Coedge /\ u.partner = y
      <3>1. s[x] \in Coedge
        BY <2>2
      <3> QED BY <2>3, <2>4, <3>1, Zenon DEF Coedge
    <2>6. PICK m : m = [s EXCEPT ![x] = u]
      OBVIOUS
    <2>7. /\ m \in Seq(Coedge) /\ DOMAIN m = DOMAIN s
          /\ \A c \in DOMAIN s : m[c] = IF c = x THEN u ELSE s[c]
      BY <2>2, <2>5, <2>6, PutOne
    <2>8. PICK v : v = [m[y] EXCEPT !.partner = x]
      OBVIOUS
    <2>9. v \in Coedge /\ v.partner = x
      <3>1. m[y] \in Coedge
        BY <2>2, <2>7
      <3> QED BY <2>3, <2>8, <3>1, Zenon DEF Coedge
    <2>10. PICK n : n = [m EXCEPT ![y] = v]
      OBVIOUS
    <2>11. /\ n \in Seq(Coedge) /\ DOMAIN n = DOMAIN m
           /\ \A c \in DOMAIN m : n[c] = IF c = y THEN v ELSE m[c]
      BY <2>2, <2>7, <2>9, <2>10, PutOne
    <2>12. \A c \in DOMAIN n : Null(n, n[c].partner)
      BY <2>1, <2>2, <2>5, <2>7, <2>9, <2>11
         DEF GoodBody, HelperReferences, PartnersGood, Null, Live
    <2>13. PICK r : r = [b EXCEPT !.coedges = n]
      OBVIOUS
    <2>14. GoodBody(r)
      BY <2>1, <2>7, <2>11, <2>12, <2>13, ReplaceCoedges, Zenon
    <2>15. r.coedges = n /\ r.edges = b.edges
      BY <2>11, <2>13, PutCoedges, Zenon DEF GoodBody
    <2>16. r = [b EXCEPT !.coedges[x].partner = y, !.coedges[y].partner = x]
      BY <2>1, <2>4, <2>6, <2>8, <2>10, <2>13
    <2>17. PICK e : e = b.coedges[x].edge
      OBVIOUS
    <2>18. CASE ~Live(b.edges, e)
      <3>1. MateCoedges(b, x, y) = r
        BY <1>2, <2>16, <2>17, <2>18, Zenon DEF MateCoedges
      <3> QED BY <2>14, <3>1
    <2>19. CASE Live(b.edges, e)
      <3>1. PICK d : d = r.edges
        OBVIOUS
      <3>2. d \in Seq(Edge) /\ e \in DOMAIN d
        BY <2>14, <2>15, <2>19, <3>1, Fields DEF GoodBody, Live
      <3>3. PICK g : g = MateSlots(d[e], x, y)
        OBVIOUS
      <3>4. g \in Edge /\ SlotsGood(r, g)
        <4>1. d[e] \in Edge
          BY <3>2
        <4>2. SlotsGood(r, d[e])
          BY <2>14, <3>1, <3>2 DEF GoodBody, HelperReferences, EdgesGood
        <4>3. PICK p, q :
                /\ p = IF d[e].coedge_a = 0 THEN x ELSE d[e].coedge_a
                /\ q = IF d[e].coedge_a \notin {0, x} THEN x
                       ELSE d[e].coedge_b
          OBVIOUS
        <4>4. PICK w : w = IF q = 0 /\ p # y THEN y ELSE q
          OBVIOUS
        <4>5. g = [d[e] EXCEPT !.coedge_a = p, !.coedge_b = w]
          BY <3>3, <4>3, <4>4, Zenon DEF MateSlots
        <4>6. d[e].coedge_a \in Nat /\ d[e].coedge_b \in Nat
          BY <4>1, Zenon DEF Edge
        <4>7. p \in Nat /\ q \in Nat /\ w \in Nat
          BY <2>3, <4>3, <4>4, <4>6
        <4>8. g \in Edge /\ g.coedge_a = p /\ g.coedge_b = w
          BY <4>1, <4>5, <4>7, Zenon DEF Edge
        <4>9. Live(r.coedges, x) /\ Live(r.coedges, y)
          BY <2>2, <2>7, <2>11, <2>15 DEF Live
        <4>10. /\ Null(r.coedges, p) /\ Null(r.coedges, w)
               /\ p = w => p = 0
               /\ p = 0 => w = 0
          BY <2>3, <4>2, <4>3, <4>4, <4>9 DEF SlotsGood, Null
        <4> QED BY <4>8, <4>10 DEF SlotsGood
      <3>5. PICK h : h = [d EXCEPT ![e] = g]
        OBVIOUS
      <3>6. /\ h \in Seq(Edge) /\ DOMAIN h = DOMAIN d
            /\ \A i \in DOMAIN d : h[i] = IF i = e THEN g ELSE d[i]
        BY <3>2, <3>4, <3>5, PutOne
      <3>7. \A i \in DOMAIN h : SlotsGood(r, h[i])
        BY <2>14, <3>1, <3>4, <3>6
           DEF GoodBody, HelperReferences, EdgesGood
      <3>8. GoodBody([r EXCEPT !.edges = h])
        BY <2>14, <3>1, <3>6, <3>7, ReplaceEdges, Zenon
      <3>9. MateCoedges(b, x, y) = [r EXCEPT !.edges[e] = MateSlots(@, x, y)]
        BY <1>2, <2>16, <2>17, <2>19, Zenon DEF MateCoedges
      <3>10. MateCoedges(b, x, y) = [r EXCEPT !.edges = h]
        BY ONLY <3>1, <3>3, <3>5, <3>9
      <3> QED BY ONLY <3>8, <3>10, Zenon
    <2> QED BY <2>18, <2>19
  <1> QED BY <1>1, <1>2

\* A face given a live loop or shell stays good.
LEMMA PutFaceField ==
  ASSUME NEW b, GoodBody(b), NEW f \in DOMAIN b.faces, NEW x \in Face,
         FaceGood(b, x)
  PROVE  GoodBody([b EXCEPT !.faces = [b.faces EXCEPT ![f] = x]])
  <1>1. PICK s : s = b.faces
    OBVIOUS
  <1>2. s \in Seq(Face) /\ f \in DOMAIN s
    BY <1>1, Fields DEF GoodBody
  <1>3. PICK n : n = [s EXCEPT ![f] = x]
    OBVIOUS
  <1>4. /\ n \in Seq(Face) /\ DOMAIN n = DOMAIN s
        /\ \A i \in DOMAIN s : n[i] = IF i = f THEN x ELSE s[i]
    BY <1>2, <1>3, PutOne
  <1>5. \A i \in DOMAIN n : FaceGood(b, n[i])
    BY <1>1, <1>4 DEF GoodBody, HelperReferences, FacesGood
  <1> QED BY <1>1, <1>3, <1>4, <1>5, ReplaceFaces, Zenon

\* A loop given another face keeps its first coedge.
LEMMA PutLoopFace ==
  ASSUME NEW b, GoodBody(b), NEW l \in DOMAIN b.loops, NEW f \in Nat
  PROVE  GoodBody([b EXCEPT !.loops[l].face = f])
  <1>1. PICK s : s = b.loops
    OBVIOUS
  <1>2. s \in Seq(Loop) /\ l \in DOMAIN s
    BY <1>1, Fields DEF GoodBody
  <1>3. PICK x : x = [s[l] EXCEPT !.face = f]
    OBVIOUS
  <1>4. x \in Loop /\ x.first = s[l].first
    <2>1. s[l] \in Loop
      BY <1>2
    <2> QED BY <1>3, <2>1, Zenon DEF Loop
  <1>5. PICK n : n = [s EXCEPT ![l] = x]
    OBVIOUS
  <1>6. /\ n \in Seq(Loop) /\ DOMAIN n = DOMAIN s
        /\ \A i \in DOMAIN s : n[i] = IF i = l THEN x ELSE s[i]
    BY <1>2, <1>4, <1>5, PutOne
  <1>7. \A i \in DOMAIN n : Null(b.coedges, n[i].first)
    BY <1>1, <1>2, <1>4, <1>6 DEF GoodBody, HelperReferences, LoopsGood
  <1>8. GoodBody([b EXCEPT !.loops = n])
    BY <1>1, <1>6, <1>7, ReplaceLoops, Zenon
  <1>9. [b EXCEPT !.loops[l].face = f] = [b EXCEPT !.loops = n]
    BY <1>1, <1>3, <1>5
  <1> QED BY ONLY <1>8, <1>9, Zenon

\* The fields of a face of a body
LEMMA FaceFields ==
  ASSUME NEW b, GoodBody(b), NEW f \in DOMAIN b.faces
  PROVE  /\ b.faces[f] \in Face
         /\ b.faces[f].inner \in Seq(Nat)
         /\ FaceGood(b, b.faces[f])
         /\ f \in Nat
  <1>1. b.faces \in Seq(Face)
    BY Fields DEF GoodBody
  <1>2. b.faces[f] \in Face /\ f \in Nat
    BY <1>1
  <1>3. b.faces[f].inner \in Seq(Nat)
    BY <1>2, Zenon DEF Face
  <1>4. FaceGood(b, b.faces[f])
    BY Zenon DEF GoodBody, HelperReferences, FacesGood
  <1> QED BY <1>2, <1>3, <1>4

\* A face of a body with a live outer loop, another inner one or a live shell.
LEMMA FacePuts ==
  ASSUME NEW b, GoodBody(b), NEW f \in DOMAIN b.faces
  PROVE  /\ \A l \in DOMAIN b.loops :
              /\ GoodBody([b EXCEPT !.faces[f].outer = l])
              /\ GoodBody([b EXCEPT !.faces[f].inner = Append(@, l)])
         /\ \A s \in DOMAIN b.shells : GoodBody([b EXCEPT !.faces[f].shell = s])
  <1>1. PICK y, inner : y = b.faces[f] /\ inner = y.inner
    OBVIOUS
  <1>2. y \in Face /\ inner \in Seq(Nat) /\ FaceGood(b, y)
    BY <1>1, FaceFields
  <1>3. ASSUME NEW l \in DOMAIN b.loops
        PROVE  /\ GoodBody([b EXCEPT !.faces[f].outer = l])
               /\ GoodBody([b EXCEPT !.faces[f].inner = Append(@, l)])
    <2>1. l \in Nat
      <3>1. b.loops \in Seq(Loop)
        BY Fields DEF GoodBody
      <3> QED BY <3>1
    <2>2. PICK x : x = [y EXCEPT !.outer = l]
      OBVIOUS
    <2>3. /\ x \in Face /\ x.outer = l
          /\ x.inner = y.inner /\ x.shell = y.shell
      BY <1>2, <2>1, <2>2, Zenon DEF Face
    <2>4. FaceGood(b, x)
      BY <1>2, <2>3 DEF FaceGood, Null, Live
    <2>5. GoodBody([b EXCEPT !.faces = [b.faces EXCEPT ![f] = x]])
      BY <2>3, <2>4, PutFaceField, Zenon
    <2>6. [b EXCEPT !.faces[f].outer = l] =
          [b EXCEPT !.faces = [b.faces EXCEPT ![f] = x]]
      BY ONLY <1>1, <2>2
    <2>7. PICK n : n = Append(inner, l)
      OBVIOUS
    <2>8. /\ n \in Seq(Nat)
          /\ \A i \in DOMAIN n : \/ i \in DOMAIN inner /\ n[i] = inner[i]
                                 \/ n[i] = l
      BY <1>2, <2>1, <2>7, AppendOne
    <2>9. PICK z : z = [y EXCEPT !.inner = n]
      OBVIOUS
    <2>10. /\ z \in Face /\ z.inner = n
           /\ z.outer = y.outer /\ z.shell = y.shell
      BY <1>2, <2>8, <2>9, Zenon DEF Face
    <2>11. FaceGood(b, z)
      BY <1>1, <1>2, <2>8, <2>10 DEF FaceGood, Live
    <2>12. GoodBody([b EXCEPT !.faces = [b.faces EXCEPT ![f] = z]])
      BY <2>10, <2>11, PutFaceField, Zenon
    <2>13. [b EXCEPT !.faces[f].inner = Append(@, l)] =
           [b EXCEPT !.faces = [b.faces EXCEPT ![f] = z]]
      BY ONLY <1>1, <2>7, <2>9
    <2> QED BY ONLY <2>5, <2>6, <2>12, <2>13, Zenon
  <1>4. ASSUME NEW s \in DOMAIN b.shells
        PROVE  GoodBody([b EXCEPT !.faces[f].shell = s])
    <2>1. s \in Nat
      <3>1. b.shells \in Seq(Shell)
        BY Fields DEF GoodBody
      <3> QED BY <3>1
    <2>2. PICK x : x = [y EXCEPT !.shell = s]
      OBVIOUS
    <2>3. /\ x \in Face /\ x.shell = s
          /\ x.inner = y.inner /\ x.outer = y.outer
      BY <1>2, <2>1, <2>2, Zenon DEF Face
    <2>4. FaceGood(b, x)
      BY <1>2, <2>3 DEF FaceGood, Null, Live
    <2>5. GoodBody([b EXCEPT !.faces = [b.faces EXCEPT ![f] = x]])
      BY <2>3, <2>4, PutFaceField, Zenon
    <2>6. [b EXCEPT !.faces[f].shell = s] =
          [b EXCEPT !.faces = [b.faces EXCEPT ![f] = x]]
      BY ONLY <1>1, <2>2
    <2> QED BY ONLY <2>5, <2>6, Zenon
  <1> QED BY <1>3, <1>4

\* add_outer_loop() and add_inner_loop() give a live face a live loop.
LEMMA AddLoopGood ==
  ASSUME NEW b, GoodBody(b), NEW f, NEW l
  PROVE  GoodBody(AddOuterLoop(b, f, l)) /\ GoodBody(AddInnerLoop(b, f, l))
  <1>1. CASE ~(Live(b.faces, f) /\ Live(b.loops, l))
    <2>1. AddOuterLoop(b, f, l) = b /\ AddInnerLoop(b, f, l) = b
      BY <1>1, Zenon DEF AddOuterLoop, AddInnerLoop
    <2> QED BY <2>1
  <1>2. CASE Live(b.faces, f) /\ Live(b.loops, l)
    <2>1. f \in DOMAIN b.faces /\ l \in DOMAIN b.loops
      BY <1>2 DEF Live
    <2>2. f \in Nat
      BY <2>1, FaceFields
    <2>3. PICK r, t : /\ r = [b EXCEPT !.loops[l].face = f]
                      /\ t = b.loops
      OBVIOUS
    <2>4. GoodBody(r)
      BY <2>1, <2>2, <2>3, PutLoopFace, Zenon
    <2>5. PICK n : n = [t EXCEPT ![l].face = f]
      OBVIOUS
    <2>6. r = [b EXCEPT !.loops = n]
      BY ONLY <2>3, <2>5
    <2>7. b.loops \in Seq(Loop) /\ b \in Body
      BY Fields DEF GoodBody
    <2>8. r.faces = b.faces
      BY <2>6, <2>7, Zenon DEF Body
    <2>9. DOMAIN r.loops = DOMAIN b.loops
      <3>1. r.loops = n
        BY <2>6, <2>7, Zenon DEF Body
      <3> QED BY <2>3, <2>5, <3>1, Zenon
    <2>10. /\ GoodBody([r EXCEPT !.faces[f].outer = l])
           /\ GoodBody([r EXCEPT !.faces[f].inner = Append(@, l)])
      BY <2>1, <2>4, <2>8, <2>9, FacePuts, Zenon
    <2>11. /\ AddOuterLoop(b, f, l) = [r EXCEPT !.faces[f].outer = l]
           /\ AddInnerLoop(b, f, l) = [r EXCEPT !.faces[f].inner = Append(@, l)]
      BY <1>2, <2>3 DEF AddOuterLoop, AddInnerLoop
    <2> QED BY ONLY <2>10, <2>11, Zenon
  <1> QED BY <1>1, <1>2

\* add_face_to_shell() lists a live face in a live shell.
LEMMA AddFaceToShellGood ==
  ASSUME NEW b, GoodBody(b), NEW s, NEW f
  PROVE  GoodBody(AddFaceToShell(b, s, f))
  <1>1. CASE ~(Live(b.shells, s) /\ Live(b.faces, f))
    <2>1. AddFaceToShell(b, s, f) = b
      BY <1>1, Zenon DEF AddFaceToShell
    <2> QED BY <2>1
  <1>2. CASE Live(b.shells, s) /\ Live(b.faces, f)
    <2>1. f \in DOMAIN b.faces /\ s \in DOMAIN b.shells
      BY <1>2 DEF Live
    <2>2. f \in Nat
      BY <2>1, FaceFields
    <2>3. PICK t, u : t = b.shells /\ u = t[s]
      OBVIOUS
    <2>4. t \in Seq(Shell) /\ b \in Body
      BY <2>3, Fields DEF GoodBody
    <2>5. u \in Seq(Nat)
      BY <2>1, <2>3, <2>4 DEF Shell
    <2>6. \A i \in DOMAIN u : Live(b.faces, u[i])
      BY <2>1, <2>3, Zenon DEF GoodBody, HelperReferences, ShellsGood
    <2>7. PICK x : x = Append(u, f)
      OBVIOUS
    <2>8. /\ x \in Seq(Nat)
          /\ \A i \in DOMAIN x : \/ i \in DOMAIN u /\ x[i] = u[i]
                                 \/ x[i] = f
      BY <2>2, <2>5, <2>7, AppendOne
    <2>9. x \in Shell /\ \A i \in DOMAIN x : Live(b.faces, x[i])
      BY <2>1, <2>6, <2>8 DEF Shell, Live
    <2>10. PICK n : n = [t EXCEPT ![s] = x]
      OBVIOUS
    <2>11. /\ n \in Seq(Shell) /\ DOMAIN n = DOMAIN t
           /\ \A i \in DOMAIN t : n[i] = IF i = s THEN x ELSE t[i]
      BY <2>1, <2>3, <2>4, <2>9, <2>10, PutOne
    <2>12. \A i \in DOMAIN n : \A j \in DOMAIN n[i] : Live(b.faces, n[i][j])
      BY <2>3, <2>9, <2>11 DEF GoodBody, HelperReferences, ShellsGood
    <2>13. PICK r : r = [b EXCEPT !.shells = n]
      OBVIOUS
    <2>14. GoodBody(r)
      BY <2>3, <2>11, <2>12, <2>13, ReplaceShells, Zenon
    <2>15. r.faces = b.faces /\ r.shells = n
      BY <2>4, <2>13, Zenon DEF Body
    <2>16. GoodBody([r EXCEPT !.faces[f].shell = s])
      BY <2>1, <2>3, <2>11, <2>14, <2>15, FacePuts, Zenon
    <2>17. r = [b EXCEPT !.shells[s] = Append(@, f)]
      BY ONLY <2>3, <2>7, <2>10, <2>13
    <2>18. AddFaceToShell(b, s, f) = [r EXCEPT !.faces[f].shell = s]
      BY <1>2, <2>17 DEF AddFaceToShell
    <2> QED BY ONLY <2>16, <2>18, Zenon
  <1> QED BY <1>1, <1>2

------------------------------------------------------------------------------
(* Copying *)

\* remap_*() returns null or a live handle, and a null or live one unchanged.
LEMMA RemapProperties ==
  ASSUME NEW T, NEW pool \in Seq(T), NEW h \in Nat
  PROVE  /\ Remap(pool, h) \in Nat
         /\ Null(pool, Remap(pool, h))
         /\ Null(pool, h) => Remap(pool, h) = h
  BY DEF Remap, Null, Live

\* remap of a curve or surface handle returns a handle.
LEMMA RemapCountType ==
  ASSUME NEW count, NEW h \in Nat
  PROVE  RemapCount(count, h) \in Nat
  BY DEF RemapCount

\* The entities of a copy refer to its pools, which have the original's sizes.
LEMMA CloneEdgeGood ==
  ASSUME NEW b, GoodBody(b), NEW e \in DOMAIN b.edges
  PROVE  LET x == CloneEdge(b, b.edges[e])
         IN  x \in Edge /\ SlotsGood(b, x)
  <1>1. PICK d, x : d = b.edges[e] /\ x = CloneEdge(b, d)
    OBVIOUS
  <1>2. /\ b.edges \in Seq(Edge) /\ b.vertices \in Seq(Vertex)
        /\ b.coedges \in Seq(Coedge)
    BY Fields DEF GoodBody
  <1>3. d \in Edge
    BY <1>1, <1>2
  <1>4. SlotsGood(b, d)
    BY <1>1, Zenon DEF GoodBody, HelperReferences, EdgesGood
  <1>5. /\ d.curve \in Nat /\ d.start \in Nat /\ d.end \in Nat
        /\ d.coedge_a \in Nat /\ d.coedge_b \in Nat
    BY <1>3, Zenon DEF Edge
  <1>6. PICK u, v, w, p, q :
          /\ u = RemapCount(b.curves, d.curve)
          /\ v = Remap(b.vertices, d.start)
          /\ w = Remap(b.vertices, d.end)
          /\ p = Remap(b.coedges, d.coedge_a)
          /\ q = Remap(b.coedges, d.coedge_b)
    OBVIOUS
  <1>7. u \in Nat /\ v \in Nat /\ w \in Nat /\ p \in Nat /\ q \in Nat
    BY <1>2, <1>5, <1>6, RemapProperties, RemapCountType, Zenon
  <1>8. x = [d EXCEPT !.curve = u, !.start = v, !.end = w,
                      !.coedge_a = p, !.coedge_b = q]
    BY <1>1, <1>6, Zenon DEF CloneEdge
  <1>9. x \in Edge /\ x.coedge_a = p /\ x.coedge_b = q
    BY <1>3, <1>7, <1>8, Zenon DEF Edge
  <1>10. p = d.coedge_a /\ q = d.coedge_b
    BY <1>2, <1>4, <1>5, <1>6, RemapProperties, Zenon DEF SlotsGood
  <1>11. SlotsGood(b, x)
    BY <1>4, <1>9, <1>10 DEF SlotsGood
  <1> QED BY <1>1, <1>9, <1>11

\* A copied coedge has a live partner or none.
LEMMA CloneCoedgeGood ==
  ASSUME NEW b, GoodBody(b), NEW c \in DOMAIN b.coedges
  PROVE  LET x == CloneCoedge(b, b.coedges[c])
         IN  x \in Coedge /\ Null(b.coedges, x.partner)
  <1>1. PICK d, x : d = b.coedges[c] /\ x = CloneCoedge(b, d)
    OBVIOUS
  <1>2. /\ b.edges \in Seq(Edge) /\ b.loops \in Seq(Loop)
        /\ b.coedges \in Seq(Coedge)
    BY Fields DEF GoodBody
  <1>3. d \in Coedge
    BY <1>1, <1>2
  <1>4. /\ d.edge \in Nat /\ d.loop \in Nat /\ d.prev \in Nat
        /\ d.next \in Nat /\ d.partner \in Nat
    BY <1>3, Zenon DEF Coedge
  <1>5. PICK u, v, w, p, q :
          /\ u = Remap(b.edges, d.edge)
          /\ v = Remap(b.loops, d.loop)
          /\ w = Remap(b.coedges, d.prev)
          /\ p = Remap(b.coedges, d.next)
          /\ q = Remap(b.coedges, d.partner)
    OBVIOUS
  <1>6. u \in Nat /\ v \in Nat /\ w \in Nat /\ p \in Nat /\ q \in Nat
    BY <1>2, <1>4, <1>5, RemapProperties, Zenon
  <1>7. x = [d EXCEPT !.edge = u, !.loop = v, !.prev = w, !.next = p,
                      !.partner = q]
    BY <1>1, <1>5, Zenon DEF CloneCoedge
  <1>8. x \in Coedge /\ x.partner = q
    BY <1>3, <1>6, <1>7, Zenon DEF Coedge
  <1>9. Null(b.coedges, q)
    BY <1>2, <1>4, <1>5, RemapProperties, Zenon
  <1> QED BY <1>1, <1>8, <1>9, Zenon

\* A copied loop has a live first coedge or none.
LEMMA CloneLoopGood ==
  ASSUME NEW b, GoodBody(b), NEW l \in DOMAIN b.loops
  PROVE  LET x == CloneLoop(b, b.loops[l])
         IN  x \in Loop /\ Null(b.coedges, x.first)
  <1>1. PICK d, x : d = b.loops[l] /\ x = CloneLoop(b, d)
    OBVIOUS
  <1>2. /\ b.faces \in Seq(Face) /\ b.loops \in Seq(Loop)
        /\ b.coedges \in Seq(Coedge)
    BY Fields DEF GoodBody
  <1>3. d \in Loop
    BY <1>1, <1>2
  <1>4. d.face \in Nat /\ d.first \in Nat
    BY <1>3, Zenon DEF Loop
  <1>5. PICK u, v : u = Remap(b.faces, d.face) /\ v = Remap(b.coedges, d.first)
    OBVIOUS
  <1>6. u \in Nat /\ v \in Nat
    BY <1>2, <1>4, <1>5, RemapProperties, Zenon
  <1>7. x = [d EXCEPT !.face = u, !.first = v]
    BY <1>1, <1>5, Zenon DEF CloneLoop
  <1>8. x \in Loop /\ x.first = v
    BY <1>3, <1>6, <1>7, Zenon DEF Loop
  <1>9. Null(b.coedges, v)
    BY <1>2, <1>4, <1>5, RemapProperties, Zenon
  <1> QED BY <1>1, <1>8, <1>9, Zenon

\* A list of live handles is copied as it is.
LEMMA RemapLive ==
  ASSUME NEW T, NEW pool \in Seq(T), NEW s \in Seq(Nat),
         \A i \in DOMAIN s : Live(pool, s[i])
  PROVE  [i \in DOMAIN s |-> Remap(pool, s[i])] = s
  <1>1. \A i \in DOMAIN s : Remap(pool, s[i]) = s[i]
    BY Zenon DEF Remap
  <1>2. s = [i \in DOMAIN s |-> s[i]]
    OBVIOUS
  <1> QED BY <1>1, <1>2, Zenon

\* A copied face has live loops and a live shell or none.
LEMMA CloneFaceGood ==
  ASSUME NEW b, GoodBody(b), NEW f \in DOMAIN b.faces
  PROVE  LET x == CloneFace(b, b.faces[f])
         IN  x \in Face /\ FaceGood(b, x)
  <1>1. PICK d, x : d = b.faces[f] /\ x = CloneFace(b, d)
    OBVIOUS
  <1>2. b.loops \in Seq(Loop) /\ b.shells \in Seq(Shell)
    BY Fields DEF GoodBody
  <1>3. d \in Face /\ FaceGood(b, d)
    BY <1>1, FaceFields
  <1>4. /\ d.surface \in Nat /\ d.outer \in Nat
        /\ d.shell \in Nat /\ d.inner \in Seq(Nat)
    BY <1>3, Zenon DEF Face
  <1>5. PICK u, v, w, p :
          /\ u = RemapCount(b.surfaces, d.surface)
          /\ v = Remap(b.loops, d.outer)
          /\ w = Remap(b.shells, d.shell)
          /\ p = [i \in DOMAIN d.inner |-> Remap(b.loops, d.inner[i])]
    OBVIOUS
  <1>6. p = d.inner
    <2>1. PICK s : s = d.inner
      OBVIOUS
    <2>2. s \in Seq(Nat) /\ \A i \in DOMAIN s : Live(b.loops, s[i])
      BY <1>3, <1>4, <2>1, Zenon DEF FaceGood
    <2>3. [i \in DOMAIN s |-> Remap(b.loops, s[i])] = s
      BY <1>2, <2>2, RemapLive
    <2> QED BY ONLY <1>5, <2>1, <2>3, Zenon
  <1>7. u \in Nat /\ v \in Nat /\ w \in Nat
    BY <1>2, <1>4, <1>5, RemapProperties, RemapCountType, Zenon
  <1>8. x = [d EXCEPT !.surface = u, !.outer = v, !.shell = w, !.inner = p]
    BY <1>1, <1>5, Zenon DEF CloneFace
  <1>9. x \in Face /\ x.outer = v /\ x.shell = w /\ x.inner = p
    BY <1>3, <1>4, <1>6, <1>7, <1>8, Zenon DEF Face
  <1>10. Null(b.loops, v) /\ Null(b.shells, w)
    BY <1>2, <1>4, <1>5, RemapProperties, Zenon
  <1>11. FaceGood(b, x)
    BY <1>3, <1>6, <1>9, <1>10 DEF FaceGood
  <1> QED BY <1>1, <1>9, <1>11, Zenon

\* clone() makes a good body of a good one.
LEMMA CloneGood ==
  ASSUME NEW b, GoodBody(b)
  PROVE  GoodBody(Clone(b))
  <1>1. /\ b \in Body
        /\ b.vertices \in Seq(Vertex) /\ b.edges \in Seq(Edge)
        /\ b.coedges \in Seq(Coedge) /\ b.loops \in Seq(Loop)
        /\ b.faces \in Seq(Face) /\ b.shells \in Seq(Shell)
        /\ b.shell_list \in Seq(Nat)
    BY Fields DEF GoodBody
  <1> DEFINE vs == [v \in DOMAIN b.vertices |-> CloneVertex(b, b.vertices[v])]
             es == [e \in DOMAIN b.edges |-> CloneEdge(b, b.edges[e])]
             cs == [c \in DOMAIN b.coedges |-> CloneCoedge(b, b.coedges[c])]
             ls == [l \in DOMAIN b.loops |-> CloneLoop(b, b.loops[l])]
             fs == [f \in DOMAIN b.faces |-> CloneFace(b, b.faces[f])]
             ss == [s \in DOMAIN b.shells |->
                      [i \in DOMAIN b.shells[s] |->
                         Remap(b.faces, b.shells[s][i])]]
             sl == [i \in DOMAIN b.shell_list |->
                      Remap(b.shells, b.shell_list[i])]
  <1>2. PICK r : r = Clone(b)
    OBVIOUS
  <1>3. r = [b EXCEPT !.vertices = vs, !.edges = es, !.coedges = cs,
                       !.loops = ls, !.faces = fs, !.shells = ss,
                       !.shell_list = sl, !.bbox_dirty = TRUE,
                       !.cached_bbox = {}]
    BY <1>2 DEF Clone
  <1>4. /\ vs = [v \in DOMAIN b.vertices |-> CloneVertex(b, b.vertices[v])]
        /\ es = [e \in DOMAIN b.edges |-> CloneEdge(b, b.edges[e])]
        /\ cs = [c \in DOMAIN b.coedges |-> CloneCoedge(b, b.coedges[c])]
        /\ ls = [l \in DOMAIN b.loops |-> CloneLoop(b, b.loops[l])]
        /\ fs = [f \in DOMAIN b.faces |-> CloneFace(b, b.faces[f])]
        /\ ss = [s \in DOMAIN b.shells |->
                   [i \in DOMAIN b.shells[s] |-> Remap(b.faces, b.shells[s][i])]]
        /\ sl = [i \in DOMAIN b.shell_list |->
                   Remap(b.shells, b.shell_list[i])]
    OBVIOUS
  <1> HIDE DEF vs, es, cs, ls, fs, ss, sl
  <1>5. vs \in Seq(Vertex)
    <2>1. ASSUME NEW v \in DOMAIN b.vertices PROVE vs[v] \in Vertex
      <3>1. PICK d, o : /\ d = b.vertices[v]
                        /\ o = Remap(b.coedges, d.outgoing)
        OBVIOUS
      <3>2. d \in Vertex
        BY <1>1, <3>1
      <3>3. d.outgoing \in Nat
        BY <3>2, Zenon DEF Vertex
      <3>4. o \in Nat
        BY <1>1, <3>1, <3>3, RemapProperties, Zenon
      <3>5. vs[v] = [d EXCEPT !.outgoing = o]
        BY <1>4, <3>1, Zenon DEF CloneVertex
      <3> QED BY <3>2, <3>4, <3>5, Zenon DEF Vertex
    <2>2. vs = [v \in DOMAIN b.vertices |-> vs[v]]
      BY <1>4, Zenon
    <2>3. vs \in Seq(Vertex) /\ DOMAIN vs = DOMAIN b.vertices
      BY <1>1, <2>1, <2>2, SamePlaces, Zenon
    <2> QED BY <2>3
  <1>6. /\ es \in Seq(Edge)
        /\ \A e \in DOMAIN es : SlotsGood(b, es[e])
    <2>1. \A e \in DOMAIN b.edges : es[e] \in Edge /\ SlotsGood(b, es[e])
      BY <1>4, CloneEdgeGood, Zenon
    <2>2. es = [e \in DOMAIN b.edges |-> es[e]]
      BY <1>4, Zenon
    <2>3. es \in Seq(Edge) /\ DOMAIN es = DOMAIN b.edges
      <3>1. b.edges \in Seq(Edge)
        BY <1>1
      <3>2. \A e \in DOMAIN b.edges : es[e] \in Edge
        BY <2>1, Zenon
      <3> QED BY ONLY <3>1, <3>2, <2>2, SamePlaces, Zenon
    <2> QED BY <2>1, <2>3, Zenon
  <1>7. /\ cs \in Seq(Coedge) /\ DOMAIN cs = DOMAIN b.coedges
        /\ \A c \in DOMAIN cs : Null(b.coedges, cs[c].partner)
    <2>1. \A c \in DOMAIN b.coedges :
            cs[c] \in Coedge /\ Null(b.coedges, cs[c].partner)
      BY <1>4, CloneCoedgeGood, Zenon
    <2>2. cs = [c \in DOMAIN b.coedges |-> cs[c]]
      BY <1>4, Zenon
    <2>3. cs \in Seq(Coedge) /\ DOMAIN cs = DOMAIN b.coedges
      <3>1. b.coedges \in Seq(Coedge)
        BY <1>1
      <3>2. \A c \in DOMAIN b.coedges : cs[c] \in Coedge
        BY <2>1, Zenon
      <3> QED BY ONLY <3>1, <3>2, <2>2, SamePlaces, Zenon
    <2> QED BY <2>1, <2>3, Zenon
  <1>8. /\ ls \in Seq(Loop) /\ DOMAIN ls = DOMAIN b.loops
        /\ \A l \in DOMAIN ls : Null(b.coedges, ls[l].first)
    <2>1. \A l \in DOMAIN b.loops :
            ls[l] \in Loop /\ Null(b.coedges, ls[l].first)
      BY <1>4, CloneLoopGood, Zenon
    <2>2. ls = [l \in DOMAIN b.loops |-> ls[l]]
      BY <1>4, Zenon
    <2>3. ls \in Seq(Loop) /\ DOMAIN ls = DOMAIN b.loops
      <3>1. b.loops \in Seq(Loop)
        BY <1>1
      <3>2. \A l \in DOMAIN b.loops : ls[l] \in Loop
        BY <2>1, Zenon
      <3> QED BY ONLY <3>1, <3>2, <2>2, SamePlaces, Zenon
    <2> QED BY <2>1, <2>3, Zenon
  <1>9. /\ fs \in Seq(Face) /\ DOMAIN fs = DOMAIN b.faces
        /\ \A f \in DOMAIN fs : FaceGood(b, fs[f])
    <2>1. \A f \in DOMAIN b.faces : fs[f] \in Face /\ FaceGood(b, fs[f])
      BY <1>4, CloneFaceGood, Zenon
    <2>2. fs = [f \in DOMAIN b.faces |-> fs[f]]
      BY <1>4, Zenon
    <2>3. fs \in Seq(Face) /\ DOMAIN fs = DOMAIN b.faces
      <3>1. b.faces \in Seq(Face)
        BY <1>1
      <3>2. \A f \in DOMAIN b.faces : fs[f] \in Face
        BY <2>1, Zenon
      <3> QED BY ONLY <3>1, <3>2, <2>2, SamePlaces, Zenon
    <2> QED BY <2>1, <2>3, Zenon
  <1>10. ss = b.shells
    <2>1. ASSUME NEW s \in DOMAIN b.shells
          PROVE  [i \in DOMAIN b.shells[s] |-> Remap(b.faces, b.shells[s][i])]
                 = b.shells[s]
      <3>1. PICK u : u = b.shells[s]
        OBVIOUS
      <3>2. u \in Seq(Nat)
        BY <1>1, <3>1 DEF Shell
      <3>3. \A i \in DOMAIN u : Live(b.faces, u[i])
        BY <3>1, Zenon DEF GoodBody, HelperReferences, ShellsGood
      <3>4. [i \in DOMAIN u |-> Remap(b.faces, u[i])] = u
        <4>1. b.faces \in Seq(Face)
          BY <1>1
        <4> QED BY ONLY <3>2, <3>3, <4>1, RemapLive
      <3> QED BY ONLY <3>1, <3>4, Zenon
    <2>2. b.shells = [s \in DOMAIN b.shells |-> b.shells[s]]
      BY <1>1
    <2> QED BY <1>4, <2>1, <2>2, Zenon
  <1>11. sl \in Seq(Nat)
    <2>1. \A i \in DOMAIN b.shell_list : b.shell_list[i] \in Nat
      BY <1>1
    <2>2. \A i \in DOMAIN b.shell_list : sl[i] \in Nat
      BY <1>1, <1>4, <2>1, RemapProperties, Zenon
    <2>3. sl = [i \in DOMAIN b.shell_list |-> sl[i]]
      BY <1>4, Zenon
    <2>4. sl \in Seq(Nat) /\ DOMAIN sl = DOMAIN b.shell_list
      BY <1>1, <2>2, <2>3, SamePlaces, Zenon
    <2> QED BY <2>4
  <1>12. /\ r \in Body /\ r.bbox_dirty = TRUE
         /\ r.coedges = cs /\ r.edges = es /\ r.loops = ls
         /\ r.faces = fs /\ r.shells = b.shells
    <2>1. {} \in SUBSET Points
      OBVIOUS
    <2> QED BY <1>1, <1>5, <1>6, <1>7, <1>8, <1>9, <1>10, <1>11, <1>3, <2>1,
               Zenon DEF Body
  <1>13. Fresh(r)
    BY <1>12, DirtyFresh
  <1>14. PartnersGood(r) /\ LoopsGood(r)
    BY <1>7, <1>8, <1>12 DEF PartnersGood, LoopsGood, Null, Live
  <1>15. EdgesGood(r)
    BY <1>6, <1>7, <1>12 DEF EdgesGood, SlotsGood, Null, Live
  <1>16. FacesGood(r)
    BY <1>8, <1>9, <1>12 DEF FacesGood, FaceGood, Null, Live
  <1>17. ShellsGood(r)
    BY <1>9, <1>12, Zenon DEF GoodBody, HelperReferences, ShellsGood, Live
  <1> QED BY <1>2, <1>12, <1>13, <1>14, <1>15, <1>16, <1>17, Zenon
          DEF GoodBody, HelperReferences

------------------------------------------------------------------------------
(* Theorems *)

IInv ==
  /\ GoodBody(body)
  /\ creations \in 0 .. MaxCreations
  /\ edits \in 0 .. MaxEdits

\* A client's handles are naturals.
LEMMA Handles ==
  ASSUME GoodBody(body)
  PROVE  /\ Vertices \subseteq Nat /\ Edges \subseteq Nat
         /\ Coedges \subseteq Nat /\ Loops \subseteq Nat
         /\ Faces \subseteq Nat /\ Shells \subseteq Nat
         /\ 1 .. body.curves \cup Dead \subseteq Nat
         /\ 1 .. body.surfaces \cup Dead \subseteq Nat
  <1>1. /\ body.vertices \in Seq(Vertex) /\ body.edges \in Seq(Edge)
        /\ body.coedges \in Seq(Coedge) /\ body.loops \in Seq(Loop)
        /\ body.faces \in Seq(Face) /\ body.shells \in Seq(Shell)
        /\ body.curves \in Nat /\ body.surfaces \in Nat
    BY Fields DEF GoodBody
  <1>2. /\ DOMAIN body.vertices \subseteq Nat /\ DOMAIN body.edges \subseteq Nat
        /\ DOMAIN body.coedges \subseteq Nat /\ DOMAIN body.loops \subseteq Nat
        /\ DOMAIN body.faces \subseteq Nat /\ DOMAIN body.shells \subseteq Nat
    BY ONLY <1>1, PlacesAreNaturals, Zenon
  <1>3. /\ Vertices \subseteq Nat /\ Edges \subseteq Nat
        /\ Coedges \subseteq Nat /\ Loops \subseteq Nat
        /\ Faces \subseteq Nat /\ Shells \subseteq Nat
    BY ONLY <1>2, DeadAssumption, Zenon
       DEF Vertices, Edges, Coedges, Loops, Faces, Shells
  <1>4. 1 .. body.curves \subseteq Nat /\ 1 .. body.surfaces \subseteq Nat
    BY <1>1
  <1> QED BY <1>3, <1>4, DeadAssumption, Zenon

\* The arrays passed to link_loop() are sequences.
LEMMA RingsAreSequences ==
  ASSUME GoodBody(body)
  PROVE  Rings \subseteq Seq(Nat)
  <1>1. Coedges \subseteq Nat
    BY Handles
  <1>2. ASSUME NEW n \in 0 .. RingLength, NEW ces \in [1..n -> Coedges]
        PROVE  ces \in Seq(Nat)
    <2>1. n \in Nat
      BY BoundsAssumption
    <2>2. ces \in [1..n -> Nat]
      BY <1>1
    <2> QED BY <2>1, <2>2
  <1> QED BY <1>2, Zenon DEF Rings

\* Creating keeps the invariant.
LEMMA CreateKeeps ==
  ASSUME IInv, NEW b, GoodBody(b), Create(b)
  PROVE  IInv'
  <1>1. body' = b /\ edits' = edits /\ creations' \in 0 .. MaxCreations
    BY BoundsAssumption DEF IInv, Create
  <1> QED BY <1>1 DEF IInv, GoodBody

\* Editing keeps the invariant.
LEMMA EditKeeps ==
  ASSUME IInv, NEW b, GoodBody(b), Edit(b)
  PROVE  IInv'
  <1>1. body' = b /\ creations' = creations /\ edits' \in 0 .. MaxEdits
    BY BoundsAssumption DEF IInv, Edit
  <1> QED BY <1>1 DEF IInv, GoodBody

\* Every call of the interface of a body keeps the invariant.
LEMMA NextKeeps == IInv /\ [Next]_vars => IInv'
<1> SUFFICES ASSUME IInv, [Next]_vars PROVE IInv'
  OBVIOUS
<1>1. GoodBody(body)
  BY DEF IInv
<1>2. CASE CreateCurve
  BY <1>1, <1>2, GeometryGood, CreateKeeps DEF CreateCurve
<1>3. CASE CreateSurface
  BY <1>1, <1>3, GeometryGood, CreateKeeps DEF CreateSurface
<1>4. CASE CreateVertex
  BY <1>1, <1>4, BoxGood, CreateKeeps DEF CreateVertex
<1>5. CASE CreateEdge
  <2>1. PICK c \in 1 .. body.curves \cup Dead, vs \in Vertices,
             ve \in Vertices, proper \in BOOLEAN :
               Create(NewEdge(body, c, vs, ve, proper))
    BY <1>5, Zenon DEF CreateEdge
  <2>2. c \in Nat /\ vs \in Nat /\ ve \in Nat
    BY <1>1, Handles, Zenon
  <2>3. GoodBody(NewEdge(body, c, vs, ve, proper))
    BY <1>1, <2>2, NewEdgeGood, Zenon
  <2> QED BY <2>1, <2>3, CreateKeeps, Zenon
<1>6. CASE CreateCoedge
  <2>1. PICK e \in Edges, l \in Loops, same \in BOOLEAN :
               Create(NewCoedge(body, e, l, same))
    BY <1>6, Zenon DEF CreateCoedge
  <2>2. e \in Nat /\ l \in Nat
    BY <1>1, Handles, Zenon
  <2>3. GoodBody(NewCoedge(body, e, l, same))
    BY <1>1, <2>2, NewCoedgeGood, Zenon
  <2> QED BY <2>1, <2>3, CreateKeeps, Zenon
<1>7. CASE CreateLoop
  <2>1. PICK f \in Faces : Create(NewLoop(body, f))
    BY <1>7, Zenon DEF CreateLoop
  <2>2. GoodBody(NewLoop(body, f))
    BY <1>1, Handles, NewLoopGood, Zenon
  <2> QED BY <2>1, <2>2, CreateKeeps, Zenon
<1>8. CASE CreateFace
  <2>1. PICK g \in 1 .. body.surfaces \cup Dead : Create(NewFace(body, g))
    BY <1>8, Zenon DEF CreateFace
  <2>2. GoodBody(NewFace(body, g))
    BY <1>1, Handles, NewFaceGood, Zenon
  <2> QED BY <2>1, <2>2, CreateKeeps, Zenon
<1>9. CASE CreateShell
  BY <1>1, <1>9, NewShellGood, CreateKeeps DEF CreateShell
<1>10. CASE Link
  <2>1. PICK ces \in Rings : Edit(LinkLoop(body, ces))
    BY <1>10, Zenon DEF Link
  <2>2. ces \in Seq(Nat)
    BY <1>1, RingsAreSequences, Zenon
  <2>3. GoodBody(LinkLoop(body, ces))
    BY <1>1, <2>2, LinkLoopGood, Zenon
  <2> QED BY <2>1, <2>3, EditKeeps, Zenon
<1>11. CASE Mate
  BY <1>1, <1>11, MateCoedgesGood, EditKeeps, Zenon DEF Mate
<1>12. CASE PutFace
  BY <1>1, <1>12, AddFaceToShellGood, EditKeeps, Zenon DEF PutFace
<1>13. CASE PutOuterLoop
  BY <1>1, <1>13, AddLoopGood, EditKeeps, Zenon DEF PutOuterLoop
<1>14. CASE PutInnerLoop
  BY <1>1, <1>14, AddLoopGood, EditKeeps, Zenon DEF PutInnerLoop
<1>15. CASE Register
  <2>1. PICK s \in Shells : Edit(RegisterShell(body, s))
    BY <1>15, Zenon DEF Register
  <2>2. s \in Nat
    BY <1>1, Handles, Zenon
  <2>3. GoodBody(RegisterShell(body, s))
    BY <1>1, <2>2, GeometryGood, Zenon
  <2> QED BY <2>1, <2>3, EditKeeps, Zenon
<1>16. CASE Copy
  BY <1>1, <1>16, CloneGood, EditKeeps, Zenon DEF Copy
<1>17. CASE Measure
  <2>1. GoodBody(AfterBBox(body))
    BY <1>1, BoxGood
  <2>2. /\ body' = AfterBBox(body)
        /\ creations' = creations /\ edits' = edits
    BY <1>17 DEF Measure
  <2> QED BY <2>1, <2>2 DEF IInv
<1>18. CASE Move
  BY <1>1, <1>18, BoxGood, EditKeeps, Zenon DEF Move
<1>19. CASE UNCHANGED vars
  BY <1>19 DEF vars, IInv
<1> QED BY <1>2, <1>3, <1>4, <1>5, <1>6, <1>7, <1>8, <1>9, <1>10, <1>11,
           <1>12, <1>13, <1>14, <1>15, <1>16, <1>17, <1>18, <1>19, Zenon
        DEF Next

\* The invariant holds throughout.
LEMMA Invariance == Spec => []IInv
<1>1. Init => IInv
  BY StartsAssumption, BoundsAssumption DEF Init, IInv, GoodBody
<1> QED BY <1>1, NextKeeps, PTL DEF Spec

\* Any calls in any order, with null and foreign handles among the good ones,
\* leave entities of the types brep/topology.hpp gives them.
THEOREM BodyTypes == Spec => []TypeOK
<1>1. IInv => TypeOK
  BY DEF IInv, GoodBody, TypeOK
<1> QED BY <1>1, Invariance, PTL

\* body.cpp:142-151: the lazily kept box is never stale when it is asked for.
THEOREM BoxIsFresh == Spec => []BBoxFresh
<1>1. IInv => BBoxFresh
  BY DEF IInv, GoodBody, BBoxFresh
<1> QED BY <1>1, Invariance, PTL

\* body.cpp:87-140 and 157-300: what the stitching helpers and clone() write
\* never dangles, and no edge has one coedge as both of its sides.
THEOREM ReferencesStayLive == Spec => []ReferencesLive
<1>1. IInv => ReferencesLive
  BY DEF IInv, GoodBody, ReferencesLive
<1> QED BY <1>1, Invariance, PTL

------------------------------------------------------------------------------
(* Rings: validate()'s walk accepts exactly those that close, a half-linked  *)
(* one is noticed, and a copy gets the verdict of its original.              *)

\* validate.cpp:52-87: the walk accepts exactly the rings that close, and its
\* guard against running for ever is never what ends it.
THEOREM VerdictsAreExact == Spec => []RingVerdictExact
<1>1. IInv => RingVerdictExact
  <2> SUFFICES ASSUME IInv, NEW c \in DOMAIN body.coedges
               PROVE  /\ RingVerdict(body, c) = "closed" <=> Closed(c)
                      /\ RingVerdict(body, c) # "failed to close"
    BY DEF RingVerdictExact
  <2>1. body.coedges \in Seq(Coedge)
    BY Fields DEF IInv, GoodBody
  <2>2. Closed(c) <=> \E S : Permuted(body, S) /\ c \in S
    BY DEF Closed, Permuted, NextOf
  <2> QED BY <2>1, <2>2, VerdictExact
<1> QED BY <1>1, Invariance, PTL

------------------------------------------------------------------------------
(* A half-linked ring *)

\* A walk that has seen nothing stands where it started.
AtStart(start, r) == r.seen = {} /\ (r.end = "walks on" => r.cur = start)

\* A walk from a handle that names no coedge sees none.
LEMMA DeadStart ==
  ASSUME NEW b, NEW start, ~Live(b.coedges, start), b.coedges \in Seq(Coedge)
  PROVE  Walk(b, start).seen = {}
<1>1. PICK at : Rounds(b, start, at) /\ Walk(b, start) = at[Len(b.coedges) + 5]
  BY WalkRounds
<1> DEFINE T == {n \in Nat : AtStart(start, at[n])}
<1>2. 0 \in T
  <2>1. PICK r : r = at[0]
    OBVIOUS
  <2>2. r = FirstRound(start)
    BY ONLY <1>1, <2>1 DEF Rounds
  <2>3. AtStart(start, r)
    BY ONLY <2>2 DEF FirstRound, AtStart
  <2> QED BY <2>1, <2>3
<1>3. ASSUME NEW n \in Nat, n \in T PROVE n + 1 \in T
  <2>1. PICK r, q : r = at[n] /\ q = WalkRound(b, start, r, n + 1)
    OBVIOUS
  <2>2. AtStart(start, r)
    BY <1>3, <2>1
  <2>3. at[n + 1] = q
    BY <1>1, <2>1 DEF Rounds
  <2>4. CASE r.end # "walks on"
    <3>1. q = r
      BY <2>1, <2>4 DEF WalkRound
    <3> QED BY <2>2, <2>3, <3>1
  <2>5. CASE r.end = "walks on"
    <3>1. PICK t : t = Trouble(b, r.cur, r.seen, n + 1)
      OBVIOUS
    <3>2. t # "none" /\ t # "walks on"
      BY <2>2, <2>5, <3>1 DEF Trouble, AtStart
    <3>3. q = [r EXCEPT !.end = t]
      BY <2>1, <2>5, <3>1, <3>2 DEF WalkRound
    <3>4. AtStart(start, q)
      <4>1. IsRound(r)
        BY <1>1, <2>1, WalkGood
      <4>2. q.seen = r.seen /\ q.end = t
        BY <3>3, <4>1 DEF IsRound
      <4> QED BY <2>2, <3>2, <4>2 DEF AtStart
    <3> QED BY <2>3, <3>4
  <2> QED BY <2>4, <2>5
<1>4. Nat \subseteq T
  <2> HIDE DEF T
  <2> QED BY <1>2, <1>3, NatSets
<1>5. Len(b.coedges) + 5 \in Nat
  <2>1. Len(b.coedges) \in Nat
    OBVIOUS
  <2> QED BY <2>1
<1> QED BY <1>1, <1>4, <1>5 DEF AtStart

\* i is the last place up to m of the coedge it lists.
IsLastPlace(ces, m, i) == \A j \in 1..m : ces[j] = ces[i] => j <= i

\* A link_loop() that fails half-way relinks the coedges up to the dead one to
\* their successors in the list and no other, and changes no edge.
LEMMA HalfLink ==
  ASSUME NEW b \in Body, NEW ces \in Seq(Nat),
         NEW m, m = Linked(b, ces), m < Len(ces)
  PROVE  LET n == Relink(b, ces)
         IN  /\ DOMAIN n = DOMAIN b.coedges
             /\ \A c \in DOMAIN n : (\A i \in 1..m : ces[i] # c) =>
                  n[c] = b.coedges[c]
             /\ \A i \in 1..m : IsLastPlace(ces, m, i) =>
                  n[ces[i]].next = ces[i + 1]
  <1> DEFINE At(c) == {i \in 1 .. Linked(b, ces) : ces[i] = c}
             LastAt(c) == CHOOSE i \in At(c) : \A j \in At(c) : j <= i
             Ring(c, i) ==
               [b.coedges[c] EXCEPT
                  !.prev = ces[IF i = 1 THEN Len(ces) ELSE i - 1],
                  !.next = ces[IF i = Len(ces) THEN 1 ELSE i + 1]]
  <1>1. PICK n : n = Relink(b, ces)
    OBVIOUS
  <1>2. n = [c \in DOMAIN b.coedges |->
               IF At(c) = {} THEN b.coedges[c] ELSE Ring(c, LastAt(c))]
    BY <1>1 DEF Relink
  <1>3. ASSUME NEW c \in DOMAIN b.coedges, \A i \in 1..m : ces[i] # c
        PROVE  n[c] = b.coedges[c]
    <2>1. At(c) = {}
      BY <1>3
    <2> HIDE DEF At, LastAt, Ring
    <2> QED BY <1>2, <2>1, Zenon
  <1>4. ASSUME NEW i \in 1..m, IsLastPlace(ces, m, i)
        PROVE  n[ces[i]].next = ces[i + 1]
    <2>1. PICK c : c = ces[i]
      OBVIOUS
    <2>2. c \in DOMAIN b.coedges
      BY <2>1, LinkedProperties DEF Live
    <2>3. m \in Nat /\ m <= Len(ces) /\ Len(ces) \in Nat
      BY LinkedProperties
    <2>4. i \in At(c) /\ \A j \in At(c) : j <= i
      BY <1>4, <2>1 DEF IsLastPlace
    <2>5. LastAt(c) \in At(c) /\ \A j \in At(c) : j <= LastAt(c)
      <3> HIDE DEF At
      <3> QED BY <2>4, Zenon
    <2>6. LastAt(c) = i
      <3>1. PICK k : k = LastAt(c)
        OBVIOUS
      <3>2. k \in Nat /\ i \in Nat /\ k <= i /\ i <= k
        <4> HIDE DEF LastAt
        <4> QED BY <2>3, <2>4, <2>5, <3>1
      <3>3. k = i
        BY ONLY <3>2
      <3> QED BY ONLY <3>1, <3>3
    <2>7. n[c] = Ring(c, i)
      <3>1. At(c) # {}
        BY <2>4
      <3> HIDE DEF At, LastAt, Ring
      <3> QED BY <1>2, <2>2, <2>6, <3>1, Zenon
    <2>8. i # Len(ces)
      BY <2>3
    <2>9. Ring(c, i).next = ces[i + 1]
      <3>1. PICK d, u : d = b.coedges[c] /\ u = ces[IF i = 1 THEN Len(ces) ELSE i - 1]
        OBVIOUS
      <3>2. Ring(c, i) = [d EXCEPT !.prev = u, !.next = ces[i + 1]]
        BY <2>8, <3>1
      <3>3. d \in Coedge
        BY <2>2, <3>1, Fields
      <3>4. "next" \in DOMAIN d
        BY <3>3 DEF Coedge
      <3> QED BY <3>2, <3>4
    <2> QED BY <2>1, <2>7, <2>9
  <1>5. DOMAIN n = DOMAIN b.coedges
    <2> HIDE DEF At, LastAt, Ring
    <2> QED BY <1>2, Zenon
  <1> QED BY <1>1, <1>3, <1>4, <1>5, Zenon

\* body.cpp:89-94: no face whose ring a failed link_loop() touched still passes
\* validate().  The last place of the list that is on a ring would make the
\* ring go on to the next place, which is on it too or dead.
LEMMA HalfLinkBreaks ==
  ASSUME NEW b \in Body, NEW ces \in Seq(Nat), NEW m, m = Linked(b, ces),
         m < Len(ces), NEW r, r.coedges = Relink(b, ces), r.edges = b.edges,
         NEW S, Permuted(r, S)
  PROVE  /\ \A i \in 1..m : ces[i] \notin S
         /\ Permuted(b, S)
<1>1. PICK n : n = Relink(b, ces) /\ n = r.coedges
  OBVIOUS
<1>2. /\ DOMAIN n = DOMAIN b.coedges
      /\ \A c \in DOMAIN n : (\A i \in 1..m : ces[i] # c) => n[c] = b.coedges[c]
      /\ \A i \in 1..m : IsLastPlace(ces, m, i) => n[ces[i]].next = ces[i + 1]
  BY <1>1, HalfLink
<1>3. /\ S \subseteq DOMAIN n
      /\ \A c \in S : Live(b.edges, n[c].edge)
      /\ {n[c].next : c \in S} = S
  BY <1>1 DEF Permuted, NextOf
<1>4. \A i \in 1..m : ces[i] \notin S
  <2>1. PICK P : P = {i \in 1..m : ces[i] \in S}
    OBVIOUS
  <2>2. SUFFICES ASSUME P # {} PROVE FALSE
    BY <2>1
  <2>3. m \in Nat /\ ~Live(b.coedges, ces[m + 1])
    BY LinkedProperties
  <2>4. P \in SUBSET (1..m)
    BY <2>1
  <2>5. PICK i \in P : \A j \in P : j <= i
    BY <2>2, <2>3, <2>4, Greatest
  <2>6. i \in 1..m /\ ces[i] \in S
    BY <2>1, <2>5
  <2>7. IsLastPlace(ces, m, i)
    BY <2>1, <2>5, <2>6 DEF IsLastPlace
  <2>8. ces[i + 1] \in S
    BY <1>2, <1>3, <2>6, <2>7
  <2>9. CASE i = m
    BY <1>2, <1>3, <2>3, <2>8, <2>9 DEF Live
  <2>10. CASE i # m
    <3>1. i + 1 \in 1..m /\ ~(i + 1 <= i)
      BY <2>3, <2>6, <2>10
    <3>2. i + 1 \in P
      BY <2>1, <2>8, <3>1
    <3> QED BY <2>5, <3>1, <3>2
  <2> QED BY <2>9, <2>10
<1>5. \A c \in S : n[c] = b.coedges[c]
  BY <1>2, <1>3, <1>4
<1>6. Permuted(b, S)
  <2>1. {b.coedges[c].next : c \in S} = S
    BY <1>3, <1>5
  <2> QED BY <1>2, <1>3, <1>5, <2>1 DEF Permuted, NextOf
<1> QED BY <1>4, <1>6

\* The verdict on a face depends on its outer loop and the walk from its first.
LEMMA OuterVerdictCases ==
  ASSUME NEW b, NEW f, NEW outer, NEW first,
         outer = b.faces[f].outer, first = b.loops[outer].first,
         Live(b.loops, outer), OuterVerdict(b, f) = "closed"
  PROVE  first = 0 \/ RingVerdict(b, first) = "closed"
BY DEF OuterVerdict

\* body.cpp:89-94: when link_loop() fails half-way, no face whose outer ring it
\* has touched still passes validate().
THEOREM HalfLinksAreNoticed == Spec => []HalfLinkNoticed
<1>1. IInv => HalfLinkNoticed
  <2> SUFFICES ASSUME IInv, NEW f \in DOMAIN body.faces,
                      Live(body.loops, body.faces[f].outer),
                      OuterRing(f) # {},
                      NEW ces \in Rings, LinkStatus(body, ces) = "NotFound",
                      NEW i \in 1 .. Linked(body, ces), ces[i] \in OuterRing(f),
                      OuterVerdict(LinkLoop(body, ces), f) = "closed"
               PROVE  FALSE
    BY DEF HalfLinkNoticed
  <2>1. body \in Body /\ body.coedges \in Seq(Coedge) /\ GoodBody(body)
    BY Fields DEF IInv, GoodBody
  <2>2. ces \in Seq(Nat)
    BY <2>1, RingsAreSequences
  <2>3. PICK m : m = Linked(body, ces)
    OBVIOUS
  <2>4. m < Len(ces)
    BY <2>3 DEF LinkStatus
  <2>5. PICK r : r = LinkLoop(body, ces)
    OBVIOUS
  <2>6. PICK n : n = Relink(body, ces)
    OBVIOUS
  <2>7. n \in Seq(Coedge)
    BY <2>1, <2>2, <2>6, RelinkProperties
  <2>8. r = [body EXCEPT !.coedges = n]
    BY <2>5, <2>6, Zenon DEF LinkLoop
  <2>9. /\ r.coedges = n /\ r.edges = body.edges
        /\ r.loops = body.loops /\ r.faces = body.faces
    BY <2>1, <2>7, <2>8, PutCoedges, Zenon
  <2>10. PICK outer, first : /\ outer = body.faces[f].outer
                             /\ first = body.loops[outer].first
    OBVIOUS
  <2>11. OuterRing(f) = Walk(body, first).seen
    BY <2>10 DEF OuterRing
  <2>12. first # 0
    <3>1. ~Live(body.coedges, 0)
      BY <2>1 DEF Live
    <3> QED BY <2>1, <2>11, <3>1, DeadStart
  <2>13. RingVerdict(r, first) = "closed"
    BY <2>5, <2>9, <2>10, <2>12, OuterVerdictCases
  <2>14. PICK S : Permuted(r, S) /\ first \in S
    BY <2>7, <2>9, <2>13, VerdictExact
  <2>15. Permuted(body, S) /\ \A j \in 1..m : ces[j] \notin S
    BY <2>1, <2>2, <2>3, <2>4, <2>6, <2>9, <2>14, HalfLinkBreaks
  <2>16. OuterRing(f) \subseteq S
    <3>1. \A R : Permuted(body, R) /\ first \in R =>
                   Walk(body, first).seen \subseteq R
      BY <2>1, VerdictExact
    <3> QED BY <2>11, <2>14, <2>15, <3>1, Zenon
  <2> QED BY <2>3, <2>15, <2>16
<1> QED BY <1>1, Invariance, PTL

------------------------------------------------------------------------------
(* The verdict on a copy *)

\* The pools of a copy
PoolsCopied(b, r) ==
  /\ r.curves = b.curves /\ r.surfaces = b.surfaces
  /\ r.vertices = [v \in DOMAIN b.vertices |-> CloneVertex(b, b.vertices[v])]
  /\ r.edges = [e \in DOMAIN b.edges |-> CloneEdge(b, b.edges[e])]
  /\ r.coedges = [c \in DOMAIN b.coedges |-> CloneCoedge(b, b.coedges[c])]
  /\ r.loops = [l \in DOMAIN b.loops |-> CloneLoop(b, b.loops[l])]
  /\ r.faces = [f \in DOMAIN b.faces |-> CloneFace(b, b.faces[f])]
  /\ r.shells = [s \in DOMAIN b.shells |->
                   [i \in DOMAIN b.shells[s] |-> Remap(b.faces, b.shells[s][i])]]
  /\ r.shell_list = [i \in DOMAIN b.shell_list |-> Remap(b.shells, b.shell_list[i])]

\* clone() copies the entities of each pool by themselves.
LEMMA CloneParts ==
  ASSUME NEW b \in Body
  PROVE  PoolsCopied(b, Clone(b))
<1>0. PICK r : r = Clone(b)
  OBVIOUS
<1>1. PICK vs, es, cs, ls, fs, ss, sl :
        /\ vs = [v \in DOMAIN b.vertices |-> CloneVertex(b, b.vertices[v])]
        /\ es = [e \in DOMAIN b.edges |-> CloneEdge(b, b.edges[e])]
        /\ cs = [c \in DOMAIN b.coedges |-> CloneCoedge(b, b.coedges[c])]
        /\ ls = [l \in DOMAIN b.loops |-> CloneLoop(b, b.loops[l])]
        /\ fs = [f \in DOMAIN b.faces |-> CloneFace(b, b.faces[f])]
        /\ ss = [s \in DOMAIN b.shells |->
                   [i \in DOMAIN b.shells[s] |-> Remap(b.faces, b.shells[s][i])]]
        /\ sl = [i \in DOMAIN b.shell_list |-> Remap(b.shells, b.shell_list[i])]
  OBVIOUS
<1>2. r = [b EXCEPT !.vertices = vs, !.edges = es, !.coedges = cs,
                    !.loops = ls, !.faces = fs, !.shells = ss,
                    !.shell_list = sl, !.bbox_dirty = TRUE,
                    !.cached_bbox = {}]
  BY <1>0, <1>1 DEF Clone
<1>3. /\ r.curves = b.curves /\ r.surfaces = b.surfaces /\ r.vertices = vs
      /\ r.edges = es /\ r.coedges = cs /\ r.loops = ls /\ r.faces = fs
      /\ r.shells = ss /\ r.shell_list = sl
  BY <1>2, Zenon DEF Body
<1>4. PoolsCopied(b, r)
  BY ONLY <1>1, <1>3, Zenon DEF PoolsCopied
<1> QED BY ONLY <1>0, <1>4, Zenon

\* A copy has the original's entities, and what validate() reads of an entity of
\* it is what clone()'s remap_*() made of the original's.
IsCopy(b, r) ==
  /\ r.curves = b.curves /\ r.surfaces = b.surfaces
  /\ DOMAIN r.vertices = DOMAIN b.vertices
  /\ DOMAIN r.edges = DOMAIN b.edges
  /\ DOMAIN r.coedges = DOMAIN b.coedges
  /\ DOMAIN r.loops = DOMAIN b.loops
  /\ DOMAIN r.faces = DOMAIN b.faces
  /\ DOMAIN r.shells = DOMAIN b.shells
  /\ DOMAIN r.shell_list = DOMAIN b.shell_list

CopiedEdge(b, d, x) ==
  /\ x.curve = RemapCount(b.curves, d.curve)
  /\ x.start = Remap(b.vertices, d.start) /\ x.end = Remap(b.vertices, d.end)
  /\ x.proper = d.proper

CopiedCoedge(b, d, x) ==
  x.edge = Remap(b.edges, d.edge) /\ x.next = Remap(b.coedges, d.next)

CopiedFace(b, d, x) ==
  x.surface = RemapCount(b.surfaces, d.surface) /\ x.outer = Remap(b.loops, d.outer)

CopiedEntities(b, r) ==
  /\ \A e \in DOMAIN b.edges : CopiedEdge(b, b.edges[e], r.edges[e])
  /\ \A c \in DOMAIN b.coedges : CopiedCoedge(b, b.coedges[c], r.coedges[c])
  /\ \A l \in DOMAIN b.loops :
       r.loops[l].first = Remap(b.coedges, b.loops[l].first)
  /\ \A f \in DOMAIN b.faces : CopiedFace(b, b.faces[f], r.faces[f])
  /\ \A i \in DOMAIN b.shell_list :
       r.shell_list[i] = Remap(b.shells, b.shell_list[i])

\* clone() makes such a copy.
LEMMA CloneCopies ==
  ASSUME NEW b \in Body
  PROVE  IsCopy(b, Clone(b)) /\ CopiedEntities(b, Clone(b))
<1>0. PICK r : r = Clone(b)
  OBVIOUS
<1>1. /\ b.edges \in Seq(Edge) /\ b.coedges \in Seq(Coedge)
      /\ b.loops \in Seq(Loop) /\ b.faces \in Seq(Face)
  BY Fields
<1>8. PoolsCopied(b, r)
  BY <1>0, CloneParts
<1>2. IsCopy(b, r)
  BY <1>8, Zenon DEF IsCopy, PoolsCopied
<1>3. ASSUME NEW e \in DOMAIN b.edges
      PROVE  CopiedEdge(b, b.edges[e], r.edges[e])
  <2>1. PICK d, x : d = b.edges[e] /\ x = r.edges[e]
    OBVIOUS
  <2>2. d \in Edge /\ x = CloneEdge(b, d)
    <3>1. x = CloneEdge(b, d)
      BY <1>8, <2>1, Zenon DEF PoolsCopied
    <3> QED BY <1>1, <2>1, <3>1
  <2>3. PICK u, v, w, p, q : /\ u = RemapCount(b.curves, d.curve)
                             /\ v = Remap(b.vertices, d.start)
                             /\ w = Remap(b.vertices, d.end)
                             /\ p = Remap(b.coedges, d.coedge_a)
                             /\ q = Remap(b.coedges, d.coedge_b)
    OBVIOUS
  <2>4. x = [d EXCEPT !.curve = u, !.start = v, !.end = w,
                      !.coedge_a = p, !.coedge_b = q]
    BY <2>2, <2>3, Zenon DEF CloneEdge
  <2>5. x.curve = u /\ x.start = v /\ x.end = w /\ x.proper = d.proper
    BY <2>2, <2>4, Zenon DEF Edge
  <2> QED BY <2>1, <2>3, <2>5, Zenon DEF CopiedEdge
<1>4. ASSUME NEW c \in DOMAIN b.coedges
      PROVE  CopiedCoedge(b, b.coedges[c], r.coedges[c])
  <2>1. PICK d, x : d = b.coedges[c] /\ x = r.coedges[c]
    OBVIOUS
  <2>2. d \in Coedge /\ x = CloneCoedge(b, d)
    <3>1. x = CloneCoedge(b, d)
      BY <1>8, <2>1, Zenon DEF PoolsCopied
    <3> QED BY <1>1, <2>1, <3>1
  <2>3. PICK u, v, w, p, q : /\ u = Remap(b.edges, d.edge)
                             /\ v = Remap(b.loops, d.loop)
                             /\ w = Remap(b.coedges, d.prev)
                             /\ p = Remap(b.coedges, d.next)
                             /\ q = Remap(b.coedges, d.partner)
    OBVIOUS
  <2>4. x = [d EXCEPT !.edge = u, !.loop = v, !.prev = w, !.next = p,
                      !.partner = q]
    BY <2>2, <2>3, Zenon DEF CloneCoedge
  <2>5. x.edge = u /\ x.next = p
    BY <2>2, <2>4, Zenon DEF Coedge
  <2> QED BY <2>1, <2>3, <2>5, Zenon DEF CopiedCoedge
<1>5. ASSUME NEW l \in DOMAIN b.loops
      PROVE  r.loops[l].first = Remap(b.coedges, b.loops[l].first)
  <2>1. PICK d, x : d = b.loops[l] /\ x = r.loops[l]
    OBVIOUS
  <2>2. d \in Loop /\ x = CloneLoop(b, d)
    <3>1. x = CloneLoop(b, d)
      BY <1>8, <2>1, Zenon DEF PoolsCopied
    <3> QED BY <1>1, <2>1, <3>1
  <2>3. PICK u, v : u = Remap(b.faces, d.face) /\ v = Remap(b.coedges, d.first)
    OBVIOUS
  <2>4. x = [d EXCEPT !.face = u, !.first = v]
    BY <2>2, <2>3, Zenon DEF CloneLoop
  <2>5. x.first = v
    BY <2>2, <2>4, Zenon DEF Loop
  <2> QED BY <2>1, <2>3, <2>5, Zenon
<1>6. ASSUME NEW f \in DOMAIN b.faces
      PROVE  CopiedFace(b, b.faces[f], r.faces[f])
  <2>1. PICK d, x : d = b.faces[f] /\ x = r.faces[f]
    OBVIOUS
  <2>2. d \in Face /\ x = CloneFace(b, d)
    <3>1. x = CloneFace(b, d)
      BY <1>8, <2>1, Zenon DEF PoolsCopied
    <3> QED BY <1>1, <2>1, <3>1
  <2>3. PICK u, v, w, p :
          /\ u = RemapCount(b.surfaces, d.surface)
          /\ v = Remap(b.loops, d.outer)
          /\ w = Remap(b.shells, d.shell)
          /\ p = [i \in DOMAIN d.inner |-> Remap(b.loops, d.inner[i])]
    OBVIOUS
  <2>4. x = [d EXCEPT !.surface = u, !.outer = v, !.shell = w, !.inner = p]
    BY <2>2, <2>3, Zenon DEF CloneFace
  <2>5. x.surface = u /\ x.outer = v
    BY <2>2, <2>4, Zenon DEF Face
  <2> QED BY <2>1, <2>3, <2>5, Zenon DEF CopiedFace
<1>7. \A i \in DOMAIN b.shell_list :
        r.shell_list[i] = Remap(b.shells, b.shell_list[i])
  BY <1>8, Zenon DEF PoolsCopied
<1>9. CopiedEntities(b, r)
  BY <1>3, <1>4, <1>5, <1>6, <1>7, Zenon DEF CopiedEntities
<1> QED BY <1>0, <1>2, <1>9

\* A handle and what remap_*() makes of it are both live, and the same, or dead.
LEMMA RemapCases ==
  ASSUME NEW T, NEW pool \in Seq(T), NEW h
  PROVE  /\ Live(pool, h) => Remap(pool, h) = h
         /\ ~Live(pool, h) => Remap(pool, h) = 0
         /\ Live(pool, Remap(pool, h)) <=> Live(pool, h)
<1>1. ~Live(pool, 0)
  BY DEF Live
<1> QED BY <1>1 DEF Remap

\* The walks on a body and on its copy in step
InStep(b, p, q) ==
  /\ q.seen = p.seen /\ q.end = p.end
  /\ p.end = "walks on" => q.cur = Remap(b.coedges, p.cur)

\* One round keeps them in step.
LEMMA CopyRound ==
  ASSUME NEW b, NEW r, b.coedges \in Seq(Coedge), r.coedges \in Seq(Coedge),
         b.edges \in Seq(Edge), IsCopy(b, r), CopiedEntities(b, r),
         NEW start, Live(b.coedges, start),
         NEW n, NEW p, NEW q, IsRound(p), IsRound(q), InStep(b, p, q)
  PROVE  InStep(b, WalkRound(b, start, p, n), WalkRound(r, start, q, n))
<1>1. PICK p2, q2 : p2 = WalkRound(b, start, p, n) /\ q2 = WalkRound(r, start, q, n)
  OBVIOUS
<1>2. CASE p.end # "walks on"
  <2>1. p2 = p /\ q2 = q
    BY <1>1, <1>2 DEF WalkRound, InStep
  <2> QED BY <1>1, <2>1
<1>3. CASE p.end = "walks on"
  <2>1. PICK t, u : t = Trouble(b, p.cur, p.seen, n) /\ u = Trouble(r, q.cur, q.seen, n)
    OBVIOUS
  <2>2. PICK c, d : c = p.cur /\ d = q.cur
    OBVIOUS
  <2>3. d = Remap(b.coedges, c) /\ q.seen = p.seen /\ q.end = "walks on"
    BY <1>3, <2>2 DEF InStep
  <2>4. Live(r.coedges, d) <=> Live(b.coedges, d)
    BY DEF IsCopy, Live
  <2>5. Live(r.coedges, d) <=> Live(b.coedges, c)
    BY <2>3, <2>4, RemapCases
  <2>6. Live(b.coedges, c) => d = c
    BY <2>3, RemapCases
  <2>7. ASSUME Live(b.coedges, c)
        PROVE  /\ Live(r.edges, r.coedges[c].edge) <=> Live(b.edges, b.coedges[c].edge)
               /\ r.coedges[c].next = Remap(b.coedges, b.coedges[c].next)
    <3>1. CopiedCoedge(b, b.coedges[c], r.coedges[c])
      BY <2>7 DEF CopiedEntities, Live
    <3>2. PICK e, f : e = b.coedges[c].edge /\ f = r.coedges[c].edge
      OBVIOUS
    <3>3. f = Remap(b.edges, e)
      BY <3>1, <3>2 DEF CopiedCoedge
    <3>4. Live(b.edges, f) <=> Live(b.edges, e)
      BY <3>3, RemapCases
    <3>5. Live(r.edges, f) <=> Live(b.edges, f)
      BY DEF IsCopy, Live
    <3> QED BY <3>1, <3>2, <3>4, <3>5 DEF CopiedCoedge
  <2>8. Len(r.coedges) = Len(b.coedges)
    <3>1. PICK x, y : x = b.coedges /\ y = r.coedges
      OBVIOUS
    <3>2. x \in Seq(Coedge) /\ y \in Seq(Coedge) /\ DOMAIN x = DOMAIN y
      BY <3>1 DEF IsCopy
    <3>3. Len(x) = Len(y)
      BY ONLY <3>2
    <3> QED BY <3>1, <3>3
  <2>9. t = u
    BY <2>1, <2>2, <2>3, <2>5, <2>6, <2>7, <2>8, Zenon DEF Trouble
  <2>10. CASE t # "none"
    <3>1. p2 = [p EXCEPT !.end = t] /\ q2 = [q EXCEPT !.end = t]
      BY <1>1, <1>3, <2>1, <2>3, <2>9, <2>10 DEF WalkRound
    <3>2. p2.end = t /\ q2.end = t /\ p2.seen = p.seen /\ q2.seen = q.seen
      BY <3>1 DEF IsRound
    <3>3. t # "walks on"
      BY <2>1 DEF Trouble
    <3>4. InStep(b, p2, q2)
      BY <2>3, <3>2, <3>3 DEF InStep
    <3> QED BY <1>1, <3>4
  <2>11. CASE t = "none"
    <3>1. Live(b.coedges, c) /\ d = c
      BY <2>1, <2>2, <2>6, <2>11, Zenon DEF Trouble
    <3>2. PICK next, after : next = b.coedges[c].next /\ after = r.coedges[c].next
      OBVIOUS
    <3>3. after = Remap(b.coedges, next)
      BY <2>7, <3>1, <3>2
    <3>4. after = start <=> next = start
      <4>1. start # 0
        BY DEF Live
      <4> QED BY <3>3, <4>1, RemapCases
    <3>5. p2 = [cur |-> next, seen |-> p.seen \cup {c},
                end |-> IF next = start THEN "closed" ELSE "walks on"]
      BY <1>1, <1>3, <2>1, <2>2, <2>11, <3>2 DEF WalkRound
    <3>6. q2 = [cur |-> after, seen |-> p.seen \cup {c},
                end |-> IF after = start THEN "closed" ELSE "walks on"]
      BY <1>1, <2>1, <2>2, <2>3, <2>9, <2>11, <3>1, <3>2 DEF WalkRound
    <3>7. InStep(b, p2, q2)
      BY <3>3, <3>4, <3>5, <3>6 DEF InStep
    <3> QED BY <1>1, <3>7
  <2> QED BY <2>10, <2>11
<1> QED BY <1>2, <1>3

\* So the walks end alike.
LEMMA CopyWalk ==
  ASSUME NEW b, NEW r, b.coedges \in Seq(Coedge), r.coedges \in Seq(Coedge),
         b.edges \in Seq(Edge), IsCopy(b, r), CopiedEntities(b, r),
         NEW start, Live(b.coedges, start)
  PROVE  RingVerdict(r, start) = RingVerdict(b, start)
<1>1. PICK at : Rounds(b, start, at) /\ Walk(b, start) = at[Len(b.coedges) + 5]
  BY WalkRounds
<1>2. PICK by : Rounds(r, start, by) /\ Walk(r, start) = by[Len(r.coedges) + 5]
  BY WalkRounds
<1> DEFINE T == {n \in Nat : InStep(b, at[n], by[n])}
<1>3. 0 \in T
  <2>1. PICK p, q : p = at[0] /\ q = by[0]
    OBVIOUS
  <2>2. p = FirstRound(start) /\ q = FirstRound(start)
    BY ONLY <1>1, <1>2, <2>1 DEF Rounds
  <2>3. p.cur = start /\ q.cur = start /\ q.seen = p.seen /\ q.end = p.end
    BY ONLY <2>2 DEF FirstRound
  <2>4. Remap(b.coedges, start) = start
    BY RemapCases
  <2>5. InStep(b, p, q)
    BY ONLY <2>3, <2>4 DEF InStep
  <2> QED BY <2>1, <2>5
<1>4. ASSUME NEW n \in Nat, n \in T PROVE n + 1 \in T
  <2>1. PICK p, q : p = at[n] /\ q = by[n]
    OBVIOUS
  <2>2. InStep(b, p, q)
    BY <1>4, <2>1
  <2>3. IsRound(p) /\ IsRound(q)
    BY <1>1, <1>2, <2>1, WalkGood
  <2>4. InStep(b, WalkRound(b, start, p, n + 1), WalkRound(r, start, q, n + 1))
    <3> HIDE DEF T
    <3> QED BY <2>2, <2>3, CopyRound
  <2>5. at[n + 1] = WalkRound(b, start, p, n + 1) /\ by[n + 1] = WalkRound(r, start, q, n + 1)
    BY <1>1, <1>2, <2>1 DEF Rounds
  <2> QED BY <2>4, <2>5
<1>5. Nat \subseteq T
  <2> HIDE DEF T
  <2> QED BY <1>3, <1>4, NatSets
<1>6. Len(r.coedges) = Len(b.coedges) /\ Len(b.coedges) + 5 \in Nat
  <2>1. PICK x, y : x = b.coedges /\ y = r.coedges
    OBVIOUS
  <2>2. x \in Seq(Coedge) /\ y \in Seq(Coedge) /\ DOMAIN x = DOMAIN y
    BY <2>1 DEF IsCopy
  <2>3. Len(x) = Len(y) /\ Len(x) + 5 \in Nat
    BY ONLY <2>2
  <2> QED BY <2>1, <2>3
<1>7. PICK m \in Nat : m = Len(b.coedges) + 5 /\ m = Len(r.coedges) + 5
  BY <1>6
<1>8. InStep(b, Walk(b, start), Walk(r, start))
  BY <1>1, <1>2, <1>5, <1>7
<1> QED BY <1>8 DEF InStep, RingVerdict

\* A copy's faces get the same verdicts.
LEMMA CopyOuterVerdict ==
  ASSUME NEW b, GoodBody(b), NEW r, GoodBody(r),
         IsCopy(b, r), CopiedEntities(b, r), NEW f \in DOMAIN b.faces
  PROVE  OuterVerdict(r, f) = OuterVerdict(b, f)
<1>1. /\ b.coedges \in Seq(Coedge) /\ r.coedges \in Seq(Coedge)
      /\ b.edges \in Seq(Edge) /\ b.loops \in Seq(Loop)
  BY Fields DEF GoodBody
<1>2. PICK outer, copied : outer = b.faces[f].outer /\ copied = r.faces[f].outer
  OBVIOUS
<1>3. copied = Remap(b.loops, outer)
  BY <1>2, Zenon DEF CopiedEntities, CopiedFace
<1>4. Live(r.loops, copied) <=> Live(b.loops, outer)
  <2>1. Live(r.loops, copied) <=> Live(b.loops, copied)
    BY DEF IsCopy, Live
  <2> QED BY <1>1, <1>3, <2>1, RemapCases
<1>5. CASE ~Live(b.loops, outer)
  BY <1>2, <1>4, <1>5, Zenon DEF OuterVerdict
<1>6. CASE Live(b.loops, outer)
  <2>1. copied = outer
    BY <1>1, <1>3, <1>6, RemapCases
  <2>2. PICK first, after : first = b.loops[outer].first /\ after = r.loops[outer].first
    OBVIOUS
  <2>3. after = Remap(b.coedges, first)
    BY <1>6, <2>2, Zenon DEF CopiedEntities, Live
  <2>4. first = 0 \/ Live(b.coedges, first)
    BY <1>6, <2>2, Zenon
       DEF GoodBody, HelperReferences, LoopsGood, Null, Live
  <2>5. after = first
    <3>1. ~Live(b.coedges, 0)
      BY <1>1 DEF Live
    <3> QED BY <1>1, <2>3, <2>4, <3>1, RemapCases
  <2>6. first # 0 => RingVerdict(r, first) = RingVerdict(b, first)
    BY <1>1, <2>4, CopyWalk
  <2>7. OuterVerdict(b, f) =
          IF first = 0 THEN "closed" ELSE RingVerdict(b, first)
    BY <1>2, <1>6, <2>2, Zenon DEF OuterVerdict
  <2>8. OuterVerdict(r, f) =
          IF first = 0 THEN "closed" ELSE RingVerdict(r, first)
    BY <1>2, <1>4, <1>6, <2>1, <2>2, <2>5, Zenon DEF OuterVerdict
  <2> QED BY <2>6, <2>7, <2>8
<1> QED BY <1>5, <1>6

\* What is wrong with an edge
EdgeFaults(b, d) ==
  {what \in {"null curve", "stale curve", "start", "end", "interval"} :
     \/ what = "null curve" /\ d.curve = 0
     \/ what = "stale curve" /\ d.curve \notin 0 .. b.curves
     \/ what = "start" /\ ~Live(b.vertices, d.start)
     \/ what = "end" /\ ~Live(b.vertices, d.end)
     \/ what = "interval" /\ ~d.proper}

\* The issues of the edges are those of each edge.
LEMMA EdgeIssuesByEdge ==
  ASSUME NEW b
  PROVE  \A i : i \in EdgeIssues(b) <=>
           \E e \in DOMAIN b.edges : \E what \in EdgeFaults(b, b.edges[e]) :
             i = Issue("edge", e, what)
<1>1. ASSUME NEW i \in EdgeIssues(b)
      PROVE  \E e \in DOMAIN b.edges : \E what \in EdgeFaults(b, b.edges[e]) :
               i = Issue("edge", e, what)
  <2>1. CASE i \in {Issue("edge", e, "null curve") : e \in
                  {d \in DOMAIN b.edges : b.edges[d].curve = 0}}
    <3>1. PICK e \in DOMAIN b.edges :
            i = Issue("edge", e, "null curve") /\ b.edges[e].curve = 0
      BY <2>1
    <3>2. "null curve" \in EdgeFaults(b, b.edges[e])
      BY <3>1 DEF EdgeFaults
    <3> QED BY <3>1, <3>2
  <2>2. CASE i \in {Issue("edge", e, "stale curve") : e \in
                  {d \in DOMAIN b.edges : b.edges[d].curve \notin 0 .. b.curves}}
    <3>1. PICK e \in DOMAIN b.edges :
            i = Issue("edge", e, "stale curve") /\ b.edges[e].curve \notin 0 .. b.curves
      BY <2>2
    <3>2. "stale curve" \in EdgeFaults(b, b.edges[e])
      BY <3>1 DEF EdgeFaults
    <3> QED BY <3>1, <3>2
  <2>3. CASE i \in {Issue("edge", e, "start") : e \in
                  {d \in DOMAIN b.edges : ~Live(b.vertices, b.edges[d].start)}}
    <3>1. PICK e \in DOMAIN b.edges :
            i = Issue("edge", e, "start") /\ ~Live(b.vertices, b.edges[e].start)
      BY <2>3
    <3>2. "start" \in EdgeFaults(b, b.edges[e])
      BY <3>1 DEF EdgeFaults
    <3> QED BY <3>1, <3>2
  <2>4. CASE i \in {Issue("edge", e, "end") : e \in
                  {d \in DOMAIN b.edges : ~Live(b.vertices, b.edges[d].end)}}
    <3>1. PICK e \in DOMAIN b.edges :
            i = Issue("edge", e, "end") /\ ~Live(b.vertices, b.edges[e].end)
      BY <2>4
    <3>2. "end" \in EdgeFaults(b, b.edges[e])
      BY <3>1 DEF EdgeFaults
    <3> QED BY <3>1, <3>2
  <2>5. CASE i \in {Issue("edge", e, "interval") : e \in
                  {d \in DOMAIN b.edges : ~b.edges[d].proper}}
    <3>1. PICK e \in DOMAIN b.edges :
            i = Issue("edge", e, "interval") /\ ~b.edges[e].proper
      BY <2>5
    <3>2. "interval" \in EdgeFaults(b, b.edges[e])
      BY <3>1 DEF EdgeFaults
    <3> QED BY <3>1, <3>2
  <2> QED BY <2>1, <2>2, <2>3, <2>4, <2>5, Zenon DEF EdgeIssues
<1>2. ASSUME NEW e \in DOMAIN b.edges, NEW what \in EdgeFaults(b, b.edges[e])
      PROVE  Issue("edge", e, what) \in EdgeIssues(b)
  <2>1. CASE what = "null curve"
    <3>1. e \in {d \in DOMAIN b.edges : b.edges[d].curve = 0}
      BY <2>1 DEF EdgeFaults
    <3> QED BY <2>1, <3>1, Zenon DEF EdgeIssues
  <2>2. CASE what = "stale curve"
    <3>1. e \in {d \in DOMAIN b.edges : b.edges[d].curve \notin 0 .. b.curves}
      BY <2>2 DEF EdgeFaults
    <3> QED BY <2>2, <3>1, Zenon DEF EdgeIssues
  <2>3. CASE what = "start"
    <3>1. e \in {d \in DOMAIN b.edges : ~Live(b.vertices, b.edges[d].start)}
      BY <2>3 DEF EdgeFaults
    <3> QED BY <2>3, <3>1, Zenon DEF EdgeIssues
  <2>4. CASE what = "end"
    <3>1. e \in {d \in DOMAIN b.edges : ~Live(b.vertices, b.edges[d].end)}
      BY <2>4 DEF EdgeFaults
    <3> QED BY <2>4, <3>1, Zenon DEF EdgeIssues
  <2>5. CASE what = "interval"
    <3>1. e \in {d \in DOMAIN b.edges : ~b.edges[d].proper}
      BY <2>5 DEF EdgeFaults
    <3> QED BY <2>5, <3>1, Zenon DEF EdgeIssues
  <2> QED BY <2>1, <2>2, <2>3, <2>4, <2>5 DEF EdgeFaults
<1> QED BY <1>1, <1>2, Zenon

\* A copy's edge has the faults of its original, but for a handle of no curve,
\* which has become null.
LEMMA CopyEdgeFaults ==
  ASSUME NEW b, NEW r, b.vertices \in Seq(Vertex), b.curves \in Nat,
         IsCopy(b, r), NEW d, NEW x, d.curve \in Nat, CopiedEdge(b, d, x)
  PROVE  /\ EdgeFaults(r, x) \subseteq EdgeFaults(b, d) \cup {"null curve"}
         /\ EdgeFaults(b, d) \subseteq EdgeFaults(r, x) \cup {"stale curve"}
         /\ "null curve" \in EdgeFaults(r, x) <=>
              "null curve" \in EdgeFaults(b, d) \/ "stale curve" \in EdgeFaults(b, d)
<1>1. /\ Live(r.vertices, x.start) <=> Live(b.vertices, d.start)
      /\ Live(r.vertices, x.end) <=> Live(b.vertices, d.end)
  <2>1. PICK v, w, v2, w2 : v = d.start /\ w = d.end /\ v2 = x.start /\ w2 = x.end
    OBVIOUS
  <2>2. v2 = Remap(b.vertices, v) /\ w2 = Remap(b.vertices, w)
    BY <2>1 DEF CopiedEdge
  <2>3. /\ Live(b.vertices, v2) <=> Live(b.vertices, v)
        /\ Live(b.vertices, w2) <=> Live(b.vertices, w)
    BY <2>2, RemapCases
  <2>4. /\ Live(r.vertices, v2) <=> Live(b.vertices, v2)
        /\ Live(r.vertices, w2) <=> Live(b.vertices, w2)
    BY DEF IsCopy, Live
  <2> QED BY <2>1, <2>3, <2>4
<1>2. PICK k, m, c : k = d.curve /\ m = x.curve /\ c = b.curves
  OBVIOUS
<1>3. k \in Nat /\ c \in Nat /\ m = RemapCount(c, k) /\ r.curves = c
  BY <1>2 DEF CopiedEdge, IsCopy
<1>4. m \in 0..c /\ (m = 0 <=> k = 0 \/ k \notin 0..c)
  BY ONLY <1>3 DEF RemapCount
<1>5. x.proper = d.proper
  BY DEF CopiedEdge
<1> QED BY <1>1, <1>2, <1>3, <1>4, <1>5 DEF EdgeFaults

BlurredIssues(S) == {Blurred(i) : i \in S}

\* Blurring makes one of the two faults of a curve, and one of all dead shells.
LEMMA BlurredIssue ==
  ASSUME NEW on, NEW slot, NEW what
  PROVE  Blurred(Issue(on, slot, what)) =
         Issue(on, IF what = "invalid shell" THEN 0 ELSE slot,
               IF what = "stale curve" THEN "null curve" ELSE what)
<1>1. PICK i : i = Issue(on, slot, what)
  OBVIOUS
<1>2. i = [on |-> on, slot |-> slot, what |-> what]
  BY <1>1 DEF Issue
<1>3. PICK u, v : /\ u = IF what = "invalid shell" THEN 0 ELSE slot
                  /\ v = IF what = "stale curve" THEN "null curve" ELSE what
  OBVIOUS
<1>4. i.slot = slot /\ i.what = what
  BY ONLY <1>2
<1>5. Blurred(i) = [i EXCEPT !.slot = u, !.what = v]
  BY ONLY <1>3, <1>4, Zenon DEF Blurred
<1>6. [i EXCEPT !.slot = u, !.what = v] = [on |-> on, slot |-> u, what |-> v]
  <2>1. PICK j : j = [i EXCEPT !.slot = u]
    OBVIOUS
  <2>2. j = [on |-> on, slot |-> u, what |-> what]
    BY ONLY <1>2, <2>1
  <2>3. [j EXCEPT !.what = v] = [on |-> on, slot |-> u, what |-> v]
    BY ONLY <2>2
  <2> QED BY ONLY <2>1, <2>3, Zenon
<1> QED BY ONLY <1>1, <1>3, <1>5, <1>6, Zenon DEF Issue

\* A copy's edges have the issues of the original's.
LEMMA CopyEdgeIssues ==
  ASSUME NEW b, b \in Body, NEW r, IsCopy(b, r), CopiedEntities(b, r)
  PROVE  BlurredIssues(EdgeIssues(r)) = BlurredIssues(EdgeIssues(b))
<1>1. /\ b.vertices \in Seq(Vertex) /\ b.curves \in Nat /\ b.edges \in Seq(Edge)
      /\ DOMAIN r.edges = DOMAIN b.edges
  BY Fields, Zenon DEF IsCopy
<1> DEFINE F(e) == EdgeFaults(b, b.edges[e])
           G(e) == EdgeFaults(r, r.edges[e])
<1>2. ASSUME NEW e \in DOMAIN b.edges
      PROVE  /\ G(e) \subseteq F(e) \cup {"null curve"}
             /\ F(e) \subseteq G(e) \cup {"stale curve"}
             /\ "null curve" \in G(e) <=> "null curve" \in F(e) \/ "stale curve" \in F(e)
  <2>1. PICK d, x : d = b.edges[e] /\ x = r.edges[e]
    OBVIOUS
  <2>2. d \in Edge
    BY <1>1, <2>1
  <2>3. d.curve \in Nat
    BY <2>2, Zenon DEF Edge
  <2>4. CopiedEdge(b, d, x)
    BY <2>1, Zenon DEF CopiedEntities
  <2>5. /\ EdgeFaults(r, x) \subseteq EdgeFaults(b, d) \cup {"null curve"}
        /\ EdgeFaults(b, d) \subseteq EdgeFaults(r, x) \cup {"stale curve"}
        /\ "null curve" \in EdgeFaults(r, x) <=>
             "null curve" \in EdgeFaults(b, d) \/ "stale curve" \in EdgeFaults(b, d)
    BY <1>1, <2>3, <2>4, CopyEdgeFaults
  <2> QED BY <2>1, <2>5
<1>3. /\ \A e : Blurred(Issue("edge", e, "null curve")) = Issue("edge", e, "null curve")
      /\ \A e : Blurred(Issue("edge", e, "stale curve")) = Issue("edge", e, "null curve")
  BY BlurredIssue
<1>4. /\ \A i : i \in EdgeIssues(b) <=> \E e \in DOMAIN b.edges : \E what \in F(e) :
                                            i = Issue("edge", e, what)
      /\ \A i : i \in EdgeIssues(r) <=> \E e \in DOMAIN r.edges : \E what \in G(e) :
                                            i = Issue("edge", e, what)
  BY EdgeIssuesByEdge, Zenon
<1> HIDE DEF F, G
<1>5. ASSUME NEW i \in EdgeIssues(r) PROVE \E j \in EdgeIssues(b) : Blurred(j) = Blurred(i)
  <2>1. PICK e \in DOMAIN b.edges : \E what \in G(e) : i = Issue("edge", e, what)
    BY <1>1, <1>4
  <2>2. PICK what \in G(e) : i = Issue("edge", e, what)
    BY <2>1
  <2>3. CASE what \in F(e)
    BY <1>4, <2>2, <2>3
  <2>4. CASE what \notin F(e)
    <3>1. what = "null curve" /\ "stale curve" \in F(e)
      BY <1>2, <2>2, <2>4
    <3>2. Issue("edge", e, "stale curve") \in EdgeIssues(b)
      BY <1>4, <3>1
    <3> QED BY <1>3, <2>2, <3>1, <3>2
  <2> QED BY <2>3, <2>4
<1>6. ASSUME NEW i \in EdgeIssues(b) PROVE \E j \in EdgeIssues(r) : Blurred(j) = Blurred(i)
  <2>1. PICK e \in DOMAIN b.edges : \E what \in F(e) : i = Issue("edge", e, what)
    BY <1>4
  <2>2. PICK what \in F(e) : i = Issue("edge", e, what)
    BY <2>1
  <2>3. CASE what \in G(e)
    BY <1>1, <1>4, <2>2, <2>3
  <2>4. CASE what \notin G(e)
    <3>1. what = "stale curve" /\ "null curve" \in G(e)
      BY <1>2, <2>2, <2>4
    <3>2. Issue("edge", e, "null curve") \in EdgeIssues(r)
      BY <1>1, <1>4, <3>1
    <3> QED BY <1>3, <2>2, <3>1, <3>2
  <2> QED BY <2>3, <2>4
<1>7. PICK A, B : A = EdgeIssues(r) /\ B = EdgeIssues(b)
  OBVIOUS
<1>8. /\ \A i \in A : \E j \in B : Blurred(i) = Blurred(j)
      /\ \A i \in B : \E j \in A : Blurred(i) = Blurred(j)
  BY <1>5, <1>6, <1>7
<1>9. BlurredIssues(A) = BlurredIssues(B)
  BY ONLY <1>8 DEF BlurredIssues
<1> QED BY <1>7, <1>9

\* A copy's faces have the issues of the original's.
LEMMA CopyFaceIssues ==
  ASSUME NEW b, GoodBody(b), NEW r, GoodBody(r), IsCopy(b, r), CopiedEntities(b, r)
  PROVE  FaceIssues(r) = FaceIssues(b)
<1>1. DOMAIN r.faces = DOMAIN b.faces
  BY DEF IsCopy
<1>2. \A f \in DOMAIN b.faces : OuterVerdict(r, f) = OuterVerdict(b, f)
  BY CopyOuterVerdict
<1>3. ASSUME NEW f \in DOMAIN b.faces
      PROVE  r.faces[f].surface \notin 1 .. r.surfaces <=>
             b.faces[f].surface \notin 1 .. b.surfaces
  <2>1. PICK u, v, n : u = b.faces[f].surface /\ v = r.faces[f].surface /\ n = b.surfaces
    OBVIOUS
  <2>2. v = RemapCount(n, u) /\ r.surfaces = n
    BY <2>1, Zenon DEF CopiedEntities, CopiedFace, IsCopy
  <2>3. v \notin 1..n <=> u \notin 1..n
    BY ONLY <2>2 DEF RemapCount
  <2> QED BY <2>1, <2>2, <2>3
<1>4. {g \in DOMAIN r.faces : r.faces[g].surface \notin 1 .. r.surfaces} =
      {g \in DOMAIN b.faces : b.faces[g].surface \notin 1 .. b.surfaces}
  BY <1>1, <1>3
<1>5. {Issue("face", f, OuterVerdict(r, f)) : f \in
         {g \in DOMAIN r.faces : OuterVerdict(r, g) # "closed"}} =
      {Issue("face", f, OuterVerdict(b, f)) : f \in
         {g \in DOMAIN b.faces : OuterVerdict(b, g) # "closed"}}
  BY <1>1, <1>2
<1> QED BY <1>4, <1>5, Zenon DEF FaceIssues

\* The only issues of shells whose faces are live are dead shells in the list,
\* which blurring makes one.
LEMMA ShellIssuesBlurred ==
  ASSUME NEW b, ShellsGood(b)
  PROVE  BlurredIssues(ShellIssues(b)) =
         IF \E i \in DOMAIN b.shell_list : ~Live(b.shells, b.shell_list[i])
         THEN {Issue("shell", 0, "invalid shell")} ELSE {}
<1>1. ShellIssues(b) = {Issue("shell", s, "invalid shell") : s \in
         {t \in {b.shell_list[i] : i \in DOMAIN b.shell_list} : ~Live(b.shells, t)}}
  BY Zenon DEF ShellIssues, ShellsGood, Live
<1>2. \A s : Blurred(Issue("shell", s, "invalid shell")) =
             Issue("shell", 0, "invalid shell")
  BY BlurredIssue
<1>3. PICK D : D = {t \in {b.shell_list[i] : i \in DOMAIN b.shell_list} : ~Live(b.shells, t)}
  OBVIOUS
<1>4. D # {} <=> \E i \in DOMAIN b.shell_list : ~Live(b.shells, b.shell_list[i])
  BY ONLY <1>3
<1>5. BlurredIssues(ShellIssues(b)) = {Blurred(Issue("shell", s, "invalid shell")) : s \in D}
  BY ONLY <1>1, <1>3 DEF BlurredIssues
<1>6. PICK x, y : x = BlurredIssues(ShellIssues(b)) /\ y = Issue("shell", 0, "invalid shell")
  OBVIOUS
<1>7. x = {y : s \in D}
  <2>1. \A z : z \in x <=> \E s \in D : z = Blurred(Issue("shell", s, "invalid shell"))
    BY ONLY <1>5, <1>6, Zenon
  <2>2. \A z : z \in x <=> \E s \in D : z = y
    BY ONLY <1>2, <1>6, <2>1, Zenon
  <2> QED BY ONLY <2>2
<1>8. x = IF D # {} THEN {y} ELSE {}
  BY ONLY <1>7
<1> QED BY ONLY <1>4, <1>6, <1>8, Zenon

\* A copy's shells have the issues of the original's.
LEMMA CopyShellIssues ==
  ASSUME NEW b, GoodBody(b), NEW r, GoodBody(r), IsCopy(b, r), CopiedEntities(b, r)
  PROVE  BlurredIssues(ShellIssues(r)) = BlurredIssues(ShellIssues(b))
<1>1. ShellsGood(b) /\ ShellsGood(r)
  BY DEF GoodBody, HelperReferences
<1>2. ASSUME NEW i \in DOMAIN b.shell_list
      PROVE  Live(r.shells, r.shell_list[i]) <=> Live(b.shells, b.shell_list[i])
  <2>1. PICK u, v : u = b.shell_list[i] /\ v = r.shell_list[i]
    OBVIOUS
  <2>2. v = Remap(b.shells, u)
    BY <2>1, Zenon DEF CopiedEntities
  <2>3. b.shells \in Seq(Shell)
    BY Fields DEF GoodBody
  <2>4. Live(b.shells, v) <=> Live(b.shells, u)
    BY <2>2, <2>3, RemapCases
  <2>5. Live(r.shells, v) <=> Live(b.shells, v)
    BY DEF IsCopy, Live
  <2> QED BY <2>1, <2>4, <2>5
<1>3. DOMAIN r.shell_list = DOMAIN b.shell_list
  BY DEF IsCopy
<1> QED BY <1>1, <1>2, <1>3, ShellIssuesBlurred

\* clone() (body.cpp:157): whatever the client linked before, a copy passes or
\* fails validate() as its original does, for the same reasons.
THEOREM CopiesKeepVerdicts == Spec => []CloneKeepsVerdict
<1>1. IInv => CloneKeepsVerdict
  <2> SUFFICES ASSUME IInv PROVE CloneKeepsVerdict
    OBVIOUS
  <2>1. PICK r : r = Clone(body)
    OBVIOUS
  <2>2. GoodBody(body) /\ GoodBody(r) /\ body \in Body
    BY <2>1, CloneGood DEF IInv, GoodBody
  <2>3. IsCopy(body, r) /\ CopiedEntities(body, r)
    BY <2>1, <2>2, CloneCopies
  <2>4. BlurredIssues(EdgeIssues(r)) = BlurredIssues(EdgeIssues(body))
    BY <2>2, <2>3, CopyEdgeIssues
  <2>5. FaceIssues(r) = FaceIssues(body)
    BY <2>2, <2>3, CopyFaceIssues
  <2>6. BlurredIssues(ShellIssues(r)) = BlurredIssues(ShellIssues(body))
    BY <2>2, <2>3, CopyShellIssues
  <2>7. BlurredIssues(Validate(r)) = BlurredIssues(Validate(body))
    <3>1. \A d : BlurredIssues(Validate(d)) =
                   (BlurredIssues(EdgeIssues(d)) \cup BlurredIssues(FaceIssues(d)))
                   \cup BlurredIssues(ShellIssues(d))
      <4>1. SUFFICES ASSUME NEW d
                     PROVE  BlurredIssues(Validate(d)) =
                            (BlurredIssues(EdgeIssues(d)) \cup BlurredIssues(FaceIssues(d)))
                            \cup BlurredIssues(ShellIssues(d))
        OBVIOUS
      <4>2. PICK A, B, C : A = EdgeIssues(d) /\ B = FaceIssues(d) /\ C = ShellIssues(d)
        OBVIOUS
      <4>3. BlurredIssues((A \cup B) \cup C) =
            (BlurredIssues(A) \cup BlurredIssues(B)) \cup BlurredIssues(C)
        BY ONLY DEF BlurredIssues
      <4>4. Validate(d) = (A \cup B) \cup C
        BY ONLY <4>2 DEF Validate
      <4> QED BY ONLY <4>2, <4>3, <4>4
    <3> QED BY <2>4, <2>5, <2>6, <3>1
  <2> QED BY <2>1, <2>7 DEF CloneKeepsVerdict, BlurredIssues
<1> QED BY <1>1, Invariance, PTL
==============================================================================
