---------------------------- MODULE PrimitiveProofs ---------------------------
(***************************************************************************)
(* Proofs about Primitives: for any calls, of any sizes at any places,     *)
(* what the constructors build is sound, closed and as large as it should  *)
(* be; and about the sums of lengths in Units.                             *)
(***************************************************************************)
EXTENDS Primitives, Units, TopologyProofs

------------------------------------------------------------------------------
(* Folds: a fold over a sequence is shown to go through bodies given in      *)
(* closed form.                                                              *)

\* f and g start alike and go on alike.
Alike(n, f, g) ==
  /\ f[0] = g[0]
  /\ \A i \in 1..n : f[i - 1] = g[i - 1] => f[i] = g[i]

\* Then they end alike.
LEMMA FoldUnique ==
  ASSUME NEW n \in Nat, NEW f, NEW g, Alike(n, f, g)
  PROVE  f[n] = g[n]
<1> DEFINE T == {i \in Nat : i <= n => f[i] = g[i]}
<1>1. 0 \in T
  BY DEF Alike
<1>2. ASSUME NEW i \in Nat, i \in T PROVE i + 1 \in T
  <2> SUFFICES ASSUME i + 1 <= n PROVE f[i + 1] = g[i + 1]
    BY DEF T
  <2>1. f[i] = g[i] /\ i + 1 \in 1..n /\ (i + 1) - 1 = i
    BY <1>2
  <2> QED BY <2>1 DEF Alike
<1>3. Nat \subseteq T
  <2> HIDE DEF T
  <2> QED BY <1>1, <1>2, NatSets
<1> QED BY <1>3

\* The first n elements of s
First(s, n) == [i \in 1..n |-> s[i]]

\* With the next one they are the first n + 1.
LEMMA FirstStep ==
  ASSUME NEW s, NEW n \in Nat
  PROVE  Append(First(s, n), s[n + 1]) = First(s, n + 1)
<1> DEFINE T == {s[i] : i \in 1..n + 1}
           t == First(s, n)
<1>1. t \in Seq(T) /\ Len(t) = n /\ s[n + 1] \in T
  BY DEF First
<1>2. \A i \in 1..n : t[i] = s[i]
  BY DEF First
<1> HIDE DEF t
<1>3. Append(t, s[n + 1]) = [i \in 1..n + 1 |-> IF i = n + 1 THEN s[n + 1] ELSE t[i]]
  BY <1>1
<1>4. \A i \in 1..n + 1 : (IF i = n + 1 THEN s[n + 1] ELSE t[i]) = s[i]
  BY <1>2
<1>5. First(s, n + 1) = [i \in 1..n + 1 |-> s[i]]
  BY DEF First
<1>6. [i \in 1..n + 1 |-> IF i = n + 1 THEN s[n + 1] ELSE t[i]] = [i \in 1..n + 1 |-> s[i]]
  BY <1>4
<1>7. Append(t, s[n + 1]) = First(s, n + 1)
  BY <1>3, <1>5, <1>6
<1> QED BY <1>7 DEF t

------------------------------------------------------------------------------
(* Bodies *)

\* A body as its fields, with a box that is to be computed
Made(cu, su, V, E, C, L, F, S, sl) ==
  [curves |-> cu, surfaces |-> su, vertices |-> V, edges |-> E,
   coedges |-> C, loops |-> L, faces |-> F, shells |-> S,
   shell_list |-> sl, bbox_dirty |-> TRUE, cached_bbox |-> {}]

\* The fields of a body
FieldNames == {"curves", "surfaces", "vertices", "edges", "coedges", "loops",
               "faces", "shells", "shell_list", "bbox_dirty", "cached_bbox"}

\* The fields, one by one
Has(m, cu, su, V, E, C, L, F, S, sl) ==
  /\ m = [z \in FieldNames |-> m[z]]
  /\ m.curves = cu /\ m.surfaces = su /\ m.vertices = V
  /\ m.edges = E /\ m.coedges = C /\ m.loops = L /\ m.faces = F
  /\ m.shells = S /\ m.shell_list = sl
  /\ m.bbox_dirty = TRUE /\ m.cached_bbox = {}

\* A body has the fields it was made of.
LEMMA MadeHas ==
  ASSUME NEW cu, NEW su, NEW V, NEW E, NEW C, NEW L, NEW F, NEW S, NEW sl,
         NEW m, m = Made(cu, su, V, E, C, L, F, S, sl)
  PROVE  Has(m, cu, su, V, E, C, L, F, S, sl)
<1>1. m = [z \in FieldNames |-> m[z]]
  BY DEF Made, FieldNames
<1>2. /\ m.curves = cu /\ m.surfaces = su /\ m.vertices = V
      /\ m.edges = E /\ m.coedges = C /\ m.loops = L /\ m.faces = F
      /\ m.shells = S /\ m.shell_list = sl
      /\ m.bbox_dirty = TRUE /\ m.cached_bbox = {}
  BY Zenon DEF Made
<1> QED BY <1>1, <1>2 DEF Has

\* Its fields determine a body.
LEMMA HasIsMade ==
  ASSUME NEW cu, NEW su, NEW V, NEW E, NEW C, NEW L, NEW F, NEW S, NEW sl,
         NEW m, Has(m, cu, su, V, E, C, L, F, S, sl)
  PROVE  m = Made(cu, su, V, E, C, L, F, S, sl)
<1>1. PICK r : r = Made(cu, su, V, E, C, L, F, S, sl)
  OBVIOUS
<1>2. Has(r, cu, su, V, E, C, L, F, S, sl)
  BY <1>1, MadeHas
<1>3. \A z \in FieldNames : m[z] = r[z]
  BY <1>2 DEF Has, FieldNames
<1>4. m = [z \in FieldNames |-> m[z]] /\ r = [z \in FieldNames |-> r[z]]
  BY <1>2 DEF Has
<1> QED BY ONLY <1>1, <1>3, <1>4

\* New curves for a body
LEMMA PutCurves ==
  ASSUME NEW cu, NEW su, NEW V, NEW E, NEW C, NEW L, NEW F, NEW S, NEW sl,
         NEW m, Has(m, cu, su, V, E, C, L, F, S, sl), NEW x
  PROVE  Has([m EXCEPT !.curves = x], x, su, V, E, C, L, F, S, sl)
  BY DEF Has, FieldNames

\* New surfaces for a body
LEMMA PutSurfaces ==
  ASSUME NEW cu, NEW su, NEW V, NEW E, NEW C, NEW L, NEW F, NEW S, NEW sl,
         NEW m, Has(m, cu, su, V, E, C, L, F, S, sl), NEW x
  PROVE  Has([m EXCEPT !.surfaces = x], cu, x, V, E, C, L, F, S, sl)
  BY DEF Has, FieldNames

\* New vertices for a body
LEMMA PutVertices ==
  ASSUME NEW cu, NEW su, NEW V, NEW E, NEW C, NEW L, NEW F, NEW S, NEW sl,
         NEW m, Has(m, cu, su, V, E, C, L, F, S, sl), NEW x
  PROVE  Has([m EXCEPT !.vertices = x], cu, su, x, E, C, L, F, S, sl)
  BY DEF Has, FieldNames

\* New edges for a body
LEMMA PutEdges ==
  ASSUME NEW cu, NEW su, NEW V, NEW E, NEW C, NEW L, NEW F, NEW S, NEW sl,
         NEW m, Has(m, cu, su, V, E, C, L, F, S, sl), NEW x
  PROVE  Has([m EXCEPT !.edges = x], cu, su, V, x, C, L, F, S, sl)
  BY DEF Has, FieldNames

\* New coedges for a body
LEMMA PutCoedges ==
  ASSUME NEW cu, NEW su, NEW V, NEW E, NEW C, NEW L, NEW F, NEW S, NEW sl,
         NEW m, Has(m, cu, su, V, E, C, L, F, S, sl), NEW x
  PROVE  Has([m EXCEPT !.coedges = x], cu, su, V, E, x, L, F, S, sl)
  BY DEF Has, FieldNames

\* New loops for a body
LEMMA PutLoops ==
  ASSUME NEW cu, NEW su, NEW V, NEW E, NEW C, NEW L, NEW F, NEW S, NEW sl,
         NEW m, Has(m, cu, su, V, E, C, L, F, S, sl), NEW x
  PROVE  Has([m EXCEPT !.loops = x], cu, su, V, E, C, x, F, S, sl)
  BY DEF Has, FieldNames

\* New faces for a body
LEMMA PutFaces ==
  ASSUME NEW cu, NEW su, NEW V, NEW E, NEW C, NEW L, NEW F, NEW S, NEW sl,
         NEW m, Has(m, cu, su, V, E, C, L, F, S, sl), NEW x
  PROVE  Has([m EXCEPT !.faces = x], cu, su, V, E, C, L, x, S, sl)
  BY DEF Has, FieldNames

\* New shells for a body
LEMMA PutShells ==
  ASSUME NEW cu, NEW su, NEW V, NEW E, NEW C, NEW L, NEW F, NEW S, NEW sl,
         NEW m, Has(m, cu, su, V, E, C, L, F, S, sl), NEW x
  PROVE  Has([m EXCEPT !.shells = x], cu, su, V, E, C, L, F, x, sl)
  BY DEF Has, FieldNames

\* New shell list for a body
LEMMA PutShellList ==
  ASSUME NEW cu, NEW su, NEW V, NEW E, NEW C, NEW L, NEW F, NEW S, NEW sl,
         NEW m, Has(m, cu, su, V, E, C, L, F, S, sl), NEW x
  PROVE  Has([m EXCEPT !.shell_list = x], cu, su, V, E, C, L, F, S, x)
  BY DEF Has, FieldNames

\* A box that is to be computed again
LEMMA PutDirty ==
  ASSUME NEW cu, NEW su, NEW V, NEW E, NEW C, NEW L, NEW F, NEW S, NEW sl,
         NEW m, Has(m, cu, su, V, E, C, L, F, S, sl)
  PROVE  Has([m EXCEPT !.bbox_dirty = TRUE], cu, su, V, E, C, L, F, S, sl)
  BY DEF Has, FieldNames

\* Entities as they are created and linked
VertexOf(p, outgoing) == [pos |-> p, outgoing |-> outgoing]
EdgeOf(c, vs, ve) ==
  [curve |-> c, start |-> vs, end |-> ve, proper |-> TRUE, coedge_a |-> 0, coedge_b |-> 0]
CoedgeOf(e, l, same, prev, next) ==
  [edge |-> e, loop |-> l, same |-> same, prev |-> prev, next |-> next, partner |-> 0]
LoopOf(f, first) == [face |-> f, first |-> first]
FaceOf(s, outer, shell) ==
  [surface |-> s, outer |-> outer, inner |-> <<>>, shell |-> shell]

\* What AddCurve makes
LEMMA MadeCurve ==
  ASSUME NEW cu, NEW su, NEW V, NEW E, NEW C, NEW L, NEW F, NEW S, NEW sl,
         NEW m, Has(m, cu, su, V, E, C, L, F, S, sl)
  PROVE  Has(AddCurve(m), cu + 1, su, V, E, C, L, F, S, sl)
<1>1. PICK r, x : r = AddCurve(m) /\ x = cu + 1
  OBVIOUS
<1>2. m.curves = cu
  BY DEF Has
<1>3. r = [m EXCEPT !.curves = x]
  BY <1>1, <1>2, Zenon DEF AddCurve
<1>4. Has(r, x, su, V, E, C, L, F, S, sl)
  BY <1>3, PutCurves, Zenon
<1> QED BY <1>1, <1>4

\* What AddSurface makes
LEMMA MadeSurface ==
  ASSUME NEW cu, NEW su, NEW V, NEW E, NEW C, NEW L, NEW F, NEW S, NEW sl,
         NEW m, Has(m, cu, su, V, E, C, L, F, S, sl)
  PROVE  Has(AddSurface(m), cu, su + 1, V, E, C, L, F, S, sl)
<1>1. PICK r, x : r = AddSurface(m) /\ x = su + 1
  OBVIOUS
<1>2. m.surfaces = su
  BY DEF Has
<1>3. r = [m EXCEPT !.surfaces = x]
  BY <1>1, <1>2, Zenon DEF AddSurface
<1>4. Has(r, cu, x, V, E, C, L, F, S, sl)
  BY <1>3, PutSurfaces, Zenon
<1> QED BY <1>1, <1>4

\* What NewVertex makes
LEMMA MadeVertex ==
  ASSUME NEW cu, NEW su, NEW V, NEW E, NEW C, NEW L, NEW F, NEW S, NEW sl,
         NEW m, Has(m, cu, su, V, E, C, L, F, S, sl), NEW p
  PROVE  Has(NewVertex(m, p), cu, su, Append(V, VertexOf(p, 0)),
             E, C, L, F, S, sl)
<1>1. PICK v : v = Append(V, VertexOf(p, 0))
  OBVIOUS
<1>2. m.vertices = V
  BY DEF Has
<1>3. NewVertex(m, p) = [m EXCEPT !.vertices = v, !.bbox_dirty = TRUE]
  BY <1>1, <1>2, Zenon DEF NewVertex, VertexOf
<1>4. PICK r : r = [m EXCEPT !.vertices = v]
  OBVIOUS
<1>5. Has(r, cu, su, v, E, C, L, F, S, sl)
  BY <1>4, PutVertices, Zenon
<1>6. NewVertex(m, p) = [r EXCEPT !.bbox_dirty = TRUE]
  BY ONLY <1>3, <1>4
<1>7. PICK q : q = [r EXCEPT !.bbox_dirty = TRUE]
  OBVIOUS
<1>8. Has(q, cu, su, v, E, C, L, F, S, sl)
  BY <1>5, <1>7, PutDirty, Zenon
<1> QED BY <1>1, <1>6, <1>7, <1>8

\* What NewEdge makes
LEMMA MadeEdge ==
  ASSUME NEW cu, NEW su, NEW V, NEW E, NEW C, NEW L, NEW F, NEW S, NEW sl,
         NEW m, Has(m, cu, su, V, E, C, L, F, S, sl), NEW c, NEW vs, NEW ve
  PROVE  Has(NewEdge(m, c, vs, ve, TRUE), cu, su, V,
             Append(E, EdgeOf(c, vs, ve)), C, L, F, S, sl)
<1>1. PICK r, x : r = NewEdge(m, c, vs, ve, TRUE) /\ x = Append(E, EdgeOf(c, vs, ve))
  OBVIOUS
<1>2. m.edges = E
  BY DEF Has
<1>3. r = [m EXCEPT !.edges = x]
  BY <1>1, <1>2, Zenon DEF NewEdge, EdgeOf
<1>4. Has(r, cu, su, V, x, C, L, F, S, sl)
  BY <1>3, PutEdges, Zenon
<1> QED BY <1>1, <1>4

\* What NewCoedge makes
LEMMA MadeCoedge ==
  ASSUME NEW cu, NEW su, NEW V, NEW E, NEW C, NEW L, NEW F, NEW S, NEW sl,
         NEW m, Has(m, cu, su, V, E, C, L, F, S, sl),
         NEW e, NEW l, NEW same
  PROVE  Has(NewCoedge(m, e, l, same), cu, su, V, E,
             Append(C, CoedgeOf(e, l, same, 0, 0)), L, F, S, sl)
<1>1. PICK r, x : r = NewCoedge(m, e, l, same) /\ x = Append(C, CoedgeOf(e, l, same, 0, 0))
  OBVIOUS
<1>2. m.coedges = C
  BY DEF Has
<1>3. r = [m EXCEPT !.coedges = x]
  BY <1>1, <1>2, Zenon DEF NewCoedge, CoedgeOf
<1>4. Has(r, cu, su, V, E, x, L, F, S, sl)
  BY <1>3, PutCoedges, Zenon
<1> QED BY <1>1, <1>4

\* What NewLoop makes
LEMMA MadeLoop ==
  ASSUME NEW cu, NEW su, NEW V, NEW E, NEW C, NEW L, NEW F, NEW S, NEW sl,
         NEW m, Has(m, cu, su, V, E, C, L, F, S, sl), NEW f
  PROVE  Has(NewLoop(m, f), cu, su, V, E, C, Append(L, LoopOf(f, 0)), F, S, sl)
<1>1. PICK r, x : r = NewLoop(m, f) /\ x = Append(L, LoopOf(f, 0))
  OBVIOUS
<1>2. m.loops = L
  BY DEF Has
<1>3. r = [m EXCEPT !.loops = x]
  BY <1>1, <1>2, Zenon DEF NewLoop, LoopOf
<1>4. Has(r, cu, su, V, E, C, x, F, S, sl)
  BY <1>3, PutLoops, Zenon
<1> QED BY <1>1, <1>4

\* What NewFace makes
LEMMA MadeFace ==
  ASSUME NEW cu, NEW su, NEW V, NEW E, NEW C, NEW L, NEW F, NEW S, NEW sl,
         NEW m, Has(m, cu, su, V, E, C, L, F, S, sl), NEW s
  PROVE  Has(NewFace(m, s), cu, su, V, E, C, L, Append(F, FaceOf(s, 0, 0)), S, sl)
<1>1. PICK r, x : r = NewFace(m, s) /\ x = Append(F, FaceOf(s, 0, 0))
  OBVIOUS
<1>2. m.faces = F
  BY DEF Has
<1>3. r = [m EXCEPT !.faces = x]
  BY <1>1, <1>2, Zenon DEF NewFace, FaceOf
<1>4. Has(r, cu, su, V, E, C, L, x, S, sl)
  BY <1>3, PutFaces, Zenon
<1> QED BY <1>1, <1>4

\* What NewShell makes
LEMMA MadeShell ==
  ASSUME NEW cu, NEW su, NEW V, NEW E, NEW C, NEW L, NEW F, NEW S, NEW sl,
         NEW m, Has(m, cu, su, V, E, C, L, F, S, sl)
  PROVE  Has(NewShell(m), cu, su, V, E, C, L, F, Append(S, <<>>), sl)
<1>1. PICK r, x : r = NewShell(m) /\ x = Append(S, <<>>)
  OBVIOUS
<1>2. m.shells = S
  BY DEF Has
<1>3. r = [m EXCEPT !.shells = x]
  BY <1>1, <1>2, Zenon DEF NewShell
<1>4. Has(r, cu, su, V, E, C, L, F, x, sl)
  BY <1>3, PutShells, Zenon
<1> QED BY <1>1, <1>4

\* What RegisterShell makes
LEMMA MadeRegister ==
  ASSUME NEW cu, NEW su, NEW V, NEW E, NEW C, NEW L, NEW F, NEW S, NEW sl,
         NEW m, Has(m, cu, su, V, E, C, L, F, S, sl), NEW s
  PROVE  Has(RegisterShell(m, s), cu, su, V, E, C, L, F, S, Append(sl, s))
<1>1. PICK r, x : r = RegisterShell(m, s) /\ x = Append(sl, s)
  OBVIOUS
<1>2. m.shell_list = sl
  BY DEF Has
<1>3. r = [m EXCEPT !.shell_list = x]
  BY <1>1, <1>2, Zenon DEF RegisterShell
<1>4. Has(r, cu, su, V, E, C, L, F, S, x)
  BY <1>3, PutShellList, Zenon
<1> QED BY <1>1, <1>4

\* The last element of a sequence
LEMMA LastPut ==
  ASSUME NEW T, NEW s \in Seq(T), NEW x \in T, NEW y \in T
  PROVE  /\ Append(s, x)[Len(s) + 1] = x
         /\ Len(s) + 1 \in DOMAIN Append(s, x)
         /\ [Append(s, x) EXCEPT ![Len(s) + 1] = y] = Append(s, y)
<1>1. PICK n \in Nat : n = Len(s)
  OBVIOUS
<1>2. ASSUME NEW z \in T
      PROVE  Append(s, z) = [i \in 1..n + 1 |-> IF i = n + 1 THEN z ELSE s[i]]
  <2>1. PICK a : a = Append(s, z)
    OBVIOUS
  <2>2. a = [i \in 1..n + 1 |-> a[i]]
    <3>1. a \in Seq(T) /\ Len(a) = n + 1
      BY <1>1, <2>1
    <3> QED BY ONLY <3>1
  <2>3. \A i \in 1..n + 1 : a[i] = IF i = n + 1 THEN z ELSE s[i]
    BY <1>1, <2>1
  <2> QED BY ONLY <2>1, <2>2, <2>3
<1>3. PICK p, q : p = Append(s, x) /\ q = Append(s, y)
  OBVIOUS
<1>4. /\ p = [i \in 1..n + 1 |-> IF i = n + 1 THEN x ELSE s[i]]
      /\ q = [i \in 1..n + 1 |-> IF i = n + 1 THEN y ELSE s[i]]
  BY <1>2, <1>3
<1>5. p[n + 1] = x /\ n + 1 \in DOMAIN p /\ [p EXCEPT ![n + 1] = y] = q
  <2>1. n + 1 \in 1..n + 1
    OBVIOUS
  <2>2. \A i \in 1..n + 1 : [p EXCEPT ![n + 1] = y][i] = q[i]
    BY ONLY <1>4
  <2>3. [p EXCEPT ![n + 1] = y] = [i \in 1..n + 1 |-> [p EXCEPT ![n + 1] = y][i]]
    BY ONLY <1>4
  <2>4. q = [i \in 1..n + 1 |-> q[i]]
    BY ONLY <1>4
  <2> QED BY ONLY <1>4, <2>1, <2>2, <2>3, <2>4
<1> QED BY <1>1, <1>3, <1>5

\* A face, its loop and its place in the shell
LEMMA MadeFrame ==
  ASSUME NEW cu, NEW su, NEW V, NEW E, NEW C, NEW sl,
         NEW L \in Seq(Loop), NEW F \in Seq(Face), NEW fs \in Seq(Nat), NEW s \in Nat,
         NEW m, Has(m, cu, su, V, E, C, L, F, <<fs>>, sl),
         NEW f, NEW l, f = Len(F) + 1, l = Len(L) + 1
  PROVE  Has(AddFaceToShell(AddOuterLoop(NewLoop(NewFace(m, s), f), f, l), 1, f),
             cu, su, V, E, C, Append(L, LoopOf(f, 0)), Append(F, FaceOf(s, l, 1)),
             <<Append(fs, f)>>, sl)
<1>1. f \in Nat /\ l \in Nat
  OBVIOUS
<1>2. /\ LoopOf(f, 0) \in Loop
      /\ \A o, h \in Nat : FaceOf(s, o, h) \in Face
  BY <1>1 DEF LoopOf, FaceOf, Loop, Face
<1>3. PICK L1, F1, F2, F3 :
        /\ L1 = Append(L, LoopOf(f, 0)) /\ F1 = Append(F, FaceOf(s, 0, 0))
        /\ F2 = Append(F, FaceOf(s, l, 0)) /\ F3 = Append(F, FaceOf(s, l, 1))
  OBVIOUS
<1> DEFINE At(q, n, x, y, r) == n \in DOMAIN q /\ q[n] = x /\ [q EXCEPT ![n] = y] = r
<1>4. At(F1, f, FaceOf(s, 0, 0), FaceOf(s, l, 0), F2)
  <2>1. PICK x \in Face, y \in Face : x = FaceOf(s, 0, 0) /\ y = FaceOf(s, l, 0)
    BY <1>1, <1>2
  <2>2. At(Append(F, x), Len(F) + 1, x, y, Append(F, y))
    BY LastPut
  <2> QED BY ONLY <1>3, <2>1, <2>2, f = Len(F) + 1
<1>5. At(F2, f, FaceOf(s, l, 0), FaceOf(s, l, 1), F3)
  <2>1. PICK x \in Face, y \in Face : x = FaceOf(s, l, 0) /\ y = FaceOf(s, l, 1)
    BY <1>1, <1>2
  <2>2. At(Append(F, x), Len(F) + 1, x, y, Append(F, y))
    BY LastPut
  <2> QED BY ONLY <1>3, <2>1, <2>2, f = Len(F) + 1
<1>6. At(L1, l, LoopOf(f, 0), LoopOf(f, 0), L1)
  <2>1. PICK x \in Loop : x = LoopOf(f, 0)
    BY <1>2
  <2>2. At(Append(L, x), Len(L) + 1, x, x, Append(L, x))
    BY LastPut
  <2> QED BY ONLY <1>3, <2>1, <2>2, l = Len(L) + 1
<1>7. PICK b1 : b1 = NewLoop(NewFace(m, s), f)
  OBVIOUS
<1>8. Has(b1, cu, su, V, E, C, L1, F1, <<fs>>, sl)
  <2>1. PICK b0 : b0 = NewFace(m, s)
    OBVIOUS
  <2>2. Has(b0, cu, su, V, E, C, L, F1, <<fs>>, sl)
    BY <1>3, <2>1, MadeFace
  <2>3. b1 = NewLoop(b0, f)
    BY <1>7, <2>1
  <2> QED BY <1>3, <2>2, <2>3, MadeLoop
<1>9. PICK b2 : b2 = AddOuterLoop(b1, f, l)
  OBVIOUS
<1>10. Has(b2, cu, su, V, E, C, L1, F2, <<fs>>, sl)
  <2>1. b1.faces = F1 /\ b1.loops = L1
    BY <1>8 DEF Has
  <2>2. b2 = [b1 EXCEPT !.faces[f].outer = l, !.loops[l].face = f]
    BY <1>4, <1>6, <1>9, <2>1, Zenon DEF AddOuterLoop, Live
  <2>3. PICK q : q = [b1 EXCEPT !.faces = F2]
    OBVIOUS
  <2>4. Has(q, cu, su, V, E, C, L1, F2, <<fs>>, sl)
    BY <1>8, <2>3, PutFaces, Zenon
  <2>5. q = [b1 EXCEPT !.faces[f].outer = l]
    <3>1. [F1[f] EXCEPT !.outer = l] = FaceOf(s, l, 0)
      BY ONLY <1>4 DEF FaceOf
    <3>2. [F1 EXCEPT ![f] = [F1[f] EXCEPT !.outer = l]] = F2
      BY <1>4, <3>1
    <3> QED BY ONLY <2>1, <2>3, <3>2
  <2>6. q.loops = L1
    BY <2>4 DEF Has
  <2>7. PICK r : r = [q EXCEPT !.loops = L1]
    OBVIOUS
  <2>8. Has(r, cu, su, V, E, C, L1, F2, <<fs>>, sl)
    BY <2>4, <2>7, PutLoops, Zenon
  <2>9. r = [q EXCEPT !.loops[l].face = f]
    <3>1. [L1[l] EXCEPT !.face = f] = LoopOf(f, 0)
      BY ONLY <1>6 DEF LoopOf
    <3>2. [L1 EXCEPT ![l] = [L1[l] EXCEPT !.face = f]] = L1
      BY <1>6, <3>1
    <3> QED BY ONLY <2>6, <2>7, <3>2
  <2>10. b2 = [q EXCEPT !.loops[l].face = f]
    BY ONLY <2>2, <2>5
  <2> QED BY <2>8, <2>9, <2>10
<1>11. PICK b3 : b3 = AddFaceToShell(b2, 1, f)
  OBVIOUS
<1>12. Has(b3, cu, su, V, E, C, L1, F3, <<Append(fs, f)>>, sl)
  <2>1. b2.faces = F2 /\ b2.shells = <<fs>>
    BY <1>10 DEF Has
  <2>2. 1 \in DOMAIN <<fs>> /\ <<fs>>[1] = fs
    OBVIOUS
  <2>3. b3 = [b2 EXCEPT !.shells[1] = Append(@, f), !.faces[f].shell = 1]
    BY <1>5, <1>11, <2>1, <2>2, Zenon DEF AddFaceToShell, Live
  <2>4. PICK x, q : x = <<Append(fs, f)>> /\ q = [b2 EXCEPT !.shells = x]
    OBVIOUS
  <2>5. Has(q, cu, su, V, E, C, L1, F2, x, sl)
    BY <1>10, <2>4, PutShells, Zenon
  <2>6. q = [b2 EXCEPT !.shells[1] = Append(@, f)]
    <3>1. [<<fs>> EXCEPT ![1] = Append(fs, f)] = x
      BY <2>4
    <3> QED BY ONLY <2>1, <2>2, <2>4, <3>1
  <2>7. q.faces = F2
    BY <2>5 DEF Has
  <2>8. PICK r : r = [q EXCEPT !.faces = F3]
    OBVIOUS
  <2>9. Has(r, cu, su, V, E, C, L1, F3, x, sl)
    BY <2>5, <2>8, PutFaces, Zenon
  <2>10. r = [q EXCEPT !.faces[f].shell = 1]
    <3>1. [F2[f] EXCEPT !.shell = 1] = FaceOf(s, l, 1)
      BY ONLY <1>5 DEF FaceOf
    <3>2. [F2 EXCEPT ![f] = [F2[f] EXCEPT !.shell = 1]] = F3
      BY <1>5, <3>1
    <3> QED BY ONLY <2>7, <2>8, <3>2
  <2>11. b3 = [q EXCEPT !.faces[f].shell = 1]
    BY ONLY <2>3, <2>6
  <2> QED BY <2>4, <2>9, <2>10, <2>11
<1> QED BY <1>3, <1>7, <1>9, <1>11, <1>12

------------------------------------------------------------------------------
(* Faces *)

\* A use of an edge, in one direction or the other
Uses == [edge : Nat, same : BOOLEAN]

\* The coedges of a face before and after link_loop()
Unlinked(uses, l) ==
  [i \in DOMAIN uses |-> CoedgeOf(uses[i].edge, l, uses[i].same, 0, 0)]
RingOf(uses, n, l) ==
  [i \in DOMAIN uses |->
     CoedgeOf(uses[i].edge, l, uses[i].same,
              n + (IF i = 1 THEN Len(uses) ELSE i - 1),
              n + (IF i = Len(uses) THEN 1 ELSE i + 1))]

\* Places behind the first n
After(uses, n) == [i \in DOMAIN uses |-> n + i]

\* Both are sequences of coedges.
LEMMA RingTypes ==
  ASSUME NEW uses \in Seq(Uses), NEW n \in Nat, NEW l \in Nat
  PROVE  /\ Unlinked(uses, l) \in Seq(Coedge) /\ Len(Unlinked(uses, l)) = Len(uses)
         /\ RingOf(uses, n, l) \in Seq(Coedge) /\ Len(RingOf(uses, n, l)) = Len(uses)
<1>1. \A i \in DOMAIN uses : uses[i].edge \in Nat /\ uses[i].same \in BOOLEAN
  <2>1. \A i \in DOMAIN uses : uses[i] \in Uses
    OBVIOUS
  <2> QED BY ONLY <2>1, Zenon DEF Uses
<1>2. \A e, p, q \in Nat, s \in BOOLEAN : CoedgeOf(e, l, s, p, q) \in Coedge
  BY DEF CoedgeOf, Coedge
<1>3. \A i \in DOMAIN uses : /\ n + (IF i = 1 THEN Len(uses) ELSE i - 1) \in Nat
                             /\ n + (IF i = Len(uses) THEN 1 ELSE i + 1) \in Nat
  OBVIOUS
<1>4. PICK u, r : u = Unlinked(uses, l) /\ r = RingOf(uses, n, l)
  OBVIOUS
<1>5. (\A i \in DOMAIN uses : u[i] \in Coedge) /\ u = [i \in DOMAIN uses |-> u[i]]
  BY <1>1, <1>2, <1>4 DEF Unlinked
<1>6. (\A i \in DOMAIN uses : r[i] \in Coedge) /\ r = [i \in DOMAIN uses |-> r[i]]
  BY <1>1, <1>2, <1>3, <1>4 DEF RingOf
<1>7. DOMAIN uses = 1..Len(uses) /\ Len(uses) \in Nat
  OBVIOUS
<1>8. u \in Seq(Coedge) /\ Len(u) = Len(uses)
  BY ONLY <1>5, <1>7
<1>9. r \in Seq(Coedge) /\ Len(r) = Len(uses)
  BY ONLY <1>6, <1>7
<1> QED BY <1>4, <1>8, <1>9

\* The coedges of a face are appended one by one.
LEMMA MadeUses ==
  ASSUME NEW cu, NEW su, NEW V, NEW E, NEW L, NEW F, NEW S, NEW sl,
         NEW C \in Seq(Coedge), NEW uses \in Seq(Uses), NEW l \in Nat,
         NEW m, Has(m, cu, su, V, E, C, L, F, S, sl)
  PROVE  Has(Iterate(LAMBDA c, u : NewCoedge(c, u.edge, l, u.same), m, uses),
             cu, su, V, E, C \o Unlinked(uses, l), L, F, S, sl)
<1> DEFINE n == Len(uses)
           X == Unlinked(uses, l)
           B(i) == Made(cu, su, V, E, C \o First(X, i), L, F, S, sl)
           g == [i \in 0..n |-> B(i)]
           Eq(f) == f = [i \in 0..n |->
                           IF i = 0 THEN m
                           ELSE NewCoedge(f[i - 1], uses[i].edge, l, uses[i].same)]
           f == CHOOSE k : Eq(k)
<1>1. B(0) = m
  <2>1. C \o First(X, 0) = C
    BY DEF First
  <2> QED BY <2>1, HasIsMade
<1>2. ASSUME NEW i \in 1..n
      PROVE  B(i) = NewCoedge(B(i - 1), uses[i].edge, l, uses[i].same)
  <2>1. i - 1 \in Nat /\ (i - 1) + 1 = i
    OBVIOUS
  <2>2. X \in Seq(Coedge) /\ Len(X) = n
    BY RingTypes
  <2>3. PICK x : x = X[i]
    OBVIOUS
  <2>4. x \in Coedge /\ x = CoedgeOf(uses[i].edge, l, uses[i].same, 0, 0)
    BY <2>2, <2>3 DEF Unlinked
  <2>5. PICK p, q : p = First(X, i - 1) /\ q = First(X, i)
    OBVIOUS
  <2>6. q = Append(p, x)
    <3> HIDE DEF X
    <3> QED BY <2>1, <2>3, <2>5, FirstStep
  <2>7. p \in Seq(Coedge)
    <3> HIDE DEF X
    <3> QED BY <2>1, <2>2, <2>5 DEF First
  <2>8. C \o q = Append(C \o p, x)
    BY ONLY C \in Seq(Coedge), <2>4, <2>6, <2>7
  <2>9. PICK b : b = B(i - 1)
    OBVIOUS
  <2>10. PICK r : r = NewCoedge(b, uses[i].edge, l, uses[i].same)
    OBVIOUS
  <2>11. Has(b, cu, su, V, E, C \o p, L, F, S, sl)
    BY <2>5, <2>9, MadeHas, Zenon
  <2>12. Has(r, cu, su, V, E, Append(C \o p, x), L, F, S, sl)
    BY <2>4, <2>10, <2>11, MadeCoedge, Zenon
  <2>13. r = B(i)
    BY <2>5, <2>8, <2>12, HasIsMade, Zenon
  <2> QED BY <2>9, <2>10, <2>13
<1>3. n \in Nat
  OBVIOUS
<1>4. Iterate(LAMBDA c, u : NewCoedge(c, u.edge, l, u.same), m, uses) = f[n]
  BY DEF Iterate
<1>5. Eq(g)
  <2>1. \A i \in 0..n : g[i] = IF i = 0 THEN m
                               ELSE NewCoedge(g[i - 1], uses[i].edge, l, uses[i].same)
    <3> HIDE DEF B
    <3> QED BY <1>1, <1>2, <1>3
  <2>2. g = [i \in 0..n |-> g[i]]
    OBVIOUS
  <2> HIDE DEF g
  <2> QED BY <2>1, <2>2
<1>6. Eq(f)
  <2> HIDE DEF g, Eq
  <2> QED BY <1>5
<1>7. g[n] = f[n]
  <2>1. \A k : Eq(k) => \A i \in 0..n :
                 k[i] = IF i = 0 THEN m ELSE NewCoedge(k[i - 1], uses[i].edge, l, uses[i].same)
    OBVIOUS
  <2> HIDE DEF g, f, Eq, n
  <2>2. \A i \in 1..n : i \in 0..n /\ i # 0
    BY <1>3
  <2>3. Alike(n, f, g)
    BY <1>3, <1>5, <1>6, <2>1, <2>2 DEF Alike
  <2> QED BY <1>3, <2>3, FoldUnique
<1>8. g[n] = B(n)
  <2> HIDE DEF B
  <2> QED BY <1>3
<1>9. First(X, n) = X
  BY DEF First, Unlinked
<1>10. Has(B(n), cu, su, V, E, C \o X, L, F, S, sl)
  <2> HIDE DEF X
  <2> QED BY <1>9, MadeHas
<1> QED BY <1>4, <1>7, <1>8, <1>10

\* Elements of two sequences in a row
LEMMA RowAt ==
  ASSUME NEW T, NEW s \in Seq(T), NEW t \in Seq(T)
  PROVE  /\ s \o t \in Seq(T) /\ Len(s \o t) = Len(s) + Len(t)
         /\ DOMAIN (s \o t) = 1 .. Len(s) + Len(t)
         /\ \A i \in 1 .. Len(s) : (s \o t)[i] = s[i]
         /\ \A i \in 1 .. Len(t) : (s \o t)[Len(s) + i] = t[i]
         /\ \A i \in DOMAIN (s \o t) : \/ i \in 1 .. Len(s)
                                      \/ i - Len(s) \in 1 .. Len(t)
  OBVIOUS

\* Neighbours of a coedge that is linked
LinkedTo(a, p, q) == [a EXCEPT !.prev = p, !.next = q]

\* A coedge with them is one that was created linked.
LEMMA PutLinks ==
  ASSUME NEW e, NEW l, NEW same, NEW p, NEW q, NEW a, a = CoedgeOf(e, l, same, 0, 0)
  PROVE  LinkedTo(a, p, q) = CoedgeOf(e, l, same, p, q)
<1> DEFINE names == {"edge", "loop", "same", "prev", "next", "partner"}
<1>1. PICK r, x : /\ r = CoedgeOf(e, l, same, p, q)
                  /\ x = LinkedTo(a, p, q)
  OBVIOUS
<1>2. a = [z \in names |-> a[z]] /\ r = [z \in names |-> r[z]]
  BY <1>1 DEF CoedgeOf
<1>3. /\ a.edge = e /\ a.loop = l /\ a.same = same /\ a.partner = 0
      /\ r.edge = e /\ r.loop = l /\ r.same = same /\ r.partner = 0
      /\ r.prev = p /\ r.next = q
  BY <1>1, Zenon DEF CoedgeOf
<1>4. x = [z \in names |-> IF z = "next" THEN q ELSE IF z = "prev" THEN p ELSE a[z]]
  BY ONLY <1>1, <1>2 DEF LinkedTo
<1>5. \A z \in names : r[z] = IF z = "next" THEN q ELSE IF z = "prev" THEN p ELSE a[z]
  BY ONLY <1>3
<1> QED BY ONLY <1>1, <1>2, <1>4, <1>5

\* b's last coedges are the unlinked ones of a face, at the places ces.
Appended(b, ces, C, uses, l, n) ==
  /\ C \in Seq(Coedge) /\ uses \in Seq(Uses) /\ l \in Nat /\ n = Len(C)
  /\ b.coedges = C \o Unlinked(uses, l)
  /\ ces = After(uses, n)

\* link_loop() links the coedges a face has just been given to a ring.
LEMMA RelinkRing ==
  ASSUME NEW b, NEW ces, NEW C, NEW uses, NEW l, NEW n, Appended(b, ces, C, uses, l, n)
  PROVE  /\ Linked(b, ces) = Len(uses)
         /\ Relink(b, ces) = C \o RingOf(uses, n, l)
<1>0. /\ C \in Seq(Coedge) /\ uses \in Seq(Uses) /\ l \in Nat /\ n = Len(C)
      /\ b.coedges = C \o Unlinked(uses, l)
      /\ ces = After(uses, n)
  BY DEF Appended
<1> USE <1>0
<1>1. PICK X, R, s : /\ X = Unlinked(uses, l) /\ R = RingOf(uses, n, l)
                     /\ s = C \o X
  OBVIOUS
<1>2. PICK k \in Nat : k = Len(uses) /\ DOMAIN uses = 1..k
  OBVIOUS
<1>3. n \in Nat
  OBVIOUS
<1>4. /\ X \in Seq(Coedge) /\ Len(X) = k /\ R \in Seq(Coedge) /\ Len(R) = k
  BY <1>1, <1>2, <1>3, RingTypes
<1>5. /\ DOMAIN s = 1..n + k /\ \A i \in 1..n : s[i] = C[i]
      /\ \A i \in 1..k : s[n + i] = X[i]
  BY <1>1, <1>4, RowAt
<1>6. ces \in Seq(Nat) /\ Len(ces) = k /\ \A i \in 1..k : ces[i] = n + i
  BY <1>2, <1>3 DEF After
<1>7. Linked(b, ces) = k
  <2>1. \A i \in 1..k : Live(b.coedges, ces[i])
    BY <1>1, <1>3, <1>5, <1>6 DEF Live
  <2>2. PICK d : d = Linked(b, ces)
    OBVIOUS
  <2>3. d \in 0..k /\ (d < k => ~Live(b.coedges, ces[d + 1]))
    BY <1>6, <2>2, LinkedProperties
  <2>4. ~(d < k)
    <3> SUFFICES ASSUME d < k PROVE FALSE
      OBVIOUS
    <3>1. d + 1 \in 1..k
      BY <2>3
    <3> QED BY <2>1, <2>3, <3>1
  <2> QED BY <2>2, <2>3, <2>4
<1>9. PICK q : q = C \o R
  OBVIOUS
<1>10. /\ DOMAIN q = 1..n + k /\ \A i \in 1..n : q[i] = C[i]
       /\ \A i \in 1..k : q[n + i] = R[i]
       /\ q = [i \in 1..n + k |-> q[i]]
  <2>1. q \in Seq(Coedge)
    BY <1>4, <1>9
  <2>2. /\ DOMAIN q = 1..n + k /\ \A i \in 1..n : q[i] = C[i]
        /\ \A i \in 1..k : q[n + i] = R[i]
    <3>1. /\ DOMAIN (C \o R) = 1 .. Len(C) + Len(R)
          /\ \A i \in 1 .. Len(C) : (C \o R)[i] = C[i]
          /\ \A i \in 1 .. Len(R) : (C \o R)[Len(C) + i] = R[i]
      <4>1. C \in Seq(Coedge) /\ R \in Seq(Coedge)
        BY <1>4
      <4> QED BY ONLY <4>1, RowAt
    <3> QED BY ONLY <1>4, <1>9, <3>1, n = Len(C)
  <2> QED BY <2>1, <2>2
<1> DEFINE AtUpTo(d, c) == {i \in 1..d : ces[i] = c}
           At(c) == AtUpTo(k, c)
           LastUpTo(d, c) == CHOOSE i \in AtUpTo(d, c) : \A j \in AtUpTo(d, c) : j <= i
           LastAt(c) == LastUpTo(k, c)
           New(c, i) == [b.coedges[c] EXCEPT
                           !.prev = ces[IF i = 1 THEN Len(ces) ELSE i - 1],
                           !.next = ces[IF i = Len(ces) THEN 1 ELSE i + 1]]
<1>8. Relink(b, ces) =
        [c \in DOMAIN s |-> IF At(c) = {} THEN s[c] ELSE New(c, LastAt(c))]
  <2>1. PICK d : d = Linked(b, ces)
    OBVIOUS
  <2>2. Relink(b, ces) = [c \in DOMAIN s |-> IF AtUpTo(Linked(b, ces), c) = {} THEN s[c]
                                             ELSE New(c, LastUpTo(Linked(b, ces), c))]
    BY <1>1 DEF Relink
  <2> HIDE DEF New, AtUpTo, LastUpTo
  <2> QED BY <1>7, <2>2
<1>11. ASSUME NEW c \in 1..n + k
       PROVE  (IF At(c) = {} THEN s[c] ELSE New(c, LastAt(c))) = q[c]
  <2>1. CASE c \in 1..n
    <3>1. At(c) = {}
      BY ONLY <1>3, <1>6, <2>1, k \in Nat
    <3> HIDE DEF At, New
    <3> QED BY <1>5, <1>10, <2>1, <3>1
  <2>2. CASE c \notin 1..n
    <3>1. PICK i \in 1..k : c = n + i
      <4>1. c - n \in 1..k /\ c = n + (c - n)
        BY <1>3, <2>2
      <4> QED BY <4>1
    <3>2. At(c) = {i}
      BY ONLY <1>3, <1>6, <3>1, k \in Nat
    <3>3. LastAt(c) = i
      <4>1. LastAt(c) = CHOOSE j \in {i} : \A h \in {i} : h <= j
        BY <3>2
      <4> HIDE DEF LastAt
      <4> QED BY <4>1
    <3>4. s[c] = CoedgeOf(uses[i].edge, l, uses[i].same, 0, 0)
      BY <1>1, <1>2, <1>5, <3>1 DEF Unlinked
    <3>5. PICK y, z : /\ y = n + (IF i = 1 THEN k ELSE i - 1)
                      /\ z = n + (IF i = k THEN 1 ELSE i + 1)
      OBVIOUS
    <3>6. New(c, i) = LinkedTo(s[c], y, z)
      <4>1. /\ (IF i = 1 THEN k ELSE i - 1) \in 1..k
            /\ (IF i = k THEN 1 ELSE i + 1) \in 1..k
        OBVIOUS
      <4>2. /\ ces[IF i = 1 THEN Len(ces) ELSE i - 1] = y
            /\ ces[IF i = Len(ces) THEN 1 ELSE i + 1] = z
        BY <1>6, <3>5, <4>1
      <4> QED BY <1>1, <4>2 DEF LinkedTo
    <3>7. R[i] = CoedgeOf(uses[i].edge, l, uses[i].same, y, z)
      BY <1>1, <1>2, <3>5 DEF RingOf
    <3>8. New(c, i) = R[i]
      <4>1. PICK e, same, a : /\ e = uses[i].edge /\ same = uses[i].same
                              /\ a = CoedgeOf(e, l, same, 0, 0)
        OBVIOUS
      <4> HIDE DEF New
      <4>2. a = CoedgeOf(e, l, same, 0, 0)
        BY <4>1
      <4>3. LinkedTo(a, y, z) = CoedgeOf(e, l, same, y, z)
        BY ONLY <4>2, PutLinks
      <4> QED BY ONLY <3>4, <3>6, <3>7, <4>1, <4>2, <4>3
    <3>9. q[c] = R[i]
      BY <1>10, <3>1
    <3> HIDE DEF At, New, LastAt
    <3> QED BY <3>2, <3>3, <3>8, <3>9
  <2> QED BY <2>1, <2>2
<1>12. Relink(b, ces) = q
  <2> HIDE DEF At, New, LastAt
  <2> QED BY ONLY <1>5, <1>8, <1>10, <1>11
<1> QED BY <1>1, <1>2, <1>7, <1>9, <1>12

\* The loop, the coedges and the faces AddFace adds
LEMMA MadeAddFace ==
  ASSUME NEW cu, NEW su, NEW V, NEW E, NEW sl, NEW C \in Seq(Coedge),
         NEW L \in Seq(Loop), NEW F \in Seq(Face), NEW fs \in Seq(Nat), NEW s \in Nat,
         NEW uses \in Seq(Uses),
         NEW m, Has(m, cu, su, V, E, C, L, F, <<fs>>, sl),
         NEW n, NEW f, NEW l, n = Len(C), f = Len(F) + 1, l = Len(L) + 1
  PROVE  Has(AddFace(m, s, uses), cu, su, V, E, C \o RingOf(uses, n, l),
             Append(L, LoopOf(f, IF uses = <<>> THEN 0 ELSE n + 1)),
             Append(F, FaceOf(s, l, 1)), <<Append(fs, f)>>, sl)
<1>1. n \in Nat /\ f \in Nat /\ l \in Nat
  OBVIOUS
<1>2. PICK L1, F1, S1 : /\ L1 = Append(L, LoopOf(f, 0))
                        /\ F1 = Append(F, FaceOf(s, l, 1)) /\ S1 = <<Append(fs, f)>>
  OBVIOUS
<1>3. PICK d : d = AddFaceToShell(AddOuterLoop(NewLoop(NewFace(m, s), f), f, l), 1, f)
  OBVIOUS
<1>4. Has(d, cu, su, V, E, C, L1, F1, S1, sl)
  BY <1>2, <1>3, MadeFrame
<1>5. PICK b : b = Iterate(LAMBDA c, u : NewCoedge(c, u.edge, Len(m.loops) + 1, u.same),
                           d, uses)
  OBVIOUS
<1>6. PICK X, R : X = C \o Unlinked(uses, l) /\ R = C \o RingOf(uses, n, l)
  OBVIOUS
<1>7. Has(b, cu, su, V, E, X, L1, F1, S1, sl)
  <2>1. Len(m.loops) + 1 = l
    BY DEF Has
  <2>2. Len(m.loops) + 1 \in Nat
    BY <1>1, <2>1
  <2>3. Has(b, cu, su, V, E, C \o Unlinked(uses, Len(m.loops) + 1), L1, F1, S1, sl)
    BY <1>4, <1>5, <2>2, MadeUses
  <2> QED BY <1>6, <2>1, <2>3
<1>8. PICK ces : ces = After(uses, n)
  OBVIOUS
<1>9. b.coedges = X /\ b.loops = L1
  BY <1>7 DEF Has
<1>10. Linked(b, ces) = Len(uses) /\ Relink(b, ces) = R
  <2>1. b.coedges = C \o Unlinked(uses, l)
    BY <1>6, <1>9
  <2>2. Linked(b, ces) = Len(uses) /\ Relink(b, ces) = C \o RingOf(uses, n, l)
    <3>1. Appended(b, ces, C, uses, l, n)
      BY <1>1, <1>8, <2>1 DEF Appended
    <3> QED BY ONLY <3>1, RelinkRing
  <2> QED BY <1>6, <2>2
<1>11. PICK r : r = [b EXCEPT !.coedges = R]
  OBVIOUS
<1>12. Has(r, cu, su, V, E, R, L1, F1, S1, sl)
  BY <1>7, <1>11, PutCoedges, Zenon
<1>13. AddFace(m, s, uses) = LinkLoop(b, ces)
  <2>1. Len(m.faces) + 1 = f /\ Len(m.loops) + 1 = l /\ Len(m.coedges) = n
    BY DEF Has
  <2>2. PICK h : h = AddFaceToShell(AddOuterLoop(NewLoop(NewFace(m, s), Len(m.faces) + 1),
                       Len(m.faces) + 1, Len(m.loops) + 1), 1, Len(m.faces) + 1)
    OBVIOUS
  <2>3. h = d
    BY <1>3, <2>1, <2>2
  <2>4. AddFace(m, s, uses) =
          LinkLoop(Iterate(LAMBDA c, u : NewCoedge(c, u.edge, Len(m.loops) + 1, u.same),
                           h, uses), [i \in DOMAIN uses |-> Len(m.coedges) + i])
    BY ONLY <2>2 DEF AddFace
  <2> QED BY ONLY <1>5, <1>8, <2>1, <2>3, <2>4 DEF After
<1>14. Len(ces) = Len(uses) /\ (ces = <<>> <=> uses = <<>>)
  BY <1>8 DEF After
<1>15. CASE uses = <<>>
  <2>1. LinkStatus(b, ces) # "Ok"
    BY <1>14, <1>15 DEF LinkStatus
  <2>2. LinkLoop(b, ces) = r
    BY <1>10, <1>11, <2>1, Zenon DEF LinkLoop
  <2> QED BY <1>2, <1>6, <1>12, <1>13, <1>15, <2>2
<1>16. CASE uses # <<>>
  <2>1. LinkStatus(b, ces) = "Ok"
    BY <1>10, <1>14, <1>16 DEF LinkStatus
  <2>2. ces[1] = n + 1 /\ 1 \in DOMAIN uses /\ 1 \in 1..Len(uses)
    BY <1>8, <1>16 DEF After
  <2>3. b.coedges[n + 1].loop = l
    <3>1. X[n + 1] = Unlinked(uses, l)[1]
      <4>1. Unlinked(uses, l) \in Seq(Coedge) /\ Len(Unlinked(uses, l)) = Len(uses)
        BY <1>1, RingTypes
      <4> QED BY <1>6, <2>2, <4>1, RowAt
    <3>2. Unlinked(uses, l)[1].loop = l
      BY <2>2 DEF Unlinked, CoedgeOf
    <3> QED BY <1>9, <3>1, <3>2
  <2>4. LoopOf(f, 0) \in Loop /\ LoopOf(f, n + 1) \in Loop
    BY <1>1 DEF LoopOf, Loop
  <2>5. PICK x \in Loop, y \in Loop : x = LoopOf(f, 0) /\ y = LoopOf(f, n + 1)
    BY <2>4
  <2>6. /\ Append(L, x)[Len(L) + 1] = x
        /\ Len(L) + 1 \in DOMAIN Append(L, x)
        /\ [Append(L, x) EXCEPT ![Len(L) + 1] = y] = Append(L, y)
    BY LastPut
  <2>7. PICK L2 : L2 = Append(L, y)
    OBVIOUS
  <2>8. L1[l] = x /\ l \in DOMAIN L1 /\ [L1 EXCEPT ![l] = y] = L2
    BY ONLY <1>2, <2>5, <2>6, <2>7, l = Len(L) + 1
  <2>9. [L1[l] EXCEPT !.first = n + 1] = y
    BY ONLY <2>5, <2>8 DEF LoopOf
  <2>10. LinkLoop(b, ces) = [r EXCEPT !.loops[l].first = n + 1]
    BY <1>9, <1>10, <1>11, <2>1, <2>2, <2>3, <2>8, Zenon DEF LinkLoop, Live
  <2>11. r.loops = L1
    BY <1>12 DEF Has
  <2>12. PICK q : q = [r EXCEPT !.loops = L2]
    OBVIOUS
  <2>13. q = [r EXCEPT !.loops[l].first = n + 1]
    BY ONLY <2>8, <2>9, <2>11, <2>12
  <2>14. Has(q, cu, su, V, E, R, L2, F1, S1, sl)
    BY <1>12, <2>12, PutLoops, Zenon
  <2> QED BY <1>2, <1>6, <1>13, <1>16, <2>5, <2>7, <2>10, <2>13, <2>14
<1> QED BY <1>15, <1>16

------------------------------------------------------------------------------
(* Sound bodies *)

\* A handle that names nothing or an entity of the pool
NullOrIn(h, pool) == h = 0 \/ h \in DOMAIN pool

\* The references of a body of a primitive: all live, or null where a
\* constructor sets none
VerticesWhole(V, C) == \A v \in DOMAIN V : NullOrIn(V[v].outgoing, C)
EdgesWhole(cu, V, E, C) ==
  \A e \in DOMAIN E :
    /\ E[e].curve \in 1..cu /\ E[e].proper
    /\ E[e].start \in DOMAIN V /\ E[e].end \in DOMAIN V
    /\ NullOrIn(E[e].coedge_a, C) /\ NullOrIn(E[e].coedge_b, C)
CoedgesWhole(E, C, L) ==
  \A c \in DOMAIN C :
    /\ C[c].edge \in DOMAIN E /\ C[c].loop \in DOMAIN L
    /\ C[c].prev \in DOMAIN C /\ C[c].next \in DOMAIN C /\ NullOrIn(C[c].partner, C)
LoopsWhole(C, L, F) ==
  \A l \in DOMAIN L : L[l].face \in DOMAIN F /\ NullOrIn(L[l].first, C)
FacesWhole(su, L, F, S) ==
  \A f \in DOMAIN F : /\ F[f].surface \in 1..su /\ F[f].outer \in DOMAIN L
                      /\ F[f].inner = <<>> /\ F[f].shell \in DOMAIN S
ShellsWhole(F, S, sl) ==
  /\ \A s \in DOMAIN S : \A i \in DOMAIN S[s] : S[s][i] \in DOMAIN F
  /\ \A i \in DOMAIN sl : sl[i] \in DOMAIN S

\* The loops of its faces are closed.
RingsWhole(C, L) ==
  \A l \in DOMAIN L : L[l].first # 0 =>
    \E R \in SUBSET DOMAIN C : L[l].first \in R /\ {C[c].next : c \in R} = R

\* All of it
Whole(cu, su, V, E, C, L, F, S, sl) ==
  /\ \E P : V \in Seq([pos : P, outgoing : Nat])
  /\ E \in Seq(Edge) /\ C \in Seq(Coedge) /\ L \in Seq(Loop)
  /\ F \in Seq(Face) /\ S \in Seq(Seq(Nat)) /\ sl \in Seq(Nat)
  /\ VerticesWhole(V, C) /\ EdgesWhole(cu, V, E, C) /\ CoedgesWhole(E, C, L)
  /\ LoopsWhole(C, L, F) /\ FacesWhole(su, L, F, S) /\ ShellsWhole(F, S, sl)
  /\ RingsWhole(C, L)

\* A live or null handle is remapped to itself.
LEMMA RemapSame ==
  ASSUME NEW pool, NEW h, NullOrIn(h, pool)
  PROVE  Remap(pool, h) = h
  BY DEF NullOrIn, Remap, Live

\* The copies of entities with such references
LEMMA CloneVertexSame ==
  ASSUME NEW b, NEW P, NEW v \in [pos : P, outgoing : Nat], NullOrIn(v.outgoing, b.coedges)
  PROVE  CloneVertex(b, v) = v
<1>1. PICK x : x = CloneVertex(b, v)
  OBVIOUS
<1>2. x = [v EXCEPT !.outgoing = v.outgoing]
  BY <1>1, RemapSame, Zenon DEF CloneVertex
<1>3. v = [z \in {"pos", "outgoing"} |-> v[z]]
  OBVIOUS
<1>4. x = v
  BY ONLY <1>2, <1>3
<1> QED BY <1>1, <1>4

\* Of an edge
LEMMA CloneEdgeSame ==
  ASSUME NEW b, NEW e \in Edge, b.curves \in Nat, e.curve \in 1 .. b.curves,
         e.start \in DOMAIN b.vertices, e.end \in DOMAIN b.vertices,
         NullOrIn(e.coedge_a, b.coedges), NullOrIn(e.coedge_b, b.coedges)
  PROVE  CloneEdge(b, e) = e
<1>1. PICK x : x = CloneEdge(b, e)
  OBVIOUS
<1>2. /\ RemapCount(b.curves, e.curve) = e.curve
      /\ Remap(b.vertices, e.start) = e.start /\ Remap(b.vertices, e.end) = e.end
      /\ Remap(b.coedges, e.coedge_a) = e.coedge_a
      /\ Remap(b.coedges, e.coedge_b) = e.coedge_b
  BY RemapSame DEF NullOrIn, RemapCount
<1>3. x = [e EXCEPT !.curve = e.curve, !.start = e.start, !.end = e.end,
                    !.coedge_a = e.coedge_a, !.coedge_b = e.coedge_b]
  BY <1>1, <1>2, Zenon DEF CloneEdge
<1>4. e = [z \in DOMAIN e |-> e[z]]
  BY DEF Edge
<1>5. x = e
  BY ONLY <1>3, <1>4
<1> QED BY <1>1, <1>5

\* Of a coedge
LEMMA CloneCoedgeSame ==
  ASSUME NEW b, NEW c \in Coedge, c.edge \in DOMAIN b.edges, c.loop \in DOMAIN b.loops,
         c.prev \in DOMAIN b.coedges, c.next \in DOMAIN b.coedges,
         NullOrIn(c.partner, b.coedges)
  PROVE  CloneCoedge(b, c) = c
<1>1. PICK x : x = CloneCoedge(b, c)
  OBVIOUS
<1>2. /\ Remap(b.edges, c.edge) = c.edge /\ Remap(b.loops, c.loop) = c.loop
      /\ Remap(b.coedges, c.prev) = c.prev /\ Remap(b.coedges, c.next) = c.next
      /\ Remap(b.coedges, c.partner) = c.partner
  BY RemapSame DEF NullOrIn
<1>3. x = [c EXCEPT !.edge = c.edge, !.loop = c.loop, !.prev = c.prev,
                    !.next = c.next, !.partner = c.partner]
  BY <1>1, <1>2, Zenon DEF CloneCoedge
<1>4. c = [z \in DOMAIN c |-> c[z]]
  BY DEF Coedge
<1>5. x = c
  BY ONLY <1>3, <1>4
<1> QED BY <1>1, <1>5

\* Of a loop
LEMMA CloneLoopSame ==
  ASSUME NEW b, NEW l \in Loop, l.face \in DOMAIN b.faces, NullOrIn(l.first, b.coedges)
  PROVE  CloneLoop(b, l) = l
<1>1. PICK x : x = CloneLoop(b, l)
  OBVIOUS
<1>2. Remap(b.faces, l.face) = l.face /\ Remap(b.coedges, l.first) = l.first
  BY RemapSame DEF NullOrIn
<1>3. x = [l EXCEPT !.face = l.face, !.first = l.first]
  BY <1>1, <1>2, Zenon DEF CloneLoop
<1>4. l = [z \in DOMAIN l |-> l[z]]
  BY DEF Loop
<1>5. x = l
  BY ONLY <1>3, <1>4
<1> QED BY <1>1, <1>5

\* Of a face
LEMMA CloneFaceSame ==
  ASSUME NEW b, NEW f \in Face, b.surfaces \in Nat, f.surface \in 1 .. b.surfaces,
         f.outer \in DOMAIN b.loops, f.inner = <<>>, f.shell \in DOMAIN b.shells
  PROVE  CloneFace(b, f) = f
<1>1. PICK x : x = CloneFace(b, f)
  OBVIOUS
<1>2. /\ RemapCount(b.surfaces, f.surface) = f.surface
      /\ Remap(b.loops, f.outer) = f.outer /\ Remap(b.shells, f.shell) = f.shell
  BY RemapSame DEF NullOrIn, RemapCount
<1>3. [i \in DOMAIN f.inner |-> Remap(b.loops, f.inner[i])] = f.inner
  OBVIOUS
<1>4. x = [f EXCEPT !.surface = f.surface, !.outer = f.outer, !.shell = f.shell,
                    !.inner = f.inner]
  BY ONLY <1>1, <1>2, <1>3 DEF CloneFace
<1>5. f = [z \in DOMAIN f |-> f[z]]
  BY DEF Face
<1>6. x = f
  BY ONLY <1>4, <1>5
<1> QED BY <1>1, <1>6

\* A sequence whose elements are replaced by themselves
LEMMA SameElements ==
  ASSUME NEW T, NEW s \in Seq(T), NEW r, r = [i \in DOMAIN s |-> r[i]],
         \A i \in DOMAIN s : r[i] = s[i]
  PROVE  r = s
<1>1. s = [i \in DOMAIN s |-> s[i]]
  OBVIOUS
<1> QED BY ONLY <1>1, r = [i \in DOMAIN s |-> r[i]], \A i \in DOMAIN s : r[i] = s[i]

\* clone() of a body of whole references is the same body.
LEMMA WholeCopied ==
  ASSUME NEW cu, NEW su, NEW V, NEW E, NEW C, NEW L, NEW F, NEW S, NEW sl,
         NEW b, Has(b, cu, su, V, E, C, L, F, S, sl),
         cu \in Nat, su \in Nat, Whole(cu, su, V, E, C, L, F, S, sl)
  PROVE  Clone(b) = b
<1>1. /\ b.curves = cu /\ b.surfaces = su /\ b.vertices = V /\ b.edges = E
      /\ b.coedges = C /\ b.loops = L /\ b.faces = F /\ b.shells = S
      /\ b.shell_list = sl /\ b.bbox_dirty = TRUE /\ b.cached_bbox = {}
      /\ b = [z \in FieldNames |-> b[z]]
  BY DEF Has
<1>2. [v \in DOMAIN V |-> CloneVertex(b, V[v])] = V
  <2>1. PICK P : V \in Seq([pos : P, outgoing : Nat])
    BY DEF Whole
  <2>2. ASSUME NEW v \in DOMAIN V PROVE CloneVertex(b, V[v]) = V[v]
    <3>1. V[v] \in [pos : P, outgoing : Nat]
      <4>1. PICK T : T = [pos : P, outgoing : Nat]
        OBVIOUS
      <4>2. V \in Seq(T)
        BY <2>1, <4>1, Zenon
      <4>3. V[v] \in T
        BY ONLY <4>2, v \in DOMAIN V
      <4> QED BY <4>1, <4>3, Zenon
    <3>2. NullOrIn(V[v].outgoing, b.coedges)
      BY <1>1 DEF Whole, VerticesWhole
    <3> QED BY <3>1, <3>2, CloneVertexSame
  <2> QED BY <2>1, <2>2, SameElements
<1>3. [e \in DOMAIN E |-> CloneEdge(b, E[e])] = E
  <2>1. E \in Seq(Edge)
    BY DEF Whole
  <2>2. ASSUME NEW e \in DOMAIN E PROVE CloneEdge(b, E[e]) = E[e]
    <3>1. PICK x \in Edge : x = E[e]
      BY <2>1
    <3>2. /\ x.curve \in 1 .. b.curves /\ b.curves \in Nat
          /\ x.start \in DOMAIN b.vertices /\ x.end \in DOMAIN b.vertices
          /\ NullOrIn(x.coedge_a, b.coedges) /\ NullOrIn(x.coedge_b, b.coedges)
      BY <1>1, <3>1 DEF Whole, EdgesWhole
    <3> QED BY <3>1, <3>2, CloneEdgeSame
  <2> QED BY <2>1, <2>2, SameElements
<1>4. [c \in DOMAIN C |-> CloneCoedge(b, C[c])] = C
  <2>1. C \in Seq(Coedge)
    BY DEF Whole
  <2>2. ASSUME NEW c \in DOMAIN C PROVE CloneCoedge(b, C[c]) = C[c]
    <3>1. PICK x \in Coedge : x = C[c]
      BY <2>1
    <3>2. /\ x.edge \in DOMAIN b.edges /\ x.loop \in DOMAIN b.loops
          /\ x.prev \in DOMAIN b.coedges /\ x.next \in DOMAIN b.coedges
          /\ NullOrIn(x.partner, b.coedges)
      BY <1>1, <3>1 DEF Whole, CoedgesWhole
    <3> QED BY <3>1, <3>2, CloneCoedgeSame
  <2> QED BY <2>1, <2>2, SameElements
<1>5. [l \in DOMAIN L |-> CloneLoop(b, L[l])] = L
  <2>1. L \in Seq(Loop)
    BY DEF Whole
  <2>2. ASSUME NEW l \in DOMAIN L PROVE CloneLoop(b, L[l]) = L[l]
    <3>1. PICK x \in Loop : x = L[l]
      BY <2>1
    <3>2. x.face \in DOMAIN b.faces /\ NullOrIn(x.first, b.coedges)
      BY <1>1, <3>1 DEF Whole, LoopsWhole
    <3> QED BY <3>1, <3>2, CloneLoopSame
  <2> QED BY <2>1, <2>2, SameElements
<1>6. [f \in DOMAIN F |-> CloneFace(b, F[f])] = F
  <2>1. F \in Seq(Face)
    BY DEF Whole
  <2>2. ASSUME NEW f \in DOMAIN F PROVE CloneFace(b, F[f]) = F[f]
    <3>1. PICK x \in Face : x = F[f]
      BY <2>1
    <3>2. /\ x.surface \in 1 .. b.surfaces /\ b.surfaces \in Nat
          /\ x.outer \in DOMAIN b.loops /\ x.inner = <<>> /\ x.shell \in DOMAIN b.shells
      BY <1>1, <3>1 DEF Whole, FacesWhole
    <3> QED BY <3>1, <3>2, CloneFaceSame
  <2> QED BY <2>1, <2>2, SameElements
<1>7. [s \in DOMAIN S |-> [i \in DOMAIN S[s] |-> Remap(b.faces, S[s][i])]] = S
  <2>1. S \in Seq(Seq(Nat))
    BY DEF Whole
  <2>2. ASSUME NEW s \in DOMAIN S
        PROVE  [i \in DOMAIN S[s] |-> Remap(b.faces, S[s][i])] = S[s]
    <3>1. PICK x \in Seq(Nat) : x = S[s]
      BY <2>1
    <3>2. \A i \in DOMAIN x : Remap(b.faces, x[i]) = x[i]
      BY <1>1, <3>1, RemapSame DEF Whole, ShellsWhole, NullOrIn
    <3>3. [i \in DOMAIN x |-> Remap(b.faces, x[i])] = x
      BY <3>2, SameElements
    <3> QED BY <3>1, <3>3
  <2> QED BY <2>1, <2>2, SameElements
<1>8. [i \in DOMAIN sl |-> Remap(b.shells, sl[i])] = sl
  <2>1. sl \in Seq(Nat)
    BY DEF Whole
  <2>2. \A i \in DOMAIN sl : Remap(b.shells, sl[i]) = sl[i]
    BY <1>1, RemapSame DEF Whole, ShellsWhole, NullOrIn
  <2> QED BY <2>1, <2>2, SameElements
<1>9. Clone(b) = [b EXCEPT !.vertices = V, !.edges = E, !.coedges = C, !.loops = L,
                           !.faces = F, !.shells = S, !.shell_list = sl,
                           !.bbox_dirty = TRUE, !.cached_bbox = {}]
  <2>1. /\ [v \in DOMAIN b.vertices |-> CloneVertex(b, b.vertices[v])] = V
        /\ [e \in DOMAIN b.edges |-> CloneEdge(b, b.edges[e])] = E
        /\ [c \in DOMAIN b.coedges |-> CloneCoedge(b, b.coedges[c])] = C
        /\ [l \in DOMAIN b.loops |-> CloneLoop(b, b.loops[l])] = L
        /\ [f \in DOMAIN b.faces |-> CloneFace(b, b.faces[f])] = F
        /\ [s \in DOMAIN b.shells |->
              [i \in DOMAIN b.shells[s] |-> Remap(b.faces, b.shells[s][i])]] = S
        /\ [i \in DOMAIN b.shell_list |-> Remap(b.shells, b.shell_list[i])] = sl
    BY <1>1, <1>2, <1>3, <1>4, <1>5, <1>6, <1>7, <1>8
  <2> QED BY ONLY <2>1, Zenon DEF Clone
<1>10. PICK x : x = Clone(b)
  OBVIOUS
<1>11. x = [z \in FieldNames |-> x[z]]
  BY ONLY <1>1, <1>9, <1>10 DEF FieldNames
<1>12. \A z \in FieldNames : x[z] = b[z]
  <2>1. b = [z \in FieldNames |-> b[z]]
    BY <1>1
  <2>2. x.curves = b.curves /\ x.surfaces = b.surfaces /\ x.vertices = V
    BY ONLY <1>9, <1>10, <2>1 DEF FieldNames
  <2>3. x.edges = E /\ x.coedges = C /\ x.loops = L
    BY ONLY <1>9, <1>10, <2>1 DEF FieldNames
  <2>4. x.faces = F /\ x.shells = S /\ x.shell_list = sl
    BY ONLY <1>9, <1>10, <2>1 DEF FieldNames
  <2>5. x.bbox_dirty = TRUE /\ x.cached_bbox = {}
    BY ONLY <1>9, <1>10, <2>1 DEF FieldNames
  <2> QED BY ONLY <1>1, <2>2, <2>3, <2>4, <2>5, Zenon DEF FieldNames
<1> QED BY ONLY <1>1, <1>10, <1>11, <1>12

\* validate() finds nothing wrong with a body of whole references and rings.
LEMMA WholeSound ==
  ASSUME NEW cu, NEW su, NEW V, NEW E, NEW C, NEW L, NEW F, NEW S, NEW sl,
         NEW b, Has(b, cu, su, V, E, C, L, F, S, sl),
         cu \in Nat, su \in Nat, Whole(cu, su, V, E, C, L, F, S, sl)
  PROVE  Validate(b) = {}
<1>1. /\ b.curves = cu /\ b.surfaces = su /\ b.vertices = V /\ b.edges = E
      /\ b.coedges = C /\ b.loops = L /\ b.faces = F /\ b.shells = S
      /\ b.shell_list = sl
  BY DEF Has
<1>2. EdgeIssues(b) = {}
  <2>1. \A d \in DOMAIN b.edges :
          /\ b.edges[d].curve # 0 /\ b.edges[d].curve \in 0 .. b.curves
          /\ Live(b.vertices, b.edges[d].start) /\ Live(b.vertices, b.edges[d].end)
          /\ b.edges[d].proper
    BY <1>1, SMTT(30) DEF Whole, EdgesWhole, Live
  <2> QED BY ONLY <2>1, Zenon DEF EdgeIssues
<1>3. FaceIssues(b) = {}
  <2>1. \A g \in DOMAIN b.faces : b.faces[g].surface \in 1 .. b.surfaces
    BY <1>1 DEF Whole, FacesWhole
  <2>2. ASSUME NEW g \in DOMAIN b.faces PROVE OuterVerdict(b, g) = "closed"
    <3>1. PICK o, c : o = b.faces[g].outer /\ c = b.loops[o].first
      OBVIOUS
    <3>2. Live(b.loops, o)
      BY <1>1, <3>1 DEF Whole, FacesWhole, Live
    <3>3. CASE c = 0
      BY <3>1, <3>2, <3>3, Zenon DEF OuterVerdict
    <3>4. CASE c # 0
      <4>1. PICK R \in SUBSET DOMAIN C : c \in R /\ {C[d].next : d \in R} = R
        BY <1>1, <3>1, <3>2, <3>4 DEF Whole, RingsWhole, Live
      <4>2. \A d \in R : Live(b.edges, b.coedges[d].edge)
        BY <1>1 DEF Whole, CoedgesWhole, Live
      <4>3. Permuted(b, R)
        BY <1>1, <4>1, <4>2 DEF Permuted, NextOf
      <4>4. b.coedges \in Seq(Coedge)
        BY <1>1 DEF Whole
      <4>5. RingVerdict(b, c) = "closed"
        BY <4>1, <4>3, <4>4, VerdictExact
      <4> QED BY <3>1, <3>2, <3>4, <4>5, Zenon DEF OuterVerdict
    <3> QED BY <3>3, <3>4
  <2> QED BY ONLY <2>1, <2>2, Zenon DEF FaceIssues
<1>4. ShellIssues(b) = {}
  <2>1. \A i \in DOMAIN b.shell_list : Live(b.shells, b.shell_list[i])
    BY <1>1 DEF Whole, ShellsWhole, Live
  <2>2. \A s \in DOMAIN b.shells : \A i \in DOMAIN b.shells[s] : Live(b.faces, b.shells[s][i])
    BY <1>1 DEF Whole, ShellsWhole, Live
  <2> QED BY ONLY <2>1, <2>2, Zenon DEF ShellIssues, Live
<1> QED BY <1>2, <1>3, <1>4, Zenon DEF Validate

------------------------------------------------------------------------------
(* Spheres and tori *)

\* The empty body, field by field
LEMMA EmptyHas ==
  Has(EmptyBody, 0, 0, <<>>, <<>>, <<>>, <<>>, <<>>, <<>>, <<>>)
<1>1. EmptyBody = Made(0, 0, <<>>, <<>>, <<>>, <<>>, <<>>, <<>>, <<>>)
  BY DEF EmptyBody, Made
<1> QED BY <1>1, MadeHas

\* The first element of a sequence
LEMMA AppendFirst ==
  ASSUME NEW x
  PROVE  Append(<<>>, x) = <<x>>
  OBVIOUS

\* The second element of a sequence
LEMMA AppendSecond ==
  ASSUME NEW x, NEW y
  PROVE  Append(<<x>>, y) = <<x, y>>
<1>1. PICK T, s : T = {x, y} /\ s = <<x>>
  OBVIOUS
<1>2. s \in Seq(T) /\ Len(s) = 1 /\ s[1] = x /\ y \in T
  BY <1>1
<1>3. PICK r : r = Append(s, y)
  OBVIOUS
<1>4. r \in Seq(T) /\ Len(r) = 2 /\ r[1] = x /\ r[2] = y
  BY ONLY <1>2, <1>3
<1>5. r = [i \in 1..2 |-> r[i]]
  BY ONLY <1>4
<1>6. <<x, y>> = r
  BY ONLY <1>4, <1>5
<1> QED BY <1>1, <1>3, <1>6

\* Finish() of a body
LEMMA MadeFinish ==
  ASSUME NEW cu, NEW su, NEW V, NEW E, NEW C, NEW L, NEW F, NEW S, NEW sl,
         NEW m, Has(m, cu, su, V, E, C, L, F, S, <<>>)
  PROVE  Has(Finish(m), cu, su, V, E, C, L, F, S, <<1>>)
<1>1. PICK r : r = RegisterShell(m, 1)
  OBVIOUS
<1>2. Has(r, cu, su, V, E, C, L, F, S, <<1>>)
  <2>1. Has(r, cu, su, V, E, C, L, F, S, Append(<<>>, 1))
    BY <1>1, MadeRegister
  <2> QED BY <2>1, AppendFirst, Zenon
<1>3. Finish(m) = [r EXCEPT !.bbox_dirty = TRUE]
  BY ONLY <1>1 DEF Finish
<1>4. PICK q : q = [r EXCEPT !.bbox_dirty = TRUE]
  OBVIOUS
<1>5. Has(q, cu, su, V, E, C, L, F, S, <<1>>)
  BY <1>2, <1>4, PutDirty, Zenon
<1> QED BY <1>3, <1>4, <1>5

\* The body of a sphere or a torus
LEMMA RoundHas ==
  ASSUME NEW lo, NEW hi
  PROVE  Has(Round(lo, hi), 0, 1, <<VertexOf(lo, 0), VertexOf(hi, 0)>>, <<>>, <<>>,
             <<LoopOf(1, 0)>>, <<FaceOf(1, 1, 1)>>, <<<<1>>>>, <<1>>)
<1>1. PICK m1 : m1 = NewShell(AddSurface(EmptyBody))
  OBVIOUS
<1>2. Has(m1, 0, 1, <<>>, <<>>, <<>>, <<>>, <<>>, <<<<>>>>, <<>>)
  <2>1. PICK m0 : m0 = AddSurface(EmptyBody)
    OBVIOUS
  <2>2. Has(m0, 0, 0 + 1, <<>>, <<>>, <<>>, <<>>, <<>>, <<>>, <<>>)
    BY <2>1, EmptyHas, MadeSurface
  <2>3. Has(m0, 0, 1, <<>>, <<>>, <<>>, <<>>, <<>>, <<>>, <<>>)
    BY <2>2, 0 + 1 = 1
  <2>4. Has(NewShell(m0), 0, 1, <<>>, <<>>, <<>>, <<>>, <<>>, Append(<<>>, <<>>), <<>>)
    BY <2>3, MadeShell
  <2>5. Has(NewShell(m0), 0, 1, <<>>, <<>>, <<>>, <<>>, <<>>, <<<<>>>>, <<>>)
    BY <2>4, AppendFirst, Zenon
  <2> QED BY <1>1, <2>1, <2>5
<1>3. PICK m2 : m2 = AddFace(m1, 1, <<>>)
  OBVIOUS
<1>4. Has(m2, 0, 1, <<>>, <<>>, <<>>, <<LoopOf(1, 0)>>, <<FaceOf(1, 1, 1)>>, <<<<1>>>>, <<>>)
  <2>1. /\ <<>> \in Seq(Coedge) /\ <<>> \in Seq(Loop) /\ <<>> \in Seq(Face)
        /\ <<>> \in Seq(Nat) /\ <<>> \in Seq(Uses) /\ 1 \in Nat
        /\ 0 = Len(<<>>) /\ 1 = Len(<<>>) + 1
    OBVIOUS
  <2>2. PICK none, n, f :
          /\ none \in Seq(Uses) /\ none = <<>> /\ n = 0 /\ f = 1
          /\ n = Len(none) /\ f = Len(none) + 1
          /\ f \in Nat /\ none \in Seq(Coedge) /\ none \in Seq(Loop)
          /\ none \in Seq(Face) /\ none \in Seq(Nat)
    BY <2>1
  <2>3. Has(m1, 0, 1, none, none, none, none, none, <<none>>, none)
    BY ONLY <1>2, <2>2
  <2>4. Has(AddFace(m1, f, none), 0, 1, none, none, none \o RingOf(none, n, f),
            Append(none, LoopOf(f, IF none = <<>> THEN 0 ELSE n + 1)),
            Append(none, FaceOf(f, f, 1)), <<Append(none, f)>>, none)
    BY ONLY <2>2, <2>3, MadeAddFace
  <2>5. (IF none = <<>> THEN 0 ELSE n + 1) = 0
    BY ONLY <2>2
  <2>6. none \o RingOf(none, n, f) = none
    <3>1. RingOf(none, n, f) = none
      BY ONLY <2>2 DEF RingOf
    <3> QED BY ONLY <2>2, <3>1
  <2> QED BY ONLY <1>3, <2>2, <2>4, <2>5, <2>6, AppendFirst, Zenon
<1>5. PICK m3 : m3 = Finish(m2)
  OBVIOUS
<1>6. Has(m3, 0, 1, <<>>, <<>>, <<>>, <<LoopOf(1, 0)>>, <<FaceOf(1, 1, 1)>>, <<<<1>>>>, <<1>>)
  BY <1>4, <1>5, MadeFinish
<1>7. PICK m4 : m4 = NewVertex(m3, lo)
  OBVIOUS
<1>8. Has(m4, 0, 1, <<VertexOf(lo, 0)>>, <<>>, <<>>,
          <<LoopOf(1, 0)>>, <<FaceOf(1, 1, 1)>>, <<<<1>>>>, <<1>>)
  <2>1. Has(m4, 0, 1, Append(<<>>, VertexOf(lo, 0)), <<>>, <<>>,
          <<LoopOf(1, 0)>>, <<FaceOf(1, 1, 1)>>, <<<<1>>>>, <<1>>)
    BY ONLY <1>6, <1>7, MadeVertex
  <2> QED BY ONLY <2>1, AppendFirst, Zenon
<1>9. Has(NewVertex(m4, hi), 0, 1, <<VertexOf(lo, 0), VertexOf(hi, 0)>>, <<>>, <<>>,
          <<LoopOf(1, 0)>>, <<FaceOf(1, 1, 1)>>, <<<<1>>>>, <<1>>)
  <2>1. Has(NewVertex(m4, hi), 0, 1, Append(<<VertexOf(lo, 0)>>, VertexOf(hi, 0)), <<>>, <<>>,
          <<LoopOf(1, 0)>>, <<FaceOf(1, 1, 1)>>, <<<<1>>>>, <<1>>)
    BY ONLY <1>8, MadeVertex
  <2> QED BY ONLY <2>1, AppendSecond, Zenon
<1> QED BY <1>1, <1>3, <1>5, <1>7, <1>9, Zenon DEF Round

\* Its references are whole.
LEMMA RoundWhole ==
  ASSUME NEW lo, NEW hi
  PROVE  Whole(0, 1, <<VertexOf(lo, 0), VertexOf(hi, 0)>>, <<>>, <<>>,
               <<LoopOf(1, 0)>>, <<FaceOf(1, 1, 1)>>, <<<<1>>>>, <<1>>)
<1>1. PICK V, L, F, S : /\ V = <<VertexOf(lo, 0), VertexOf(hi, 0)>>
                        /\ L = <<LoopOf(1, 0)>> /\ F = <<FaceOf(1, 1, 1)>>
                        /\ S = <<<<1>>>>
  OBVIOUS
<1>2. /\ \A v \in DOMAIN V : V[v].outgoing = 0
      /\ \E P : V \in Seq([pos : P, outgoing : Nat])
  <2>1. PICK T : T = [pos : {lo, hi}, outgoing : Nat]
    OBVIOUS
  <2>2. PICK x, y : x = VertexOf(lo, 0) /\ y = VertexOf(hi, 0)
    OBVIOUS
  <2>3. x \in T /\ y \in T /\ x.outgoing = 0 /\ y.outgoing = 0
    BY <2>1, <2>2 DEF VertexOf
  <2>4. V = <<x, y>>
    BY <1>1, <2>2
  <2>5. V \in Seq(T) /\ \A v \in DOMAIN V : V[v] = x \/ V[v] = y
    BY ONLY <2>3, <2>4
  <2> QED BY <2>1, <2>3, <2>5
<1>3. /\ L \in Seq(Loop) /\ DOMAIN L = {1} /\ L[1].face = 1 /\ L[1].first = 0
      /\ F \in Seq(Face) /\ DOMAIN F = {1} /\ F[1].surface = 1 /\ F[1].outer = 1
      /\ F[1].inner = <<>> /\ F[1].shell = 1
  <2>1. PICK x, y : x = LoopOf(1, 0) /\ y = FaceOf(1, 1, 1)
    OBVIOUS
  <2>2. /\ x \in Loop /\ x.face = 1 /\ x.first = 0
        /\ y \in Face /\ y.surface = 1 /\ y.outer = 1 /\ y.inner = <<>> /\ y.shell = 1
    BY <2>1 DEF LoopOf, FaceOf, Loop, Face
  <2>3. L = <<x>> /\ F = <<y>>
    BY <1>1, <2>1
  <2> QED BY ONLY <2>2, <2>3
<1>4. S \in Seq(Seq(Nat)) /\ DOMAIN S = {1} /\ S[1] = <<1>> /\ <<1>> \in Seq(Nat)
  BY <1>1
<1>5. LoopsWhole(<<>>, L, F) /\ FacesWhole(1, L, F, S) /\ ShellsWhole(F, S, <<1>>)
  BY <1>3, <1>4 DEF LoopsWhole, FacesWhole, ShellsWhole, NullOrIn
<1>6. RingsWhole(<<>>, L) /\ VerticesWhole(V, <<>>)
  BY <1>2, <1>3 DEF RingsWhole, VerticesWhole, NullOrIn
<1>7. EdgesWhole(0, V, <<>>, <<>>) /\ CoedgesWhole(<<>>, <<>>, L)
  BY DEF EdgesWhole, CoedgesWhole
<1>8. <<>> \in Seq(Edge) /\ <<>> \in Seq(Coedge)
  OBVIOUS
<1> QED BY ONLY <1>1, <1>2, <1>3, <1>4, <1>5, <1>6, <1>7, <1>8, Zenon DEF Whole

------------------------------------------------------------------------------
(* Faces of whole bodies *)

\* r is s, of length n, and t one after the other.
Joined(r, s, t, n) ==
  /\ Len(r) = n + Len(t) /\ n \in Nat
  /\ DOMAIN r = 1 .. n + Len(t) /\ DOMAIN s = 1 .. n
  /\ \A i \in 1..n : r[i] = s[i]
  /\ \A i \in 1..Len(t) : r[n + i] = t[i]
  /\ \A i \in DOMAIN r : i \in 1..n \/ \E j \in 1..Len(t) : i = n + j

\* The elements of two sequences one after the other
LEMMA JoinedElements ==
  ASSUME NEW T, NEW s \in Seq(T), NEW t \in Seq(T), NEW r, r = s \o t,
         NEW n, n = Len(s)
  PROVE  r \in Seq(T) /\ Joined(r, s, t, n)
<1>1. /\ r \in Seq(T) /\ Len(r) = n + Len(t) /\ n \in Nat
      /\ DOMAIN r = 1 .. n + Len(t) /\ DOMAIN s = 1 .. n
      /\ \A i \in 1..n : r[i] = s[i]
  OBVIOUS
<1>2. \A i \in 1..Len(t) : r[n + i] = t[i]
  OBVIOUS
<1>3. ASSUME NEW i \in DOMAIN r, i \notin 1..n
      PROVE  \E j \in 1..Len(t) : i = n + j
  <2>1. i - n \in 1..Len(t) /\ i = n + (i - n)
    BY <1>1, <1>3
  <2> QED BY <2>1
<1> QED BY ONLY <1>1, <1>2, <1>3 DEF Joined

\* The elements of a sequence with one more
LEMMA LongerElements ==
  ASSUME NEW T, NEW s \in Seq(T), NEW x \in T, NEW r, r = Append(s, x),
         NEW n, n = Len(s) + 1
  PROVE  /\ r \in Seq(T) /\ Len(r) = n /\ n \in Nat \ {0} /\ DOMAIN r = 1..n
         /\ DOMAIN s = 1 .. n - 1 /\ r[n] = x
         /\ \A i \in 1 .. n - 1 : r[i] = s[i]
  OBVIOUS

\* The loop first at n + 1 has the ring of these uses.
Rung(C, first, uses, n) ==
  /\ first = n + 1
  /\ \A i \in 1..Len(uses) :
       /\ n + i \in DOMAIN C
       /\ C[n + i].edge = uses[i].edge /\ C[n + i].same = uses[i].same
       /\ C[n + i].next = n + (IF i = Len(uses) THEN 1 ELSE i + 1)

\* Coedge i of a new ring
RingCoedge(c, uses, n, l, i) ==
  /\ c.edge = uses[i].edge /\ c.same = uses[i].same
  /\ c.loop = l /\ c.partner = 0
  /\ c.next = n + (IF i = Len(uses) THEN 1 ELSE i + 1)
  /\ c.prev \in n + 1 .. n + Len(uses) /\ c.next \in n + 1 .. n + Len(uses)

\* The coedges of a new ring
LEMMA RingElements ==
  ASSUME NEW uses \in Seq(Uses), NEW n \in Nat, NEW l \in Nat, NEW i \in 1..Len(uses)
  PROVE  RingCoedge(RingOf(uses, n, l)[i], uses, n, l, i)
<1>1. PICK c, p, q : /\ c = RingOf(uses, n, l)[i]
                     /\ p = n + (IF i = 1 THEN Len(uses) ELSE i - 1)
                     /\ q = n + (IF i = Len(uses) THEN 1 ELSE i + 1)
  OBVIOUS
<1>2. p \in n + 1 .. n + Len(uses) /\ q \in n + 1 .. n + Len(uses)
  BY <1>1
<1>3. c = CoedgeOf(uses[i].edge, l, uses[i].same, p, q)
  BY <1>1 DEF RingOf
<1>4. uses[i].edge \in Nat /\ uses[i].same \in BOOLEAN /\ p \in Nat /\ q \in Nat
  <2>1. uses[i] \in Uses /\ p \in Nat /\ q \in Nat
    BY <1>2
  <2> QED BY ONLY <2>1, Zenon DEF Uses
<1>6. /\ c.edge = uses[i].edge /\ c.same = uses[i].same /\ c.loop = l
      /\ c.partner = 0 /\ c.prev = p /\ c.next = q
  BY <1>3, Zenon DEF CoedgeOf
<1>7. RingCoedge(c, uses, n, l, i)
  BY ONLY <1>1, <1>2, <1>6 DEF RingCoedge
<1> QED BY <1>1, <1>7

\* A face with a ring on edges of the body leaves its references whole.
LEMMA AddFaceWhole ==
  ASSUME NEW cu \in Nat, NEW su \in Nat, NEW V, NEW E, NEW C, NEW L, NEW F, NEW fs,
         NEW sl, Whole(cu, su, V, E, C, L, F, <<fs>>, sl),
         NEW s \in 1..su, NEW uses \in Seq(Uses),
         \A i \in 1..Len(uses) : uses[i].edge \in DOMAIN E,
         NEW n, NEW f, NEW l, n = Len(C), f = Len(F) + 1, l = Len(L) + 1,
         NEW C1, NEW L1, NEW F1, NEW fs1, C1 = C \o RingOf(uses, n, l),
         L1 = Append(L, LoopOf(f, IF uses = <<>> THEN 0 ELSE n + 1)),
         F1 = Append(F, FaceOf(s, l, 1)), fs1 = Append(fs, f)
  PROVE  Whole(cu, su, V, E, C1, L1, F1, <<fs1>>, sl)
<1>1. /\ \E P : V \in Seq([pos : P, outgoing : Nat])
      /\ E \in Seq(Edge) /\ C \in Seq(Coedge) /\ L \in Seq(Loop)
      /\ F \in Seq(Face) /\ <<fs>> \in Seq(Seq(Nat)) /\ sl \in Seq(Nat)
      /\ VerticesWhole(V, C) /\ EdgesWhole(cu, V, E, C) /\ CoedgesWhole(E, C, L)
      /\ LoopsWhole(C, L, F) /\ FacesWhole(su, L, F, <<fs>>)
      /\ ShellsWhole(F, <<fs>>, sl) /\ RingsWhole(C, L)
  BY Zenon DEF Whole
<1>2. PICK x, y : /\ x = LoopOf(f, IF uses = <<>> THEN 0 ELSE n + 1)
                  /\ y = FaceOf(s, l, 1)
  OBVIOUS
<1>3. n \in Nat /\ f \in Nat \ {0} /\ l \in Nat \ {0} /\ Len(uses) \in Nat
  <2>1. Len(C) \in Nat /\ Len(F) \in Nat /\ Len(L) \in Nat /\ Len(uses) \in Nat
    BY ONLY <1>1, uses \in Seq(Uses)
  <2> QED BY ONLY <2>1, n = Len(C), f = Len(F) + 1, l = Len(L) + 1
<1>4. /\ x \in Loop /\ x.face = f /\ x.first = (IF uses = <<>> THEN 0 ELSE n + 1)
      /\ y \in Face /\ y.surface = s /\ y.outer = l /\ y.inner = <<>> /\ y.shell = 1
  BY <1>2, <1>3 DEF LoopOf, FaceOf, Loop, Face
<1>5. /\ L1 \in Seq(Loop) /\ DOMAIN L1 = 1..l /\ DOMAIN L = 1 .. l - 1
      /\ L1[l] = x /\ \A i \in 1 .. l - 1 : L1[i] = L[i]
  BY ONLY <1>1, <1>2, <1>4, l = Len(L) + 1, LongerElements,
     L1 = Append(L, LoopOf(f, IF uses = <<>> THEN 0 ELSE n + 1))
<1>6. /\ F1 \in Seq(Face) /\ DOMAIN F1 = 1..f /\ DOMAIN F = 1 .. f - 1
      /\ F1[f] = y /\ \A i \in 1 .. f - 1 : F1[i] = F[i]
  BY ONLY <1>1, <1>2, <1>4, f = Len(F) + 1, LongerElements, F1 = Append(F, FaceOf(s, l, 1))
<1>7. fs \in Seq(Nat) /\ DOMAIN <<fs>> = {1} /\ <<fs>>[1] = fs
  <2>1. PICK T : T = Seq(Nat)
    OBVIOUS
  <2>2. <<fs>>[1] \in T
    BY ONLY <1>1, <2>1
  <2> QED BY <2>1, <2>2
<1>8. /\ fs1 \in Seq(Nat) /\ DOMAIN fs1 = 1 .. Len(fs) + 1 /\ Len(fs) \in Nat
      /\ DOMAIN fs = 1..Len(fs)
      /\ fs1[Len(fs) + 1] = f /\ \A i \in 1..Len(fs) : fs1[i] = fs[i]
  BY <1>3, <1>7
<1>9. PICK R : R = RingOf(uses, n, l)
  OBVIOUS
<1>10. /\ R \in Seq(Coedge) /\ Len(R) = Len(uses)
       /\ \A i \in 1..Len(uses) : RingCoedge(R[i], uses, n, l, i)
  <2>1. l \in Nat /\ n \in Nat
    BY <1>3
  <2>2. R \in Seq(Coedge) /\ Len(R) = Len(uses)
    BY ONLY <1>9, <2>1, RingTypes, uses \in Seq(Uses)
  <2>3. ASSUME NEW i \in 1..Len(uses) PROVE RingCoedge(R[i], uses, n, l, i)
    BY ONLY <1>9, <2>1, <2>3, RingElements, uses \in Seq(Uses)
  <2> QED BY ONLY <2>2, <2>3
<1>11. /\ C1 \in Seq(Coedge) /\ DOMAIN C1 = 1 .. n + Len(uses) /\ DOMAIN C = 1..n
       /\ \A i \in 1..n : C1[i] = C[i]
       /\ \A i \in 1..Len(uses) : C1[n + i] = R[i]
       /\ \A i \in DOMAIN C1 : i \in 1..n \/ \E j \in 1..Len(uses) : i = n + j
  <2>1. C1 = C \o R /\ n = Len(C)
    BY ONLY <1>9, C1 = C \o RingOf(uses, n, l), n = Len(C)
  <2>2. C \in Seq(Coedge) /\ R \in Seq(Coedge) /\ Len(R) = Len(uses)
    BY ONLY <1>1, <1>10
  <2>3. C1 \in Seq(Coedge) /\ Joined(C1, C, R, n)
    BY ONLY <2>1, <2>2, JoinedElements
  <2> QED BY ONLY <2>2, <2>3 DEF Joined
<1>12. DOMAIN C \subseteq DOMAIN C1 /\ \A h : NullOrIn(h, C) => NullOrIn(h, C1)
  BY <1>3, <1>11, SMTT(30) DEF NullOrIn
<1>13. VerticesWhole(V, C1)
  BY <1>1, <1>12 DEF VerticesWhole
<1>14. EdgesWhole(cu, V, E, C1)
  BY <1>1, <1>12 DEF EdgesWhole
<1>15. CoedgesWhole(E, C1, L1)
  <2>1. ASSUME NEW c \in 1..n
        PROVE  /\ C1[c].edge \in DOMAIN E /\ C1[c].loop \in DOMAIN L1
               /\ C1[c].prev \in DOMAIN C1 /\ C1[c].next \in DOMAIN C1
               /\ NullOrIn(C1[c].partner, C1)
    <3>1. /\ C[c].edge \in DOMAIN E /\ C[c].loop \in DOMAIN L
          /\ C[c].prev \in DOMAIN C /\ C[c].next \in DOMAIN C /\ NullOrIn(C[c].partner, C)
      BY <1>1, <1>11 DEF CoedgesWhole
    <3>2. C1[c] = C[c]
      BY <1>11
    <3>3. DOMAIN L \subseteq DOMAIN L1
      BY <1>3, <1>5
    <3> QED BY <1>12, <3>1, <3>2, <3>3
  <2>2. ASSUME NEW i \in 1..Len(uses), NEW c, c = n + i
        PROVE  /\ C1[c].edge \in DOMAIN E /\ C1[c].loop \in DOMAIN L1
               /\ C1[c].prev \in DOMAIN C1 /\ C1[c].next \in DOMAIN C1
               /\ NullOrIn(C1[c].partner, C1)
    <3>1. /\ R[i].edge \in DOMAIN E /\ R[i].loop = l /\ R[i].partner = 0
          /\ R[i].prev \in n + 1 .. n + Len(uses) /\ R[i].next \in n + 1 .. n + Len(uses)
      BY <1>10 DEF RingCoedge
    <3>2. C1[c] = R[i]
      BY <1>11, <2>2
    <3>3. n + 1 .. n + Len(uses) \subseteq DOMAIN C1 /\ l \in DOMAIN L1
      BY <1>3, <1>5, <1>11, SMTT(30)
    <3> QED BY <3>1, <3>2, <3>3 DEF NullOrIn
  <2> QED BY ONLY <1>11, <2>1, <2>2, Zenon DEF CoedgesWhole
<1>16. LoopsWhole(C1, L1, F1)
  <2>1. ASSUME NEW k \in 1 .. l - 1
        PROVE  L1[k].face \in DOMAIN F1 /\ NullOrIn(L1[k].first, C1)
    <3>1. L[k].face \in DOMAIN F /\ NullOrIn(L[k].first, C) /\ L1[k] = L[k]
      BY <1>1, <1>5 DEF LoopsWhole
    <3>2. DOMAIN F \subseteq DOMAIN F1
      BY <1>3, <1>6
    <3> QED BY <1>12, <3>1, <3>2
  <2>2. L1[l].face \in DOMAIN F1 /\ NullOrIn(L1[l].first, C1)
    <3>1. f \in DOMAIN F1
      BY <1>3, <1>6
    <3>2. CASE uses = <<>>
      BY <1>4, <1>5, <3>1, <3>2 DEF NullOrIn
    <3>3. CASE uses # <<>>
      <4>1. 1 \in 1..Len(uses)
        BY <3>3
      <4>2. n + 1 \in DOMAIN C1
        BY <1>3, <1>11, <4>1
      <4> QED BY <1>4, <1>5, <3>1, <3>3, <4>2 DEF NullOrIn
    <3> QED BY <3>2, <3>3
  <2>3. \A k \in DOMAIN L1 : k \in 1 .. l - 1 \/ k = l
    BY <1>3, <1>5
  <2> QED BY ONLY <2>1, <2>2, <2>3 DEF LoopsWhole
<1>17. FacesWhole(su, L1, F1, <<fs1>>)
  <2>1. DOMAIN <<fs1>> = {1} /\ DOMAIN L \subseteq DOMAIN L1 /\ l \in DOMAIN L1
    BY <1>3, <1>5
  <2>2. ASSUME NEW k \in 1 .. f - 1
        PROVE  /\ F1[k].surface \in 1..su /\ F1[k].outer \in DOMAIN L1
               /\ F1[k].inner = <<>> /\ F1[k].shell \in {1}
    <3>1. /\ F[k].surface \in 1..su /\ F[k].outer \in DOMAIN L
          /\ F[k].inner = <<>> /\ F[k].shell \in DOMAIN <<fs>>
      BY <1>1, <1>6 DEF FacesWhole
    <3> QED BY <1>6, <1>7, <2>1, <3>1
  <2>3. /\ F1[f].surface \in 1..su /\ F1[f].outer \in DOMAIN L1
        /\ F1[f].inner = <<>> /\ F1[f].shell \in {1}
    BY <1>4, <1>6, <2>1
  <2>4. \A k \in DOMAIN F1 : k \in 1 .. f - 1 \/ k = f
    BY <1>3, <1>6, SMTT(30)
  <2> QED BY ONLY <2>1, <2>2, <2>3, <2>4 DEF FacesWhole
<1>18. ShellsWhole(F1, <<fs1>>, sl)
  <2>1. DOMAIN <<fs1>> = {1} /\ <<fs1>>[1] = fs1 /\ DOMAIN F \subseteq DOMAIN F1
        /\ f \in DOMAIN F1
    <3>1. DOMAIN <<fs1>> = {1} /\ <<fs1>>[1] = fs1
      OBVIOUS
    <3>2. DOMAIN F \subseteq DOMAIN F1 /\ f \in DOMAIN F1
      BY ONLY <1>3, <1>6
    <3> QED BY ONLY <3>1, <3>2
  <2>2. \A i \in DOMAIN fs : fs[i] \in DOMAIN F
    BY <1>1, <1>7 DEF ShellsWhole
  <2>3. \A i \in DOMAIN fs1 : i \in DOMAIN fs \/ i = Len(fs) + 1
    BY <1>8, SMTT(30)
  <2>4. \A i \in DOMAIN fs1 : fs1[i] \in DOMAIN F1
    BY <1>8, <2>1, <2>2, <2>3
  <2>5. \A i \in DOMAIN sl : sl[i] \in {1}
    BY <1>1, <1>7 DEF ShellsWhole
  <2> QED BY <2>1, <2>4, <2>5 DEF ShellsWhole
<1>19. RingsWhole(C1, L1)
  <2>1. ASSUME NEW k \in 1 .. l - 1, L1[k].first # 0
        PROVE  \E r \in SUBSET DOMAIN C1 :
                 L1[k].first \in r /\ {C1[c].next : c \in r} = r
    <3>1. PICK r \in SUBSET DOMAIN C : L[k].first \in r /\ {C[c].next : c \in r} = r
      BY <1>1, <1>5, <2>1 DEF RingsWhole
    <3>2. \A c \in r : C1[c] = C[c]
      BY <1>11
    <3>3. {C1[c].next : c \in r} = {C[c].next : c \in r}
      BY <3>2
    <3> QED BY <1>5, <1>12, <3>1, <3>3
  <2>2. ASSUME L1[l].first # 0
        PROVE  \E r \in SUBSET DOMAIN C1 :
                 L1[l].first \in r /\ {C1[c].next : c \in r} = r
    <3> DEFINE r == n + 1 .. n + Len(uses)
    <3>1. uses # <<>> /\ L1[l].first = n + 1 /\ Len(uses) >= 1
      BY <1>4, <1>5, <2>2, SMTT(30)
    <3>2. r \subseteq DOMAIN C1 /\ n + 1 \in r
      BY <1>3, <1>11, <3>1, SMTT(30)
    <3>3. \A i \in 1..Len(uses) : C1[n + i].next = R[i].next
      BY <1>11
    <3>4. ASSUME NEW c \in r PROVE C1[c].next \in r
      <4>1. PICK i : i = c - n
        OBVIOUS
      <4>2. i \in 1..Len(uses) /\ c = n + i
        BY <1>3, <4>1, SMTT(30)
      <4> QED BY <1>10, <3>3, <4>2 DEF RingCoedge
    <3>5. ASSUME NEW c \in r PROVE \E d \in r : C1[d].next = c
      <4>1. CASE c = n + 1
        <5>1. Len(uses) \in 1..Len(uses) /\ n + Len(uses) \in r
          BY <1>3, <3>1
        <5>2. C1[n + Len(uses)].next = n + 1
          BY <1>10, <3>3, <5>1 DEF RingCoedge
        <5> QED BY <4>1, <5>1, <5>2
      <4>2. CASE c # n + 1
        <5>1. PICK i : i = c - n - 1
          OBVIOUS
        <5>2. i \in 1..Len(uses) /\ i # Len(uses) /\ n + i \in r /\ c = n + (i + 1)
          BY <1>3, <4>2, <5>1
        <5>3. C1[n + i].next = c
          BY <1>10, <3>3, <5>2 DEF RingCoedge
        <5> QED BY <5>2, <5>3
      <4> QED BY <4>1, <4>2
    <3> HIDE DEF r
    <3>6. {C1[c].next : c \in r} = r
      BY <3>4, <3>5
    <3> QED BY <3>1, <3>2, <3>6
  <2>3. \A k \in DOMAIN L1 : k \in 1 .. l - 1 \/ k = l
    BY <1>3, <1>5
  <2> QED BY ONLY <2>1, <2>2, <2>3 DEF RingsWhole
<1>20. <<fs1>> \in Seq(Seq(Nat))
  <2>1. PICK T : T = Seq(Nat)
    OBVIOUS
  <2>2. <<fs1>> \in Seq(T)
    BY ONLY <1>8, <2>1
  <2> QED BY <2>1, <2>2
<1> QED BY ONLY <1>1, <1>5, <1>6, <1>11, <1>13, <1>14, <1>15, <1>16, <1>17, <1>18,
                <1>19, <1>20, Zenon DEF Whole

\* Face f has the ring of these uses, behind the first n coedges.
FaceRing(C, L, F, f, uses, n) ==
  f \in DOMAIN F /\ F[f].outer \in DOMAIN L /\ Rung(C, L[F[f].outer].first, uses, n)

\* The rings of a body are still there.
RingsKept(C, L, F, C1, L1, F1) ==
  \A g, us, k : FaceRing(C, L, F, g, us, k) => FaceRing(C1, L1, F1, g, us, k)

\* These are the coedges, loops and faces behind those of C, L and F.
RingAdded(C, L, F, C1, L1, F1, s, uses, n, l, f) ==
  /\ C1 = C \o RingOf(uses, n, l) /\ L1 = Append(L, LoopOf(f, n + 1))
  /\ F1 = Append(F, FaceOf(s, l, 1))
  /\ n = Len(C) /\ f = Len(F) + 1 /\ l = Len(L) + 1

\* AddFace makes a ring for its face and leaves those of the others.
LEMMA AddFaceRings ==
  ASSUME NEW C \in Seq(Coedge), NEW L \in Seq(Loop), NEW F \in Seq(Face), NEW s \in Nat,
         NEW uses \in Seq(Uses), uses # <<>>,
         NEW n, NEW f, NEW l, NEW C1, NEW L1, NEW F1,
         RingAdded(C, L, F, C1, L1, F1, s, uses, n, l, f)
  PROVE  /\ FaceRing(C1, L1, F1, f, uses, n)
         /\ Len(C1) = n + Len(uses) /\ Len(F1) = f
         /\ RingsKept(C, L, F, C1, L1, F1)
<1>1. PICK x, y : x = LoopOf(f, n + 1) /\ y = FaceOf(s, l, 1)
  OBVIOUS
<1>0. /\ C1 = C \o RingOf(uses, n, l) /\ L1 = Append(L, LoopOf(f, n + 1))
      /\ F1 = Append(F, FaceOf(s, l, 1))
      /\ n = Len(C) /\ f = Len(F) + 1 /\ l = Len(L) + 1
  BY Zenon DEF RingAdded
<1>2. n \in Nat /\ f \in Nat \ {0} /\ l \in Nat \ {0} /\ Len(uses) \in Nat
  <2>1. Len(C) \in Nat /\ Len(F) \in Nat /\ Len(L) \in Nat /\ Len(uses) \in Nat
    OBVIOUS
  <2> QED BY ONLY <1>0, <2>1
<1>3. x \in Loop /\ x.first = n + 1 /\ y \in Face /\ y.outer = l
  BY <1>1, <1>2 DEF LoopOf, FaceOf, Loop, Face
<1>4. /\ L1 \in Seq(Loop) /\ DOMAIN L1 = 1..l /\ DOMAIN L = 1 .. l - 1
      /\ L1[l] = x /\ \A i \in 1 .. l - 1 : L1[i] = L[i]
  BY ONLY <1>0, <1>1, <1>3, LongerElements, L \in Seq(Loop)
<1>5. /\ F1 \in Seq(Face) /\ DOMAIN F1 = 1..f /\ DOMAIN F = 1 .. f - 1 /\ Len(F1) = f
      /\ F1[f] = y /\ \A i \in 1 .. f - 1 : F1[i] = F[i]
  BY ONLY <1>0, <1>1, <1>3, LongerElements, F \in Seq(Face)
<1>6. PICK R : R = RingOf(uses, n, l)
  OBVIOUS
<1>7. R \in Seq(Coedge) /\ Len(R) = Len(uses)
  BY ONLY <1>2, <1>6, RingTypes, uses \in Seq(Uses)
<1>8. Joined(C1, C, R, n)
  <2>1. C1 = C \o R
    BY ONLY <1>0, <1>6
  <2> QED BY ONLY <1>0, <1>7, <2>1, JoinedElements, C \in Seq(Coedge)
<1>9. FaceRing(C1, L1, F1, f, uses, n)
  <2>1. ASSUME NEW i \in 1..Len(uses)
        PROVE  /\ n + i \in DOMAIN C1
               /\ C1[n + i].edge = uses[i].edge /\ C1[n + i].same = uses[i].same
               /\ C1[n + i].next = n + (IF i = Len(uses) THEN 1 ELSE i + 1)
    <3>1. RingCoedge(R[i], uses, n, l, i)
      BY ONLY <1>2, <1>6, RingElements, uses \in Seq(Uses), i \in 1..Len(uses)
    <3>2. C1[n + i] = R[i] /\ DOMAIN C1 = 1 .. n + Len(uses)
      BY <1>7, <1>8 DEF Joined
    <3>3. n + i \in DOMAIN C1
      BY <1>2, <3>2
    <3> QED BY ONLY <3>1, <3>2, <3>3 DEF RingCoedge
  <2>2. Rung(C1, n + 1, uses, n)
    BY ONLY <2>1 DEF Rung
  <2>3. f \in DOMAIN F1 /\ l \in DOMAIN L1 /\ F1[f].outer = l /\ L1[l].first = n + 1
    BY <1>2, <1>3, <1>4, <1>5
  <2> QED BY ONLY <2>2, <2>3 DEF FaceRing
<1>10. ASSUME NEW g, NEW us, NEW k, FaceRing(C, L, F, g, us, k)
       PROVE  FaceRing(C1, L1, F1, g, us, k)
  <2>1. g \in DOMAIN F1 /\ F1[g] = F[g]
    BY <1>2, <1>5, <1>10 DEF FaceRing
  <2>2. PICK o : o = F[g].outer
    OBVIOUS
  <2>3. o \in DOMAIN L1 /\ L1[o] = L[o]
    BY <1>2, <1>4, <1>10, <2>2 DEF FaceRing
  <2>4. \A c \in DOMAIN C : c \in DOMAIN C1 /\ C1[c] = C[c]
    BY <1>2, <1>7, <1>8 DEF Joined
  <2>5. Rung(C, L[o].first, us, k)
    BY <1>10, <2>2 DEF FaceRing
  <2>6. Rung(C1, L[o].first, us, k)
    BY ONLY <2>4, <2>5 DEF Rung
  <2> QED BY ONLY <2>1, <2>2, <2>3, <2>6 DEF FaceRing
<1>11. Len(C1) = n + Len(uses)
  BY ONLY <1>7, <1>8 DEF Joined
<1>12. RingsKept(C, L, F, C1, L1, F1)
  BY ONLY <1>10 DEF RingsKept
<1> QED BY <1>5, <1>9, <1>11, <1>12

\* The first k faces of shell 1 have the rings U[1], U[2], ...; N[f] coedges are
\* before those of face f.
Faced(m, cu, su, V, E, U, N, k) ==
  \E C, L, F, fs :
    /\ Has(m, cu, su, V, E, C, L, F, <<fs>>, <<>>)
    /\ Whole(cu, su, V, E, C, L, F, <<fs>>, <<>>)
    /\ Len(F) = k /\ Len(C) = N[k + 1] /\ fs \in Seq(Nat)
    /\ \A f \in 1..k : FaceRing(C, L, F, f, U[f], N[f])

\* One face more
LEMMA FacedStep ==
  ASSUME NEW cu \in Nat, NEW su \in Nat, NEW V, NEW E, NEW U, NEW N, NEW k \in Nat,
         NEW m, Faced(m, cu, su, V, E, U, N, k), NEW s \in 1..su,
         NEW uses \in Seq(Uses), uses = U[k + 1], uses # <<>>,
         \A i \in 1..Len(uses) : uses[i].edge \in DOMAIN E,
         N[k + 2] = N[k + 1] + Len(uses)
  PROVE  Faced(AddFace(m, s, uses), cu, su, V, E, U, N, k + 1)
<1>1. PICK C, L, F, fs :
        /\ Has(m, cu, su, V, E, C, L, F, <<fs>>, <<>>)
        /\ Whole(cu, su, V, E, C, L, F, <<fs>>, <<>>)
        /\ Len(F) = k /\ Len(C) = N[k + 1] /\ fs \in Seq(Nat)
        /\ \A f \in 1..k : FaceRing(C, L, F, f, U[f], N[f])
  BY DEF Faced
<1>2. PICK n, f, l : n = Len(C) /\ f = Len(F) + 1 /\ l = Len(L) + 1
  OBVIOUS
<1>3. PICK C1, L1, F1, fs1 :
        /\ C1 = C \o RingOf(uses, n, l)
        /\ L1 = Append(L, LoopOf(f, IF uses = <<>> THEN 0 ELSE n + 1))
        /\ F1 = Append(F, FaceOf(s, l, 1)) /\ fs1 = Append(fs, f)
  OBVIOUS
<1>4. C \in Seq(Coedge) /\ L \in Seq(Loop) /\ F \in Seq(Face) /\ s \in Nat
  <2>1. C \in Seq(Coedge) /\ L \in Seq(Loop) /\ F \in Seq(Face)
    BY <1>1, Zenon DEF Whole
  <2> QED BY <2>1
<1>5. PICK none : none = <<>>
  OBVIOUS
<1>6. Has(AddFace(m, s, uses), cu, su, V, E, C1, L1, F1, <<fs1>>, none)
  <2>1. Has(m, cu, su, V, E, C, L, F, <<fs>>, none)
    BY ONLY <1>1, <1>5
  <2>2. Has(AddFace(m, s, uses), cu, su, V, E, C \o RingOf(uses, n, l),
            Append(L, LoopOf(f, IF uses = <<>> THEN 0 ELSE n + 1)),
            Append(F, FaceOf(s, l, 1)), <<Append(fs, f)>>, none)
    BY ONLY <1>1, <1>2, <1>4, <2>1, MadeAddFace, uses \in Seq(Uses), ZenonT(60)
  <2> QED BY ONLY <1>3, <2>2, Zenon
<1>7. Whole(cu, su, V, E, C1, L1, F1, <<fs1>>, none)
  <2>1. Whole(cu, su, V, E, C, L, F, <<fs>>, none)
    BY ONLY <1>1, <1>5
  <2> QED BY ONLY <1>2, <1>3, <2>1, AddFaceWhole, cu \in Nat, su \in Nat, s \in 1..su,
         uses \in Seq(Uses), \A i \in 1..Len(uses) : uses[i].edge \in DOMAIN E
<1>8. /\ FaceRing(C1, L1, F1, f, uses, n)
      /\ Len(C1) = n + Len(uses) /\ Len(F1) = f
      /\ RingsKept(C, L, F, C1, L1, F1)
  <2>1. L1 = Append(L, LoopOf(f, n + 1))
    BY ONLY <1>3, uses # <<>>
  <2>2. RingAdded(C, L, F, C1, L1, F1, s, uses, n, l, f)
    BY ONLY <1>2, <1>3, <2>1, Zenon DEF RingAdded
  <2> QED BY ONLY <1>4, <2>2, AddFaceRings, uses \in Seq(Uses), uses # <<>>
<1>9. f = k + 1 /\ n = N[f] /\ uses = U[f]
  BY <1>1, <1>2
<1>10. Len(C1) = N[(k + 1) + 1] /\ Len(F1) = k + 1
  <2>1. (k + 1) + 1 = k + 2
    OBVIOUS
  <2> QED BY ONLY <1>8, <1>9, <2>1, N[k + 2] = N[k + 1] + Len(uses)
<1>11. \A g \in 1 .. k + 1 : FaceRing(C1, L1, F1, g, U[g], N[g])
  <2>1. \A g \in 1 .. k + 1 : g \in 1..k \/ g = k + 1
    OBVIOUS
  <2> QED BY ONLY <1>1, <1>8, <1>9, <2>1 DEF RingsKept
<1>12. fs1 \in Seq(Nat)
  <2>1. f \in Nat
    BY ONLY <1>9, k \in Nat
  <2> QED BY ONLY <1>1, <1>3, <2>1
<1> QED BY ONLY <1>5, <1>6, <1>7, <1>10, <1>11, <1>12 DEF Faced

------------------------------------------------------------------------------
(* Rings *)

\* How far around a ring of m coedges k steps lead
Around(k, m) == k % m

\* Around a ring of up to four coedges
LEMMA RoundAndRound ==
  ASSUME NEW m \in 1..4
  PROVE  /\ Around(0, m) = 0
         /\ \A k \in Nat : Around(k, m) \in 0 .. m - 1
         /\ \A k \in Nat \ {0} :
              Around(k, m) = IF Around(k - 1, m) + 1 = m THEN 0 ELSE Around(k - 1, m) + 1
         /\ \A k \in 1..m : /\ Around(k - 1, m) = k - 1
                            /\ Around(k, m) = 0 <=> k = m
<1>1. CASE m = 1
  BY <1>1 DEF Around
<1>2. CASE m = 2
  BY <1>2 DEF Around
<1>3. CASE m = 3
  BY <1>3 DEF Around
<1>4. CASE m = 4
  BY <1>4 DEF Around
<1> QED BY <1>1, <1>2, <1>3, <1>4

\* A sequence of the m numbers behind n
Numbered(r, n, m) == r = [i \in 1..m |-> n + i]

\* Ring() finds the coedges of the ring of a face.
LEMMA RingIs ==
  ASSUME NEW b, NEW f, NEW uses \in Seq(Uses), NEW n \in Nat, NEW m,
         m = Len(uses), m \in 1..4, b.coedges \in Seq(Coedge),
         FaceRing(b.coedges, b.loops, b.faces, f, uses, n)
  PROVE  Numbered(Ring(b, f), n, m)
<1> DEFINE first == b.loops[b.faces[f].outer].first
           len == Len(b.coedges)
           g == [k \in 0..len |-> n + 1 + Around(k, m)]
           Eq(h) == h = [k \in 0..len |->
                           IF k = 0 THEN first ELSE b.coedges[h[k - 1]].next]
           at == CHOOSE h : Eq(h)
<1>1. Rung(b.coedges, first, uses, n)
  BY DEF FaceRing
<1>2. /\ len \in Nat /\ m <= len /\ first = n + 1 /\ DOMAIN b.coedges = 1..len
      /\ \A i \in 1..m : b.coedges[n + i].next = n + (IF i = m THEN 1 ELSE i + 1)
  <2>1. /\ first = n + 1
        /\ \A i \in 1..m : /\ n + i \in DOMAIN b.coedges
                           /\ b.coedges[n + i].next = n + (IF i = m THEN 1 ELSE i + 1)
    BY <1>1 DEF Rung
  <2>2. n + m \in DOMAIN b.coedges
    BY <2>1
  <2> QED BY <2>1, <2>2
<1>3. /\ Around(0, m) = 0
      /\ \A k \in Nat : Around(k, m) \in 0 .. m - 1
      /\ \A k \in Nat \ {0} :
           Around(k, m) = IF Around(k - 1, m) + 1 = m THEN 0 ELSE Around(k - 1, m) + 1
      /\ \A k \in 1..m : Around(k - 1, m) = k - 1 /\ (Around(k, m) = 0 <=> k = m)
  BY ONLY RoundAndRound, m \in 1..4
<1>4. Eq(g)
  <2>1. ASSUME NEW k \in 0..len
        PROVE  g[k] = IF k = 0 THEN first ELSE b.coedges[g[k - 1]].next
    <3>1. CASE k = 0
      <4>1. g[0] = n + 1 + Around(0, m)
        BY <1>2
      <4> HIDE DEF g, first
      <4> QED BY <1>2, <1>3, <3>1, <4>1
    <3>2. CASE k # 0
      <4>1. k \in Nat \ {0} /\ k - 1 \in 0..len /\ k - 1 \in Nat
        BY <3>2
      <4>2. PICK p, q : p = Around(k - 1, m) /\ q = Around(k, m)
        OBVIOUS
      <4>3. p \in 0 .. m - 1 /\ q = IF p + 1 = m THEN 0 ELSE p + 1
        BY ONLY <1>3, <4>1, <4>2
      <4>4. g[k] = n + 1 + q /\ g[k - 1] = n + 1 + p
        BY ONLY <4>1, <4>2, k \in 0..len
      <4>5. b.coedges[n + 1 + p].next = n + (IF p + 1 = m THEN 1 ELSE (p + 1) + 1)
        <5>1. p + 1 \in 1..m /\ n + (p + 1) = n + 1 + p
          BY <4>3
        <5> QED BY ONLY <1>2, <5>1
      <4>6. n + 1 + q = n + (IF p + 1 = m THEN 1 ELSE (p + 1) + 1)
        BY <4>3
      <4> HIDE DEF g, len, first
      <4> QED BY ONLY <3>2, <4>4, <4>5, <4>6
    <3> QED BY <3>1, <3>2
  <2>2. g = [k \in 0..len |-> g[k]]
    OBVIOUS
  <2> HIDE DEF g
  <2> QED BY <2>1, <2>2
<1>5. Eq(at)
  <2> HIDE DEF g, Eq
  <2> QED BY <1>4
<1>6. Ring(b, f) =
        IF first = 0 THEN <<>>
        ELSE LET k == CHOOSE k \in 1..len :
                        at[k] = first /\ \A i \in 1 .. k - 1 : at[i] # first
             IN  [i \in 1..k |-> at[i - 1]]
  BY DEF Ring
<1>7. \A k \in 0..m : at[k] = g[k]
  <2>1. \A h : Eq(h) => \A i \in 0..len :
                 h[i] = IF i = 0 THEN first ELSE b.coedges[h[i - 1]].next
    OBVIOUS
  <2> HIDE DEF g, at, Eq, first, len
  <2>2. ASSUME NEW k \in 0..m PROVE at[k] = g[k]
    <3>1. (\A i \in 1..k : i \in 0..len /\ i # 0) /\ 0 \in 0..len /\ k \in Nat
      BY <1>2
    <3>2. \A h : Eq(h) => /\ h[0] = first
                          /\ \A i \in 1..k : h[i] = b.coedges[h[i - 1]].next
      BY ONLY <2>1, <3>1
    <3>3. Alike(k, at, g)
      BY ONLY <1>4, <1>5, <3>2 DEF Alike
    <3> QED BY ONLY <3>1, <3>3, FoldUnique
  <2> QED BY <2>2
<1>8. \A k \in 1..m : at[k - 1] = n + k /\ (at[k] = first <=> k = m)
  <2>1. ASSUME NEW k \in 1..m
        PROVE  at[k - 1] = n + k /\ (at[k] = first <=> k = m)
    <3>1. /\ Around(k - 1, m) = k - 1 /\ (Around(k, m) = 0 <=> k = m)
          /\ Around(k, m) \in 0 .. m - 1
      <4>1. k \in Nat
        OBVIOUS
      <4> QED BY ONLY <1>3, <4>1, k \in 1..m
    <3>2. at[k] = n + 1 + Around(k, m) /\ at[k - 1] = n + 1 + Around(k - 1, m)
      <4>1. k \in 0..len /\ k - 1 \in 0..len
        BY <1>2
      <4>2. g[k] = n + 1 + Around(k, m) /\ g[k - 1] = n + 1 + Around(k - 1, m)
        BY ONLY <4>1
      <4>3. k \in 0..m /\ k - 1 \in 0..m
        OBVIOUS
      <4> HIDE DEF g, at
      <4> QED BY <1>7, <4>2, <4>3
    <3> HIDE DEF at, first
    <3> QED BY <1>2, <3>1, <3>2
  <2> QED BY <2>1
<1>9. (CHOOSE k \in 1..len : at[k] = first /\ \A i \in 1 .. k - 1 : at[i] # first) = m
  <2> HIDE DEF at, first, len
  <2>1. m \in 1..len /\ at[m] = first /\ \A i \in 1 .. m - 1 : at[i] # first
    BY <1>2, <1>8
  <2>2. ASSUME NEW k \in 1..len, at[k] = first, \A i \in 1 .. k - 1 : at[i] # first
        PROVE  k = m
    <3>1. ~(k > m)
      BY <2>1, <2>2
    <3>2. k \in 1..m
      BY <1>2, <3>1
    <3> QED BY <1>8, <2>2, <3>2
  <2> QED BY <2>1, <2>2
<1>10. Ring(b, f) = [i \in 1..m |-> at[i - 1]]
  <2> HIDE DEF at, first, len
  <2>1. first # 0
    BY <1>2
  <2> QED BY <1>6, <1>9, <2>1
<1> HIDE DEF at
<1> QED BY <1>8, <1>10 DEF Numbered

\* A face without coedges has none.
LEMMA NoRing ==
  ASSUME NEW b, NEW f, b.loops[b.faces[f].outer].first = 0
  PROVE  Ring(b, f) = <<>>
  BY DEF Ring

------------------------------------------------------------------------------
(* Solids *)

\* A body of k faces with the rings U[1], U[2], ..., registered
Finished(b, cu, su, V, E, U, N, k) ==
  \E C, L, F, S :
    /\ Has(b, cu, su, V, E, C, L, F, S, <<1>>)
    /\ Whole(cu, su, V, E, C, L, F, S, <<1>>)
    /\ Len(F) = k /\ Len(C) = N[k + 1]
    /\ \A f \in 1..k : FaceRing(C, L, F, f, U[f], N[f])

\* Before the first face
LEMMA FacedStart ==
  ASSUME NEW cu \in Nat, NEW su \in Nat, NEW V, NEW E, NEW U, NEW N, N[1] = 0,
         \E P : V \in Seq([pos : P, outgoing : Nat]), E \in Seq(Edge),
         VerticesWhole(V, <<>>), EdgesWhole(cu, V, E, <<>>),
         NEW m, Has(m, cu, su, V, E, <<>>, <<>>, <<>>, <<>>, <<>>)
  PROVE  Faced(NewShell(m), cu, su, V, E, U, N, 0)
<1>1. PICK none, S : none = <<>> /\ S = <<none>>
  OBVIOUS
<1>2. Has(NewShell(m), cu, su, V, E, none, none, none, S, none)
  <2>1. Has(m, cu, su, V, E, none, none, none, none, none)
    BY ONLY <1>1, Has(m, cu, su, V, E, <<>>, <<>>, <<>>, <<>>, <<>>)
  <2>2. Has(NewShell(m), cu, su, V, E, none, none, none, Append(none, <<>>), none)
    BY ONLY <2>1, MadeShell
  <2>3. Append(none, <<>>) = S
    BY ONLY <1>1, AppendFirst, Zenon
  <2> QED BY ONLY <2>2, <2>3
<1>3. /\ none \in Seq(Coedge) /\ none \in Seq(Loop) /\ none \in Seq(Face)
      /\ none \in Seq(Nat) /\ DOMAIN none = {} /\ DOMAIN S = {1} /\ S[1] = none
      /\ Len(none) = 0
  BY ONLY <1>1
<1>4. S \in Seq(Seq(Nat))
  <2>1. PICK T : T = Seq(Nat)
    OBVIOUS
  <2>2. S \in Seq(T)
    BY ONLY <1>1, <1>3, <2>1
  <2> QED BY <2>1, <2>2
<1>5. /\ CoedgesWhole(E, none, none) /\ LoopsWhole(none, none, none)
      /\ FacesWhole(su, none, none, S) /\ ShellsWhole(none, S, none)
      /\ RingsWhole(none, none)
  BY ONLY <1>3 DEF CoedgesWhole, LoopsWhole, FacesWhole, ShellsWhole, RingsWhole
<1>6. VerticesWhole(V, none) /\ EdgesWhole(cu, V, E, none)
  BY ONLY <1>1, VerticesWhole(V, <<>>), EdgesWhole(cu, V, E, <<>>)
<1>7. Whole(cu, su, V, E, none, none, none, S, none)
  BY ONLY <1>3, <1>4, <1>5, <1>6, \E P : V \in Seq([pos : P, outgoing : Nat]),
          E \in Seq(Edge), Zenon DEF Whole
<1>8. \A f \in 1..0 : FaceRing(none, none, none, f, U[f], N[f])
  OBVIOUS
<1>9. Len(none) = 0 /\ Len(none) = N[0 + 1]
  BY <1>3
<1> QED BY ONLY <1>1, <1>2, <1>3, <1>7, <1>8, <1>9, Zenon DEF Faced

\* A surface more
LEMMA FacedSurface ==
  ASSUME NEW cu \in Nat, NEW su \in Nat, NEW V, NEW E, NEW U, NEW N, NEW k,
         NEW m, Faced(m, cu, su, V, E, U, N, k)
  PROVE  Faced(AddSurface(m), cu, su + 1, V, E, U, N, k)
<1>1. PICK C, L, F, fs :
        /\ Has(m, cu, su, V, E, C, L, F, <<fs>>, <<>>)
        /\ Whole(cu, su, V, E, C, L, F, <<fs>>, <<>>)
        /\ Len(F) = k /\ Len(C) = N[k + 1] /\ fs \in Seq(Nat)
        /\ \A f \in 1..k : FaceRing(C, L, F, f, U[f], N[f])
  BY DEF Faced
<1>2. PICK none, S, u : none = <<>> /\ S = <<fs>> /\ u = su + 1
  OBVIOUS
<1>3. Has(AddSurface(m), cu, u, V, E, C, L, F, S, none)
  <2>1. Has(m, cu, su, V, E, C, L, F, S, none)
    BY ONLY <1>1, <1>2
  <2>2. Has(AddSurface(m), cu, su + 1, V, E, C, L, F, S, none)
    BY ONLY <2>1, MadeSurface
  <2> QED BY ONLY <1>2, <2>2
<1>4. Whole(cu, u, V, E, C, L, F, S, none)
  <2>1. Whole(cu, su, V, E, C, L, F, S, none)
    BY ONLY <1>1, <1>2
  <2>2. FacesWhole(su, L, F, S)
    BY ONLY <2>1, Zenon DEF Whole
  <2>3. 1..su \subseteq 1..u
    BY <1>2
  <2>4. FacesWhole(u, L, F, S)
    BY ONLY <2>2, <2>3 DEF FacesWhole
  <2> QED BY ONLY <2>1, <2>4, Zenon DEF Whole
<1> QED BY ONLY <1>1, <1>2, <1>3, <1>4, Zenon DEF Faced

\* The last step registers the shell.
LEMMA FacedFinish ==
  ASSUME NEW cu \in Nat, NEW su \in Nat, NEW V, NEW E, NEW U, NEW N, NEW k,
         NEW m, Faced(m, cu, su, V, E, U, N, k)
  PROVE  Finished(Finish(m), cu, su, V, E, U, N, k)
<1>1. PICK C, L, F, fs :
        /\ Has(m, cu, su, V, E, C, L, F, <<fs>>, <<>>)
        /\ Whole(cu, su, V, E, C, L, F, <<fs>>, <<>>)
        /\ Len(F) = k /\ Len(C) = N[k + 1] /\ fs \in Seq(Nat)
        /\ \A f \in 1..k : FaceRing(C, L, F, f, U[f], N[f])
  BY DEF Faced
<1>2. PICK S, one : S = <<fs>> /\ one = <<1>>
  OBVIOUS
<1>3. Has(Finish(m), cu, su, V, E, C, L, F, S, one)
  <2>1. Has(m, cu, su, V, E, C, L, F, S, <<>>)
    BY ONLY <1>1, <1>2
  <2>2. Has(Finish(m), cu, su, V, E, C, L, F, S, <<1>>)
    BY ONLY <2>1, MadeFinish
  <2> QED BY ONLY <1>2, <2>2
<1>4. Whole(cu, su, V, E, C, L, F, S, one)
  <2>1. Whole(cu, su, V, E, C, L, F, S, <<>>)
    BY ONLY <1>1, <1>2
  <2>2. ShellsWhole(F, S, <<>>)
    BY ONLY <2>1, Zenon DEF Whole
  <2>3. DOMAIN S = {1} /\ one \in Seq(Nat) /\ \A i \in DOMAIN one : one[i] = 1
    BY ONLY <1>2
  <2>4. ShellsWhole(F, S, one)
    BY ONLY <2>2, <2>3 DEF ShellsWhole
  <2> QED BY ONLY <2>1, <2>3, <2>4, Zenon DEF Whole
<1> QED BY ONLY <1>1, <1>2, <1>3, <1>4, Zenon DEF Finished

\* Such a body is sound, and clone() copies it exactly.
LEMMA FinishedSound ==
  ASSUME NEW cu \in Nat, NEW su \in Nat, NEW V, NEW E, NEW U, NEW N, NEW k,
         NEW b, Finished(b, cu, su, V, E, U, N, k)
  PROVE  Validate(b) = {} /\ Clone(b) = b
<1>1. PICK C, L, F, S, sl :
        /\ Has(b, cu, su, V, E, C, L, F, S, sl)
        /\ Whole(cu, su, V, E, C, L, F, S, sl)
  BY DEF Finished
<1> QED BY ONLY <1>1, cu \in Nat, su \in Nat, WholeSound, WholeCopied

\* Edge e has two uses, one in each direction: A[e] along its curve, B[e] against.
Paired(E, C, A, B) ==
  /\ \A e \in DOMAIN E :
       /\ A[e] \in DOMAIN C /\ C[A[e]].edge = e /\ C[A[e]].same = TRUE
       /\ B[e] \in DOMAIN C /\ C[B[e]].edge = e /\ C[B[e]].same = FALSE
  /\ \A c \in DOMAIN C : C[c].edge \in DOMAIN E /\ c \in {A[C[c].edge], B[C[c].edge]}

\* The uses of such edges
LEMMA PairedUses ==
  ASSUME NEW A, NEW B, Paired(body.edges, body.coedges, A, B)
  PROVE  \A e \in DOMAIN body.edges :
           /\ UsesOf(e) = {A[e], B[e]}
           /\ Cardinality(UsesOf(e)) = 2
           /\ {body.coedges[c].same : c \in UsesOf(e)} = BOOLEAN
<1> TAKE e \in DOMAIN body.edges
<1>1. PICK a, b : a = A[e] /\ b = B[e]
  OBVIOUS
<1>2. /\ a \in DOMAIN body.coedges /\ body.coedges[a].edge = e
      /\ body.coedges[a].same = TRUE
      /\ b \in DOMAIN body.coedges /\ body.coedges[b].edge = e
      /\ body.coedges[b].same = FALSE
  BY <1>1 DEF Paired
<1>3. UsesOf(e) = {a, b}
  <2>1. \A c \in UsesOf(e) : c \in {a, b}
    BY <1>1 DEF UsesOf, Paired
  <2>2. a \in UsesOf(e) /\ b \in UsesOf(e)
    BY <1>2 DEF UsesOf
  <2> QED BY <2>1, <2>2
<1>4. a # b
  BY <1>2
<1>5. Cardinality({a, b}) = 2
  <2>1. IsFiniteSet({a}) /\ Cardinality({a}) = 1
    BY ONLY FS_Singleton
  <2>2. Cardinality({a} \cup {b}) = Cardinality({a}) + 1
    BY ONLY <1>4, <2>1, FS_AddElement
  <2>3. {a} \cup {b} = {a, b}
    OBVIOUS
  <2> QED BY ONLY <2>1, <2>2, <2>3
<1>6. {body.coedges[c].same : c \in {a, b}} = BOOLEAN
  BY <1>2
<1> QED BY <1>1, <1>3, <1>5, <1>6

\* The vertices a use of an edge leads from and to
UseFrom(E, u) == IF u.same THEN E[u.edge].start ELSE E[u.edge].end
UseTo(E, u) == IF u.same THEN E[u.edge].end ELSE E[u.edge].start

\* Each use of a ring ends where the next starts.
Meets(E, uses) ==
  \A i \in 1..Len(uses) :
    UseTo(E, uses[i]) = UseFrom(E, uses[IF i = Len(uses) THEN 1 ELSE i + 1])

\* The place behind place i of a ring
LEMMA NextPlace ==
  ASSUME NEW m \in 1..4, NEW i \in 1..m
  PROVE  (i % m) + 1 = IF i = m THEN 1 ELSE i + 1
<1>1. CASE m = 1
  BY <1>1
<1>2. CASE m = 2
  BY <1>2
<1>3. CASE m = 3
  BY <1>3
<1>4. CASE m = 4
  BY <1>4
<1> QED BY <1>1, <1>2, <1>3, <1>4

\* The ring of a face with such uses is closed.
LEMMA MeetsRing ==
  ASSUME NEW f, NEW uses \in Seq(Uses), NEW n \in Nat, Len(uses) \in 1..4,
         body.coedges \in Seq(Coedge),
         FaceRing(body.coedges, body.loops, body.faces, f, uses, n),
         Meets(body.edges, uses)
  PROVE  LET ring == Ring(body, f)
         IN  \A i \in DOMAIN ring :
               To(body, ring[i]) = From(body, ring[(i % Len(ring)) + 1])
<1>1. PICK m, r : m = Len(uses) /\ r = Ring(body, f)
  OBVIOUS
<1>2. r = [i \in 1..m |-> n + i]
  BY <1>1, RingIs DEF Numbered
<1>3. m \in 1..4 /\ DOMAIN r = 1..m /\ Len(r) = m
  <2>1. m \in 1..4 /\ m \in Nat
    BY <1>1
  <2>2. r \in Seq(Nat)
    BY <1>2, <2>1
  <2> QED BY ONLY <1>2, <2>1, <2>2
<1>4. ASSUME NEW i \in 1..m
      PROVE  /\ From(body, n + i) = UseFrom(body.edges, uses[i])
             /\ To(body, n + i) = UseTo(body.edges, uses[i])
  <2>1. /\ body.coedges[n + i].edge = uses[i].edge
        /\ body.coedges[n + i].same = uses[i].same
    BY <1>1 DEF FaceRing, Rung
  <2> QED BY ONLY <2>1, Zenon DEF From, To, UseFrom, UseTo
<1>5. ASSUME NEW i \in 1..m
      PROVE  To(body, r[i]) = From(body, r[(i % m) + 1])
  <2>1. PICK j : j = IF i = m THEN 1 ELSE i + 1
    OBVIOUS
  <2>2. j \in 1..m
    BY <1>3, <2>1
  <2>3. (i % m) + 1 = j
    BY ONLY <1>3, <2>1, NextPlace, i \in 1..m
  <2>4. UseTo(body.edges, uses[i]) = UseFrom(body.edges, uses[j])
    BY <1>1, <2>1 DEF Meets
  <2>5. r[i] = n + i /\ r[j] = n + j
    BY <1>2, <2>2
  <2>6. To(body, n + i) = From(body, n + j)
    BY <1>4, <2>2, <2>4
  <2> QED BY ONLY <2>3, <2>5, <2>6
<1> QED BY ONLY <1>1, <1>3, <1>5

\* Uses of a face that meet, behind n coedges
RingFit(E, uses, n) ==
  uses \in Seq(Uses) /\ Len(uses) \in 1..4 /\ Meets(E, uses) /\ n \in Nat

\* The k faces of b have closed rings.
RingsFit(b, U, N, k) ==
  /\ DOMAIN b.faces = 1..k
  /\ \A f \in 1..k : /\ FaceRing(b.coedges, b.loops, b.faces, f, U[f], N[f])
                     /\ RingFit(b.edges, U[f], N[f])

\* What makes a body the boundary of a solid, as SolidBoundary has it
LEMMA BoundaryOf ==
  ASSUME NEW U, NEW N, NEW k, RingsFit(body, U, N, k), NEW A, NEW B,
         Paired(body.edges, body.coedges, A, B), body.coedges \in Seq(Coedge),
         Len(body.vertices) + Len(body.faces) = Len(body.edges) + 2
  PROVE  SolidBoundary
<1>1. \A e \in DOMAIN body.edges :
         /\ Cardinality(UsesOf(e)) = 2
         /\ {body.coedges[c].same : c \in UsesOf(e)} = BOOLEAN
  BY PairedUses
<1>2. ASSUME NEW f \in DOMAIN body.faces
      PROVE  LET ring == Ring(body, f)
             IN  \A i \in DOMAIN ring :
                   To(body, ring[i]) = From(body, ring[(i % Len(ring)) + 1])
  <2>1. PICK uses, n : uses = U[f] /\ n = N[f]
    OBVIOUS
  <2>2. /\ FaceRing(body.coedges, body.loops, body.faces, f, uses, n)
        /\ uses \in Seq(Uses) /\ Len(uses) \in 1..4 /\ n \in Nat
        /\ Meets(body.edges, uses)
    BY <2>1 DEF RingsFit, RingFit
  <2> QED BY ONLY <2>2, MeetsRing, body.coedges \in Seq(Coedge)
<1> QED BY ONLY <1>1, <1>2, Len(body.vertices) + Len(body.faces) = Len(body.edges) + 2
           DEF SolidBoundary

------------------------------------------------------------------------------
(* Cylinders and cones *)

\* Two vertices and the geometry
LEMMA PointsHas ==
  ASSUME NEW cu, NEW su, NEW p, NEW q
  PROVE  Has(NewVertex(NewVertex([EmptyBody EXCEPT !.surfaces = su, !.curves = cu], p), q),
             cu, su, <<VertexOf(p, 0), VertexOf(q, 0)>>,
             <<>>, <<>>, <<>>, <<>>, <<>>, <<>>)
<1>1. PICK b : b = [EmptyBody EXCEPT !.surfaces = su, !.curves = cu]
  OBVIOUS
<1>2. Has(b, cu, su, <<>>, <<>>, <<>>, <<>>, <<>>, <<>>, <<>>)
  <2>1. PICK r, e : r = [EmptyBody EXCEPT !.surfaces = su] /\ e = EmptyBody
    OBVIOUS
  <2>2. Has(r, 0, su, <<>>, <<>>, <<>>, <<>>, <<>>, <<>>, <<>>)
    BY <2>1, EmptyHas, PutSurfaces, Zenon
  <2>3. b = [r EXCEPT !.curves = cu]
    BY <1>1, <2>1
  <2> QED BY <2>2, <2>3, PutCurves, Zenon
<1>3. PICK c : c = NewVertex(b, p)
  OBVIOUS
<1>4. Has(c, cu, su, <<VertexOf(p, 0)>>, <<>>, <<>>, <<>>, <<>>, <<>>, <<>>)
  <2>1. Has(c, cu, su, Append(<<>>, VertexOf(p, 0)), <<>>, <<>>, <<>>, <<>>, <<>>, <<>>)
    BY ONLY <1>2, <1>3, MadeVertex
  <2> QED BY ONLY <2>1, AppendFirst, Zenon
<1>5. Has(NewVertex(c, q), cu, su, <<VertexOf(p, 0), VertexOf(q, 0)>>,
          <<>>, <<>>, <<>>, <<>>, <<>>, <<>>)
  <2>1. Has(NewVertex(c, q), cu, su, Append(<<VertexOf(p, 0)>>, VertexOf(q, 0)),
            <<>>, <<>>, <<>>, <<>>, <<>>, <<>>)
    BY ONLY <1>4, MadeVertex
  <2> QED BY ONLY <2>1, AppendSecond, Zenon
<1> QED BY ONLY <1>1, <1>3, <1>5

\* A third element
LEMMA AppendThird ==
  ASSUME NEW x, NEW y, NEW z
  PROVE  Append(<<x, y>>, z) = <<x, y, z>>
<1>1. PICK T, s : T = {x, y, z} /\ s = <<x, y>>
  OBVIOUS
<1>2. s \in Seq(T) /\ Len(s) = 2 /\ s[1] = x /\ s[2] = y /\ z \in T
  BY <1>1
<1>3. PICK r : r = Append(s, z)
  OBVIOUS
<1>4. r \in Seq(T) /\ Len(r) = 3 /\ r[1] = x /\ r[2] = y /\ r[3] = z
  <2>1. PICK n : n = 3
    OBVIOUS
  <2>2. /\ r \in Seq(T) /\ Len(r) = n /\ r[n] = z
        /\ \A i \in 1 .. n - 1 : r[i] = s[i]
    <3>1. n = Len(s) + 1 /\ s \in Seq(T) /\ z \in T
      BY <1>2, <2>1
    <3> QED BY ONLY <1>3, <3>1, LongerElements
  <2> QED BY ONLY <1>2, <2>1, <2>2
<1>5. r = [i \in 1..3 |-> r[i]]
  BY ONLY <1>4
<1>6. <<x, y, z>> = r
  BY ONLY <1>4, <1>5
<1> QED BY <1>1, <1>3, <1>6

\* Two vertices are whole.
LEMMA TwoVertices ==
  ASSUME NEW p, NEW q, NEW V, V = <<VertexOf(p, 0), VertexOf(q, 0)>>
  PROVE  /\ \E P : V \in Seq([pos : P, outgoing : Nat])
         /\ VerticesWhole(V, <<>>) /\ DOMAIN V = {1, 2} /\ Len(V) = 2
<1>1. PICK T, x, y : /\ T = [pos : {p, q}, outgoing : Nat]
                     /\ x = VertexOf(p, 0) /\ y = VertexOf(q, 0)
  OBVIOUS
<1>2. x \in T /\ y \in T /\ x.outgoing = 0 /\ y.outgoing = 0
  BY <1>1 DEF VertexOf
<1>3. V = <<x, y>>
  BY <1>1
<1>4. V \in Seq(T) /\ Len(V) = 2 /\ DOMAIN V = {1, 2} /\ \A v \in DOMAIN V : V[v] \in {x, y}
  BY ONLY <1>2, <1>3
<1>5. VerticesWhole(V, <<>>)
  BY ONLY <1>2, <1>4 DEF VerticesWhole, NullOrIn
<1> QED BY <1>1, <1>4, <1>5

\* E are n edges between the vertices V, with curves up to cu.
Joins(cu, V, n, E) ==
  /\ E = [e \in 1..n |-> E[e]]
  /\ \A e \in 1..n : \E c \in 1..cu, v, w \in DOMAIN V : E[e] = EdgeOf(c, v, w)

\* Edges between vertices of the body are whole.
LEMMA EdgesMade ==
  ASSUME NEW cu \in Nat, NEW V, DOMAIN V \subseteq Nat, NEW n \in Nat, NEW E,
         Joins(cu, V, n, E)
  PROVE  E \in Seq(Edge) /\ EdgesWhole(cu, V, E, <<>>) /\ DOMAIN E = 1..n /\ Len(E) = n
<1>1. ASSUME NEW e \in 1..n
      PROVE  /\ E[e] \in Edge /\ E[e].curve \in 1..cu /\ E[e].proper = TRUE
             /\ E[e].start \in DOMAIN V /\ E[e].end \in DOMAIN V
             /\ E[e].coedge_a = 0 /\ E[e].coedge_b = 0
  <2>1. PICK c \in 1..cu, v \in DOMAIN V, w \in DOMAIN V : E[e] = EdgeOf(c, v, w)
    BY DEF Joins
  <2>2. c \in Nat /\ v \in Nat /\ w \in Nat
    OBVIOUS
  <2>3. PICK x : x = E[e]
    OBVIOUS
  <2>4. x \in Edge
    BY ONLY <2>1, <2>2, <2>3 DEF EdgeOf, Edge
  <2>5. /\ x.curve = c /\ x.proper = TRUE /\ x.start = v /\ x.end = w
        /\ x.coedge_a = 0 /\ x.coedge_b = 0
    <3>1. x = EdgeOf(c, v, w)
      BY ONLY <2>1, <2>3
    <3> QED BY ONLY <3>1, Zenon DEF EdgeOf
  <2> QED BY <2>3, <2>4, <2>5
<1>2. E \in Seq(Edge) /\ DOMAIN E = 1..n /\ Len(E) = n
  <2>1. \A e \in 1..n : E[e] \in Edge
    BY <1>1
  <2>2. E = [e \in 1..n |-> E[e]]
    BY DEF Joins
  <2> QED BY ONLY <2>1, <2>2, n \in Nat
<1>3. EdgesWhole(cu, V, E, <<>>)
  BY ONLY <1>1, <1>2 DEF EdgesWhole, NullOrIn
<1> QED BY <1>2, <1>3

\* One element more is one more sequence.
LEMMA JoinOne ==
  ASSUME NEW T, NEW s \in Seq(T), NEW x \in T
  PROVE  s \o <<x>> = Append(s, x)
<1>1. PICK r, q, t, n : r = Append(s, x) /\ q = s \o t /\ t = <<x>> /\ n = Len(s)
  OBVIOUS
<1>2. t \in Seq(T) /\ Len(t) = 1 /\ t[1] = x
  BY <1>1
<1>3. /\ q \in Seq(T) /\ Len(q) = n + 1 /\ n \in Nat
      /\ (\A i \in 1..n : q[i] = s[i]) /\ q[n + 1] = x
  <2>1. q \in Seq(T) /\ Joined(q, s, t, n)
    BY ONLY <1>1, <1>2, JoinedElements, s \in Seq(T)
  <2> QED BY ONLY <1>2, <2>1 DEF Joined
<1>4. /\ r \in Seq(T) /\ Len(r) = n + 1
      /\ (\A i \in 1..n : r[i] = s[i]) /\ r[n + 1] = x
  BY <1>1
<1>5. \A i \in 1 .. n + 1 : i \in 1..n \/ i = n + 1
  BY <1>3
<1>6. \A i \in 1 .. n + 1 : q[i] = r[i]
  BY ONLY <1>3, <1>4, <1>5
<1>7. q = [i \in 1 .. n + 1 |-> q[i]] /\ r = [i \in 1 .. n + 1 |-> r[i]]
  BY ONLY <1>3, <1>4
<1>8. q = r
  BY ONLY <1>6, <1>7
<1> QED BY <1>1, <1>8

\* Three elements and a fourth
LEMMA AppendFourth ==
  ASSUME NEW x, NEW y, NEW z, NEW w
  PROVE  Append(<<x, y, z>>, w) = <<x, y, z, w>>
<1>1. PICK T, s : T = {x, y, z, w} /\ s = <<x, y, z>>
  OBVIOUS
<1>2. s \in Seq(T) /\ Len(s) = 3 /\ s[1] = x /\ s[2] = y /\ s[3] = z /\ w \in T
  BY <1>1
<1>3. PICK r, n : r = Append(s, w) /\ n = 4
  OBVIOUS
<1>4. /\ r \in Seq(T) /\ Len(r) = n /\ r[n] = w
      /\ \A i \in 1 .. n - 1 : r[i] = s[i]
  <2>1. n = Len(s) + 1 /\ s \in Seq(T) /\ w \in T
    BY <1>2, <1>3
  <2> QED BY ONLY <1>3, <2>1, LongerElements
<1>5. r = [i \in 1..4 |-> r[i]] /\ r[1] = x /\ r[2] = y /\ r[3] = z /\ r[4] = w
  <2>1. \A i \in 1..3 : r[i] = s[i]
    BY ONLY <1>3, <1>4
  <2>2. r[1] = s[1] /\ r[2] = s[2] /\ r[3] = s[3]
    BY ONLY <2>1
  <2>3. r = [i \in 1..4 |-> r[i]]
    <3>1. r \in Seq(T) /\ Len(r) = 4
      BY ONLY <1>3, <1>4
    <3> QED BY ONLY <3>1
  <2> QED BY ONLY <1>2, <1>3, <1>4, <2>2, <2>3
<1>6. <<x, y, z, w>> = r
  BY ONLY <1>5
<1> QED BY <1>1, <1>3, <1>6

\* The uses of the lateral face
LEMMA SideUsesAre ==
  /\ SideUses(TRUE, TRUE) = <<Use(1, TRUE), Use(3, TRUE), Use(2, FALSE), Use(3, FALSE)>>
  /\ SideUses(TRUE, FALSE) = <<Use(1, TRUE), Use(2, TRUE), Use(2, FALSE)>>
  /\ SideUses(FALSE, TRUE) = <<Use(2, TRUE), Use(1, FALSE), Use(2, FALSE)>>
  /\ SideUses(FALSE, FALSE) = <<Use(1, TRUE), Use(1, FALSE)>>
<1>1. \A x, y, z, w : <<x>> \o <<y>> \o <<z>> \o <<w>> = <<x, y, z, w>>
  <2> TAKE x, y, z, w
  <2>1. PICK T : T = {x, y, z, w}
    OBVIOUS
  <2>2. PICK s1, s2, s3 : s1 = <<x>> /\ s2 = <<x, y>> /\ s3 = <<x, y, z>>
    OBVIOUS
  <2>3. /\ x \in T /\ y \in T /\ z \in T /\ w \in T
        /\ s1 \in Seq(T) /\ s2 \in Seq(T) /\ s3 \in Seq(T)
    BY <2>1, <2>2
  <2>4. s1 \o <<y>> = s2
    BY ONLY <2>2, <2>3, JoinOne, AppendSecond
  <2>5. s2 \o <<z>> = s3
    BY ONLY <2>2, <2>3, JoinOne, AppendThird
  <2>6. s3 \o <<w>> = <<x, y, z, w>>
    BY ONLY <2>2, <2>3, JoinOne, AppendFourth, ZenonT(60)
  <2> QED BY ONLY <2>2, <2>4, <2>5, <2>6
<1>2. \A x, y, z : /\ <<x>> \o <<y>> \o <<>> \o <<z>> = <<x, y, z>>
                   /\ <<>> \o <<x>> \o <<y>> \o <<z>> = <<x, y, z>>
  <2> TAKE x, y, z
  <2>1. PICK T : T = {x, y, z}
    OBVIOUS
  <2>2. PICK s0, s1, s2 : s0 = <<>> /\ s1 = <<x>> /\ s2 = <<x, y>>
    OBVIOUS
  <2>3. /\ x \in T /\ y \in T /\ z \in T
        /\ s0 \in Seq(T) /\ s1 \in Seq(T) /\ s2 \in Seq(T)
    BY <2>1, <2>2
  <2>4. s1 \o <<y>> = s2 /\ s0 \o s1 = s1 /\ s2 \o s0 = s2
    <3>1. s0 \o s1 = s1 /\ s2 \o s0 = s2
      BY ONLY <2>2, <2>3
    <3> QED BY ONLY <2>2, <2>3, <3>1, JoinOne, AppendSecond
  <2>5. s2 \o <<z>> = <<x, y, z>>
    BY ONLY <2>2, <2>3, JoinOne, AppendThird
  <2> QED BY ONLY <2>2, <2>4, <2>5
<1>3. \A x, y : <<>> \o <<x>> \o <<>> \o <<y>> = <<x, y>>
  <2> TAKE x, y
  <2>1. PICK T : T = {x, y}
    OBVIOUS
  <2>2. PICK s0, s1 : s0 = <<>> /\ s1 = <<x>>
    OBVIOUS
  <2>3. x \in T /\ y \in T /\ s0 \in Seq(T) /\ s1 \in Seq(T)
    BY <2>1, <2>2
  <2>4. s1 \o <<y>> = <<x, y>> /\ s0 \o s1 = s1 /\ s1 \o s0 = s1
    <3>1. s0 \o s1 = s1 /\ s1 \o s0 = s1
      BY ONLY <2>2, <2>3
    <3> QED BY ONLY <2>2, <2>3, <3>1, JoinOne, AppendSecond
  <2> QED BY ONLY <2>2, <2>4
<1>4. /\ Caps(TRUE, TRUE) = 2 /\ Caps(TRUE, FALSE) = 1
      /\ Caps(FALSE, TRUE) = 1 /\ Caps(FALSE, FALSE) = 0
  BY DEF Caps
<1>5. 2 + 1 = 3 /\ 1 + 1 = 2 /\ 0 + 1 = 1 /\ 3 - 1 = 2 /\ 2 - 1 = 1
  OBVIOUS
<1>6. SideUses(TRUE, TRUE) = <<Use(1, TRUE), Use(3, TRUE), Use(2, FALSE), Use(3, FALSE)>>
  <2>1. SideUses(TRUE, TRUE) =
          <<Use(1, TRUE)>> \o <<Use(3, TRUE)>> \o <<Use(2, FALSE)>> \o <<Use(3, FALSE)>>
    BY ONLY <1>4, <1>5 DEF SideUses
  <2> QED BY ONLY <1>1, <2>1, Zenon
<1>7. SideUses(TRUE, FALSE) = <<Use(1, TRUE), Use(2, TRUE), Use(2, FALSE)>>
  <2>1. SideUses(TRUE, FALSE) =
          <<Use(1, TRUE)>> \o <<Use(2, TRUE)>> \o <<>> \o <<Use(2, FALSE)>>
    BY ONLY <1>4, <1>5 DEF SideUses
  <2>2. \A x, y, z : <<x>> \o <<y>> \o <<>> \o <<z>> = <<x, y, z>>
    BY ONLY <1>2
  <2> QED BY ONLY <2>1, <2>2, Zenon
<1>8. SideUses(FALSE, TRUE) = <<Use(2, TRUE), Use(1, FALSE), Use(2, FALSE)>>
  <2>1. SideUses(FALSE, TRUE) =
          <<>> \o <<Use(2, TRUE)>> \o <<Use(1, FALSE)>> \o <<Use(2, FALSE)>>
    BY ONLY <1>4, <1>5 DEF SideUses
  <2>2. \A x, y, z : <<>> \o <<x>> \o <<y>> \o <<z>> = <<x, y, z>>
    BY ONLY <1>2
  <2> QED BY ONLY <2>1, <2>2, Zenon
<1>9. SideUses(FALSE, FALSE) = <<Use(1, TRUE), Use(1, FALSE)>>
  BY ONLY <1>3, <1>4, <1>5 DEF SideUses
<1> QED BY <1>6, <1>7, <1>8, <1>9

\* The edges of a cylinder, a cone with its tip at the top or at the bottom, and
\* the seam alone
SeamedEdges(bottom, top) ==
  IF bottom /\ top THEN <<EdgeOf(1, 1, 1), EdgeOf(2, 2, 2), EdgeOf(3, 1, 2)>>
  ELSE IF bottom THEN <<EdgeOf(1, 1, 1), EdgeOf(2, 1, 2)>>
  ELSE IF top THEN <<EdgeOf(1, 2, 2), EdgeOf(2, 1, 2)>>
  ELSE <<EdgeOf(1, 1, 2)>>

\* The body before its first face
LEMMA SeamedHas ==
  ASSUME NEW p, NEW q, NEW bottom \in BOOLEAN, NEW top \in BOOLEAN, NEW n,
         n = Caps(bottom, top) + 1
  PROVE  Has(Seamed(p, q, bottom, top), n, n, <<VertexOf(p, 0), VertexOf(q, 0)>>,
             SeamedEdges(bottom, top), <<>>, <<>>, <<>>, <<>>, <<>>)
<1>1. PICK V, m : /\ V = <<VertexOf(p, 0), VertexOf(q, 0)>>
                  /\ m = NewVertex(NewVertex(
                           [EmptyBody EXCEPT !.surfaces = n, !.curves = n], p), q)
  OBVIOUS
<1>2. Has(m, n, n, V, <<>>, <<>>, <<>>, <<>>, <<>>, <<>>)
  BY <1>1, PointsHas
<1>4. \A x, y, z : /\ Append(<<>>, x) = <<x>> /\ Append(<<x>>, y) = <<x, y>>
                   /\ Append(<<x, y>>, z) = <<x, y, z>>
  BY AppendFirst, AppendSecond, AppendThird
<1>5. ASSUME NEW b, NEW E, Has(b, n, n, V, E, <<>>, <<>>, <<>>, <<>>, <<>>),
             NEW c, NEW v, NEW w, NEW r, r = NewEdge(b, c, v, w, TRUE),
             NEW E1, E1 = Append(E, EdgeOf(c, v, w))
      PROVE  Has(r, n, n, V, E1, <<>>, <<>>, <<>>, <<>>, <<>>)
  BY ONLY <1>5, MadeEdge
<1>6. PICK x, y : x = Append(<<>>, EdgeOf(1, 1, 1)) /\ y = Append(<<>>, EdgeOf(1, 2, 2))
  OBVIOUS
<1>7. PICK mx, my : mx = NewEdge(m, 1, 1, 1, TRUE) /\ my = NewEdge(m, 1, 2, 2, TRUE)
  OBVIOUS
<1>8. /\ Has(mx, n, n, V, x, <<>>, <<>>, <<>>, <<>>, <<>>)
      /\ Has(my, n, n, V, y, <<>>, <<>>, <<>>, <<>>, <<>>)
  BY ONLY <1>2, <1>5, <1>6, <1>7
<1>9. CASE bottom = TRUE /\ top = TRUE
  <2>1. PICK xy, r : xy = Append(x, EdgeOf(2, 2, 2)) /\ r = NewEdge(mx, 2, 2, 2, TRUE)
    OBVIOUS
  <2>2. Has(r, n, n, V, xy, <<>>, <<>>, <<>>, <<>>, <<>>)
    BY ONLY <1>5, <1>8, <2>1
  <2>3. PICK E, s : E = Append(xy, EdgeOf(3, 1, 2)) /\ s = NewEdge(r, 3, 1, 2, TRUE)
    OBVIOUS
  <2>4. Has(s, n, n, V, E, <<>>, <<>>, <<>>, <<>>, <<>>)
    BY ONLY <1>5, <2>2, <2>3
  <2>5. E = SeamedEdges(bottom, top)
    <3>1. x = <<EdgeOf(1, 1, 1)>>
      BY ONLY <1>4, <1>6, Zenon
    <3>2. xy = <<EdgeOf(1, 1, 1), EdgeOf(2, 2, 2)>>
      BY ONLY <1>4, <2>1, <3>1, Zenon
    <3>3. E = <<EdgeOf(1, 1, 1), EdgeOf(2, 2, 2), EdgeOf(3, 1, 2)>>
      BY ONLY <1>4, <2>3, <3>2, Zenon
    <3> QED BY ONLY <1>9, <3>3 DEF SeamedEdges
  <2>6. n = 3 /\ n - 1 = 2
    BY ONLY <1>9, n = Caps(bottom, top) + 1 DEF Caps
  <2>7. s = Seamed(p, q, bottom, top)
    BY ONLY <1>1, <1>7, <1>9, <2>1, <2>3, <2>6, n = Caps(bottom, top) + 1 DEF Seamed
  <2> QED BY ONLY <1>1, <2>4, <2>5, <2>7
<1>10. CASE bottom = TRUE /\ top = FALSE
  <2>1. PICK E, s : E = Append(x, EdgeOf(2, 1, 2)) /\ s = NewEdge(mx, 2, 1, 2, TRUE)
    OBVIOUS
  <2>2. Has(s, n, n, V, E, <<>>, <<>>, <<>>, <<>>, <<>>)
    BY ONLY <1>5, <1>8, <2>1
  <2>3. E = SeamedEdges(bottom, top)
    BY ONLY <1>4, <1>6, <1>10, <2>1 DEF SeamedEdges
  <2>4. n = 2 /\ n - 1 = 1
    BY ONLY <1>10, n = Caps(bottom, top) + 1 DEF Caps
  <2>5. s = Seamed(p, q, bottom, top)
    BY ONLY <1>1, <1>7, <1>10, <2>1, <2>4, n = Caps(bottom, top) + 1 DEF Seamed
  <2> QED BY ONLY <1>1, <2>2, <2>3, <2>5
<1>11. CASE bottom = FALSE /\ top = TRUE
  <2>1. PICK E, s : E = Append(y, EdgeOf(2, 1, 2)) /\ s = NewEdge(my, 2, 1, 2, TRUE)
    OBVIOUS
  <2>2. Has(s, n, n, V, E, <<>>, <<>>, <<>>, <<>>, <<>>)
    BY ONLY <1>5, <1>8, <2>1
  <2>3. E = SeamedEdges(bottom, top)
    BY ONLY <1>4, <1>6, <1>11, <2>1 DEF SeamedEdges
  <2>4. n = 2 /\ n - 1 = 1
    BY ONLY <1>11, n = Caps(bottom, top) + 1 DEF Caps
  <2>5. s = Seamed(p, q, bottom, top)
    BY ONLY <1>1, <1>7, <1>11, <2>1, <2>4, n = Caps(bottom, top) + 1 DEF Seamed
  <2> QED BY ONLY <1>1, <2>2, <2>3, <2>5
<1>12. CASE bottom = FALSE /\ top = FALSE
  <2>1. PICK E, s : E = Append(<<>>, EdgeOf(1, 1, 2)) /\ s = NewEdge(m, 1, 1, 2, TRUE)
    OBVIOUS
  <2>2. Has(s, n, n, V, E, <<>>, <<>>, <<>>, <<>>, <<>>)
    BY ONLY <1>2, <1>5, <2>1
  <2>3. E = SeamedEdges(bottom, top)
    BY ONLY <1>4, <1>12, <2>1 DEF SeamedEdges
  <2>4. n = 1
    BY ONLY <1>12, n = Caps(bottom, top) + 1 DEF Caps
  <2>5. s = Seamed(p, q, bottom, top)
    BY ONLY <1>1, <1>12, <2>1, <2>4, n = Caps(bottom, top) + 1 DEF Seamed
  <2> QED BY ONLY <1>1, <2>2, <2>3, <2>5
<1> QED BY <1>9, <1>10, <1>11, <1>12

\* Its edges join its vertices.
LEMMA SeamedWhole ==
  ASSUME NEW bottom \in BOOLEAN, NEW top \in BOOLEAN, NEW n, n = Caps(bottom, top) + 1,
         NEW V, DOMAIN V = {1, 2}
  PROVE  LET E == SeamedEdges(bottom, top)
         IN  /\ n \in 1..3 /\ E \in Seq(Edge) /\ EdgesWhole(n, V, E, <<>>)
             /\ DOMAIN E = 1..n /\ Len(E) = n
<1>1. PICK E : E = SeamedEdges(bottom, top)
  OBVIOUS
<1>2. n \in 1..3
  BY DEF Caps
<1>3. E = [e \in 1..n |-> E[e]]
  <2>1. CASE bottom /\ top
    BY ONLY <1>1, <2>1, n = Caps(bottom, top) + 1 DEF Caps, SeamedEdges
  <2>2. CASE bottom /\ ~top
    BY ONLY <1>1, <2>2, n = Caps(bottom, top) + 1 DEF Caps, SeamedEdges
  <2>3. CASE ~bottom /\ top
    BY ONLY <1>1, <2>3, n = Caps(bottom, top) + 1 DEF Caps, SeamedEdges
  <2>4. CASE ~bottom /\ ~top
    BY ONLY <1>1, <2>4, n = Caps(bottom, top) + 1 DEF Caps, SeamedEdges
  <2> QED BY ONLY <2>1, <2>2, <2>3, <2>4
<1>4. \A e \in 1..n : \E c \in 1..n, v, w \in DOMAIN V : E[e] = EdgeOf(c, v, w)
  <2>1. CASE bottom /\ top
    <3>1. n = 3 /\ E[1] = EdgeOf(1, 1, 1) /\ E[2] = EdgeOf(2, 2, 2) /\ E[3] = EdgeOf(3, 1, 2)
      BY ONLY <1>1, <2>1, n = Caps(bottom, top) + 1 DEF Caps, SeamedEdges
    <3> QED BY ONLY <3>1, DOMAIN V = {1, 2}
  <2>2. CASE bottom /\ ~top
    <3>1. n = 2 /\ E[1] = EdgeOf(1, 1, 1) /\ E[2] = EdgeOf(2, 1, 2)
      BY ONLY <1>1, <2>2, n = Caps(bottom, top) + 1 DEF Caps, SeamedEdges
    <3> QED BY ONLY <3>1, DOMAIN V = {1, 2}
  <2>3. CASE ~bottom /\ top
    <3>1. n = 2 /\ E[1] = EdgeOf(1, 2, 2) /\ E[2] = EdgeOf(2, 1, 2)
      BY ONLY <1>1, <2>3, n = Caps(bottom, top) + 1 DEF Caps, SeamedEdges
    <3> QED BY ONLY <3>1, DOMAIN V = {1, 2}
  <2>4. CASE ~bottom /\ ~top
    <3>1. n = 1 /\ E[1] = EdgeOf(1, 1, 2)
      BY ONLY <1>1, <2>4, n = Caps(bottom, top) + 1 DEF Caps, SeamedEdges
    <3> QED BY ONLY <3>1, DOMAIN V = {1, 2}
  <2> QED BY ONLY <2>1, <2>2, <2>3, <2>4
<1>5. n \in Nat /\ DOMAIN V \subseteq Nat
  BY <1>2
<1>6. E \in Seq(Edge) /\ EdgesWhole(n, V, E, <<>>) /\ DOMAIN E = 1..n /\ Len(E) = n
  <2>1. Joins(n, V, n, E)
    BY ONLY <1>3, <1>4 DEF Joins
  <2> QED BY ONLY <1>5, <2>1, EdgesMade
<1> QED BY ONLY <1>1, <1>2, <1>6

\* The rings of the faces, and how many coedges are before each
RevolveUses(bottom, top) ==
  IF bottom /\ top THEN <<SideUses(TRUE, TRUE), <<Use(1, FALSE)>>, <<Use(2, TRUE)>>>>
  ELSE IF bottom THEN <<SideUses(TRUE, FALSE), <<Use(1, FALSE)>>>>
  ELSE IF top THEN <<SideUses(FALSE, TRUE), <<Use(1, TRUE)>>>>
  ELSE <<SideUses(FALSE, FALSE)>>
RevolveCounts(bottom, top) ==
  IF bottom /\ top THEN <<0, 4, 5, 6>>
  ELSE IF bottom \/ top THEN <<0, 3, 4>>
  ELSE <<0, 2>>

\* Uses of the first n edges
UsesUpTo(n, m) == {u \in Seq([edge : 1..n, same : BOOLEAN]) : Len(u) = m}

\* The length and the edges of each ring
LEMMA RingLengths ==
  /\ SideUses(TRUE, TRUE) \in UsesUpTo(3, 4)
  /\ SideUses(TRUE, FALSE) \in UsesUpTo(2, 3) /\ SideUses(FALSE, TRUE) \in UsesUpTo(2, 3)
  /\ SideUses(FALSE, FALSE) \in UsesUpTo(1, 2)
  /\ \A n \in 1..3 : \A e \in 1..n, s \in BOOLEAN : <<Use(e, s)>> \in UsesUpTo(n, 1)
<1>1. \A n \in 1..3 : \A e \in 1..n, s \in BOOLEAN : Use(e, s) \in [edge : 1..n, same : BOOLEAN]
  BY DEF Use
<1>2. \A T, x, y, z, w : x \in T /\ y \in T /\ z \in T /\ w \in T =>
        /\ <<x>> \in Seq(T) /\ <<x, y>> \in Seq(T)
        /\ <<x, y, z>> \in Seq(T) /\ <<x, y, z, w>> \in Seq(T)
  OBVIOUS
<1>3. SideUses(TRUE, TRUE) \in UsesUpTo(3, 4)
  <2>1. PICK T, x, y, z, w :
          /\ T = [edge : 1..3, same : BOOLEAN]
          /\ x = Use(1, TRUE) /\ y = Use(3, TRUE) /\ z = Use(2, FALSE) /\ w = Use(3, FALSE)
    OBVIOUS
  <2>2. x \in T /\ y \in T /\ z \in T /\ w \in T
    BY ONLY <2>1 DEF Use
  <2>3. <<x, y, z, w>> \in Seq(T) /\ Len(<<x, y, z, w>>) = 4
    BY ONLY <2>2
  <2>4. SideUses(TRUE, TRUE) = <<x, y, z, w>>
    BY ONLY <2>1, SideUsesAre
  <2> QED BY ONLY <2>1, <2>3, <2>4 DEF UsesUpTo
<1>4. SideUses(TRUE, FALSE) \in UsesUpTo(2, 3)
  <2>1. PICK T, x, y, z :
          /\ T = [edge : 1..2, same : BOOLEAN]
          /\ x = Use(1, TRUE) /\ y = Use(2, TRUE) /\ z = Use(2, FALSE)
    OBVIOUS
  <2>2. x \in T /\ y \in T /\ z \in T
    BY ONLY <2>1 DEF Use
  <2>3. <<x, y, z>> \in Seq(T) /\ Len(<<x, y, z>>) = 3
    BY ONLY <2>2
  <2>4. SideUses(TRUE, FALSE) = <<x, y, z>>
    BY ONLY <2>1, SideUsesAre
  <2> QED BY ONLY <2>1, <2>3, <2>4 DEF UsesUpTo
<1>5. SideUses(FALSE, TRUE) \in UsesUpTo(2, 3)
  <2>1. PICK T, x, y, z :
          /\ T = [edge : 1..2, same : BOOLEAN]
          /\ x = Use(2, TRUE) /\ y = Use(1, FALSE) /\ z = Use(2, FALSE)
    OBVIOUS
  <2>2. x \in T /\ y \in T /\ z \in T
    BY ONLY <2>1 DEF Use
  <2>3. <<x, y, z>> \in Seq(T) /\ Len(<<x, y, z>>) = 3
    BY ONLY <2>2
  <2>4. SideUses(FALSE, TRUE) = <<x, y, z>>
    BY ONLY <2>1, SideUsesAre
  <2> QED BY ONLY <2>1, <2>3, <2>4 DEF UsesUpTo
<1>6. SideUses(FALSE, FALSE) \in UsesUpTo(1, 2)
  <2>1. PICK T, x, y : /\ T = [edge : 1..1, same : BOOLEAN]
                       /\ x = Use(1, TRUE) /\ y = Use(1, FALSE)
    OBVIOUS
  <2>2. x \in T /\ y \in T
    BY ONLY <2>1 DEF Use
  <2>3. <<x, y>> \in Seq(T) /\ Len(<<x, y>>) = 2
    BY ONLY <2>2
  <2>4. SideUses(FALSE, FALSE) = <<x, y>>
    BY ONLY <2>1, SideUsesAre
  <2> QED BY ONLY <2>1, <2>3, <2>4 DEF UsesUpTo
<1>7. ASSUME NEW n \in 1..3, NEW e \in 1..n, NEW s \in BOOLEAN
      PROVE  <<Use(e, s)>> \in UsesUpTo(n, 1)
  <2>1. PICK T, x : T = [edge : 1..n, same : BOOLEAN] /\ x = Use(e, s)
    OBVIOUS
  <2>2. x \in T
    BY ONLY <1>1, <2>1, n \in 1..3, e \in 1..n, s \in BOOLEAN
  <2>3. <<x>> \in Seq(T) /\ Len(<<x>>) = 1
    BY ONLY <2>2
  <2> QED BY ONLY <2>1, <2>3 DEF UsesUpTo
<1> QED BY <1>3, <1>4, <1>5, <1>6, <1>7

\* r is m with face j more, of these uses.
NextFace(n, E, U, N, m, k, r, j, s, uses, len) ==
  /\ n \in Nat /\ DOMAIN E = 1..n /\ k \in Nat /\ j = k + 1 /\ s \in 1..n
  /\ len \in Nat \ {0} /\ uses \in UsesUpTo(n, len) /\ uses = U[j]
  /\ N[j + 1] = N[j] + len /\ r = AddFace(m, s, uses)

\* Then there is a ring more.
LEMMA FacedRing ==
  ASSUME NEW n, NEW V, NEW E, NEW U, NEW N, NEW k, NEW m, NEW s, NEW uses, NEW r,
         NEW len, NEW j, Faced(m, n, n, V, E, U, N, k),
         NextFace(n, E, U, N, m, k, r, j, s, uses, len)
  PROVE  Faced(r, n, n, V, E, U, N, j)
<1>0. /\ n \in Nat /\ DOMAIN E = 1..n /\ k \in Nat /\ j = k + 1 /\ s \in 1..n
      /\ len \in Nat \ {0} /\ uses \in UsesUpTo(n, len) /\ uses = U[j]
      /\ N[j + 1] = N[j] + len /\ r = AddFace(m, s, uses)
  BY Zenon DEF NextFace
<1>1. uses \in Seq(Uses) /\ Len(uses) = len /\ uses # <<>>
  <2>1. [edge : 1..n, same : BOOLEAN] \subseteq Uses
    BY <1>0 DEF Uses
  <2>2. PICK T : T = [edge : 1..n, same : BOOLEAN]
    OBVIOUS
  <2>3. uses \in Seq(T) /\ Len(uses) = len /\ T \subseteq Uses
    BY <1>0, <2>1, <2>2 DEF UsesUpTo
  <2> QED BY ONLY <1>0, <2>3
<1>2. \A i \in 1..Len(uses) : uses[i].edge \in DOMAIN E
  <2>1. PICK T : T = [edge : 1..n, same : BOOLEAN]
    OBVIOUS
  <2>2. uses \in Seq(T)
    BY <1>0, <2>1 DEF UsesUpTo
  <2>3. \A i \in 1..Len(uses) : uses[i] \in T
    BY ONLY <2>2
  <2> QED BY <1>0, <2>1, <2>3
<1>3. N[k + 2] = N[k + 1] + Len(uses) /\ uses = U[k + 1]
  <2>1. k + 2 = j + 1
    BY <1>0
  <2> QED BY ONLY <1>0, <1>1, <2>1
<1>4. Faced(AddFace(m, s, uses), n, n, V, E, U, N, k + 1)
  BY ONLY <1>0, <1>1, <1>2, <1>3, FacedStep, Faced(m, n, n, V, E, U, N, k)
<1> QED BY <1>0, <1>4

\* A cylinder or a cone, finished
LEMMA RevolveFinished ==
  ASSUME NEW p, NEW q, NEW bottom \in BOOLEAN, NEW top \in BOOLEAN, NEW n,
         n = Caps(bottom, top) + 1
  PROVE  Finished(Revolve(p, q, bottom, top), n, n, <<VertexOf(p, 0), VertexOf(q, 0)>>,
                  SeamedEdges(bottom, top), RevolveUses(bottom, top),
                  RevolveCounts(bottom, top), n)
<1>1. PICK V, E, U, N, m, side, under, over :
        /\ V = <<VertexOf(p, 0), VertexOf(q, 0)>> /\ E = SeamedEdges(bottom, top)
        /\ U = RevolveUses(bottom, top) /\ N = RevolveCounts(bottom, top)
        /\ m = NewShell(Seamed(p, q, bottom, top))
        /\ side = AddFace(m, 1, SideUses(bottom, top))
        /\ under = IF bottom THEN AddFace(side, 2, <<Use(1, FALSE)>>) ELSE side
        /\ over = IF top THEN AddFace(under, n, <<Use(n - 1, TRUE)>>) ELSE under
  BY ZenonT(60)
<1>2. Revolve(p, q, bottom, top) = Finish(over)
  BY ONLY <1>1, n = Caps(bottom, top) + 1 DEF Revolve
<1>3. /\ \E P : V \in Seq([pos : P, outgoing : Nat])
      /\ VerticesWhole(V, <<>>) /\ DOMAIN V = {1, 2}
  BY ONLY <1>1, TwoVertices
<1>4. n \in 1..3 /\ E \in Seq(Edge) /\ EdgesWhole(n, V, E, <<>>) /\ DOMAIN E = 1..n
  BY ONLY <1>1, <1>3, SeamedWhole, n = Caps(bottom, top) + 1, bottom \in BOOLEAN,
          top \in BOOLEAN
<1>5. N[1] = 0 /\ n \in Nat
  BY <1>1, <1>4 DEF RevolveCounts
<1>6. Faced(m, n, n, V, E, U, N, 0)
  <2>1. PICK b : b = Seamed(p, q, bottom, top)
    OBVIOUS
  <2>2. Has(b, n, n, V, E, <<>>, <<>>, <<>>, <<>>, <<>>)
    BY ONLY <1>1, <2>1, SeamedHas, n = Caps(bottom, top) + 1, bottom \in BOOLEAN,
            top \in BOOLEAN
  <2>3. Faced(NewShell(b), n, n, V, E, U, N, 0)
    BY ONLY <1>3, <1>4, <1>5, <2>2, FacedStart
  <2> QED BY ONLY <1>1, <2>1, <2>3
<1>7. Faced(over, n, n, V, E, U, N, n)
  <2>1. CASE bottom = TRUE /\ top = TRUE
    <3>1. n = 3
      BY ONLY <2>1, n = Caps(bottom, top) + 1 DEF Caps
    <3>2. PICK u1, u2, u3 : /\ u1 = SideUses(TRUE, TRUE)
                            /\ u2 = <<Use(1, FALSE)>> /\ u3 = <<Use(2, TRUE)>>
      OBVIOUS
    <3>3. /\ U[1] = u1 /\ U[2] = u2 /\ U[3] = u3
          /\ N[1] = 0 /\ N[2] = 4 /\ N[3] = 5 /\ N[4] = 6
      BY ONLY <1>1, <2>1, <3>2 DEF RevolveUses, RevolveCounts
    <3>4. u1 \in UsesUpTo(n, 4) /\ u2 \in UsesUpTo(n, 1) /\ u3 \in UsesUpTo(n, 1)
      <4>1. /\ n \in 1..3 /\ 1 \in 1..n /\ (n = 3 => 2 \in 1..n)
            /\ TRUE \in BOOLEAN /\ FALSE \in BOOLEAN
        BY ONLY <3>1
      <4> QED BY ONLY <3>1, <3>2, <4>1, RingLengths
    <3>5. /\ side = AddFace(m, 1, u1) /\ under = AddFace(side, 2, u2)
          /\ over = AddFace(under, 3, u3)
      BY ONLY <1>1, <2>1, <3>1, <3>2
    <3>6. Faced(side, n, n, V, E, U, N, 1)
      <4>1. NextFace(n, E, U, N, m, 0, side, 1, 1, u1, 4)
        BY ONLY <1>4, <1>5, <3>1, <3>3, <3>4, <3>5 DEF NextFace
      <4> QED BY ONLY <1>6, <4>1, FacedRing
    <3>7. Faced(under, n, n, V, E, U, N, 2)
      <4>1. NextFace(n, E, U, N, side, 1, under, 2, 2, u2, 1)
        BY ONLY <1>4, <1>5, <3>1, <3>3, <3>4, <3>5 DEF NextFace
      <4> QED BY ONLY <3>6, <4>1, FacedRing
    <3>8. Faced(over, n, n, V, E, U, N, 3)
      <4>1. NextFace(n, E, U, N, under, 2, over, 3, 3, u3, 1)
        BY ONLY <1>4, <1>5, <3>1, <3>3, <3>4, <3>5 DEF NextFace
      <4> QED BY ONLY <3>7, <4>1, FacedRing
    <3> QED BY ONLY <3>1, <3>8
  <2>2. CASE bottom = TRUE /\ top = FALSE
    <3>1. n = 2
      BY ONLY <2>2, n = Caps(bottom, top) + 1 DEF Caps
    <3>2. PICK u1, u2 : u1 = SideUses(TRUE, FALSE) /\ u2 = <<Use(1, FALSE)>>
      OBVIOUS
    <3>3. U[1] = u1 /\ U[2] = u2 /\ N[1] = 0 /\ N[2] = 3 /\ N[3] = 4
      BY ONLY <1>1, <2>2, <3>2 DEF RevolveUses, RevolveCounts
    <3>4. u1 \in UsesUpTo(n, 3) /\ u2 \in UsesUpTo(n, 1)
      <4>1. /\ n \in 1..3 /\ 1 \in 1..n /\ (n = 3 => 2 \in 1..n)
            /\ TRUE \in BOOLEAN /\ FALSE \in BOOLEAN
        BY ONLY <3>1
      <4> QED BY ONLY <3>1, <3>2, <4>1, RingLengths
    <3>5. side = AddFace(m, 1, u1) /\ over = AddFace(side, 2, u2)
      BY ONLY <1>1, <2>2, <3>2
    <3>6. Faced(side, n, n, V, E, U, N, 1)
      <4>1. NextFace(n, E, U, N, m, 0, side, 1, 1, u1, 3)
        BY ONLY <1>4, <1>5, <3>1, <3>3, <3>4, <3>5 DEF NextFace
      <4> QED BY ONLY <1>6, <4>1, FacedRing
    <3>7. Faced(over, n, n, V, E, U, N, 2)
      <4>1. NextFace(n, E, U, N, side, 1, over, 2, 2, u2, 1)
        BY ONLY <1>4, <1>5, <3>1, <3>3, <3>4, <3>5 DEF NextFace
      <4> QED BY ONLY <3>6, <4>1, FacedRing
    <3> QED BY ONLY <3>1, <3>7
  <2>3. CASE bottom = FALSE /\ top = TRUE
    <3>1. n = 2
      BY ONLY <2>3, n = Caps(bottom, top) + 1 DEF Caps
    <3>2. PICK u1, u2 : u1 = SideUses(FALSE, TRUE) /\ u2 = <<Use(1, TRUE)>>
      OBVIOUS
    <3>3. U[1] = u1 /\ U[2] = u2 /\ N[1] = 0 /\ N[2] = 3 /\ N[3] = 4
      BY ONLY <1>1, <2>3, <3>2 DEF RevolveUses, RevolveCounts
    <3>4. u1 \in UsesUpTo(n, 3) /\ u2 \in UsesUpTo(n, 1)
      <4>1. /\ n \in 1..3 /\ 1 \in 1..n /\ (n = 3 => 2 \in 1..n)
            /\ TRUE \in BOOLEAN /\ FALSE \in BOOLEAN
        BY ONLY <3>1
      <4> QED BY ONLY <3>1, <3>2, <4>1, RingLengths
    <3>5. side = AddFace(m, 1, u1) /\ over = AddFace(side, 2, u2)
      BY ONLY <1>1, <2>3, <3>1, <3>2, 2 - 1 = 1
    <3>6. Faced(side, n, n, V, E, U, N, 1)
      <4>1. NextFace(n, E, U, N, m, 0, side, 1, 1, u1, 3)
        BY ONLY <1>4, <1>5, <3>1, <3>3, <3>4, <3>5 DEF NextFace
      <4> QED BY ONLY <1>6, <4>1, FacedRing
    <3>7. Faced(over, n, n, V, E, U, N, 2)
      <4>1. NextFace(n, E, U, N, side, 1, over, 2, 2, u2, 1)
        BY ONLY <1>4, <1>5, <3>1, <3>3, <3>4, <3>5 DEF NextFace
      <4> QED BY ONLY <3>6, <4>1, FacedRing
    <3> QED BY ONLY <3>1, <3>7
  <2>4. CASE bottom = FALSE /\ top = FALSE
    <3>1. n = 1
      BY ONLY <2>4, n = Caps(bottom, top) + 1 DEF Caps
    <3>2. PICK u1 : u1 = SideUses(FALSE, FALSE)
      OBVIOUS
    <3>3. U[1] = u1 /\ N[1] = 0 /\ N[2] = 2
      BY ONLY <1>1, <2>4, <3>2 DEF RevolveUses, RevolveCounts
    <3>4. u1 \in UsesUpTo(n, 2)
      <4>1. /\ n \in 1..3 /\ 1 \in 1..n /\ (n = 3 => 2 \in 1..n)
            /\ TRUE \in BOOLEAN /\ FALSE \in BOOLEAN
        BY ONLY <3>1
      <4> QED BY ONLY <3>1, <3>2, <4>1, RingLengths
    <3>5. over = AddFace(m, 1, u1)
      BY ONLY <1>1, <2>4, <3>2
    <3>6. Faced(over, n, n, V, E, U, N, 1)
      <4>1. NextFace(n, E, U, N, m, 0, over, 1, 1, u1, 2)
        BY ONLY <1>4, <1>5, <3>1, <3>3, <3>4, <3>5 DEF NextFace
      <4> QED BY ONLY <1>6, <4>1, FacedRing
    <3> QED BY ONLY <3>1, <3>6
  <2> QED BY <2>1, <2>2, <2>3, <2>4
<1>8. Finished(Finish(over), n, n, V, E, U, N, n)
  BY ONLY <1>5, <1>7, FacedFinish
<1> QED BY ONLY <1>1, <1>2, <1>8

\* Coedge c uses edge K[c], along its curve if c is in P.
UsedAs(C, K, P, n) ==
  /\ C \in Seq(Coedge) /\ Len(C) = n
  /\ \A c \in 1..n : /\ C[c].edge = K[c]
                     /\ c \in P => C[c].same = TRUE
                     /\ c \notin P => C[c].same = FALSE

\* A[e] is the use of edge e along its curve, B[e] the one against it.
UsedBothWays(K, P, A, B, n, m) ==
  /\ \A e \in 1..m : /\ A[e] \in 1..n /\ K[A[e]] = e /\ A[e] \in P
                     /\ B[e] \in 1..n /\ K[B[e]] = e /\ B[e] \notin P
  /\ \A c \in 1..n : K[c] \in 1..m /\ c \in {A[K[c]], B[K[c]]}

\* Then the coedges are paired.
LEMMA PairedBy ==
  ASSUME NEW E, NEW C, NEW K, NEW P, NEW A, NEW B, NEW n \in Nat, NEW m \in Nat,
         DOMAIN E = 1..m, UsedAs(C, K, P, n), UsedBothWays(K, P, A, B, n, m)
  PROVE  Paired(E, C, A, B)
<1>1. DOMAIN C = 1..n
  BY DEF UsedAs
<1>2. ASSUME NEW e \in DOMAIN E
      PROVE  /\ A[e] \in DOMAIN C /\ C[A[e]].edge = e /\ C[A[e]].same = TRUE
             /\ B[e] \in DOMAIN C /\ C[B[e]].edge = e /\ C[B[e]].same = FALSE
  <2>1. PICK a, d : a = A[e] /\ d = B[e]
    OBVIOUS
  <2>2. a \in 1..n /\ K[a] = e /\ a \in P /\ d \in 1..n /\ K[d] = e /\ d \notin P
    BY <2>1 DEF UsedBothWays
  <2>3. C[a].edge = e /\ C[a].same = TRUE /\ C[d].edge = e /\ C[d].same = FALSE
    BY ONLY <2>2, UsedAs(C, K, P, n) DEF UsedAs
  <2> QED BY <1>1, <2>1, <2>2, <2>3
<1>3. ASSUME NEW c \in DOMAIN C
      PROVE  C[c].edge \in DOMAIN E /\ c \in {A[C[c].edge], B[C[c].edge]}
  BY <1>1 DEF UsedAs, UsedBothWays
<1> QED BY <1>2, <1>3 DEF Paired

\* The uses of the coedges of a cylinder or a cone
RevolveEdges(bottom, top) ==
  IF bottom /\ top THEN <<1, 3, 2, 3, 1, 2>> ELSE IF bottom THEN <<1, 2, 2, 1>>
  ELSE IF top THEN <<2, 1, 2, 1>> ELSE <<1, 1>>
RevolveAlong(bottom, top) ==
  IF bottom /\ top THEN {1, 2, 6} ELSE IF bottom THEN {1, 2}
  ELSE IF top THEN {1, 4} ELSE {1}
Along(bottom, top) ==
  IF bottom /\ top THEN <<1, 6, 2>> ELSE IF bottom THEN <<1, 2>>
  ELSE IF top THEN <<4, 1>> ELSE <<1>>
Against(bottom, top) ==
  IF bottom /\ top THEN <<5, 3, 4>> ELSE IF bottom THEN <<4, 3>>
  ELSE IF top THEN <<2, 3>> ELSE <<2>>

\* They use each edge in both directions.
LEMMA RevolveBothWays ==
  ASSUME NEW bottom \in BOOLEAN, NEW top \in BOOLEAN, NEW n, n = Caps(bottom, top) + 1
  PROVE  UsedBothWays(RevolveEdges(bottom, top), RevolveAlong(bottom, top),
                      Along(bottom, top), Against(bottom, top), 2 * n, n)
<1>1. PICK K, P, A, B : /\ K = RevolveEdges(bottom, top) /\ P = RevolveAlong(bottom, top)
                        /\ A = Along(bottom, top) /\ B = Against(bottom, top)
  OBVIOUS
<1>2. CASE bottom = TRUE /\ top = TRUE
  <2>1. n = 3 /\ K = <<1, 3, 2, 3, 1, 2>> /\ P = {1, 2, 6} /\ A = <<1, 6, 2>>
        /\ B = <<5, 3, 4>>
    BY <1>1, <1>2 DEF Caps, RevolveEdges, RevolveAlong, Along, Against
  <2>2. /\ K[1] = 1 /\ K[2] = 3 /\ K[3] = 2 /\ K[4] = 3 /\ K[5] = 1 /\ K[6] = 2
        /\ A[1] = 1 /\ A[2] = 6 /\ A[3] = 2 /\ B[1] = 5 /\ B[2] = 3 /\ B[3] = 4
    BY ONLY <2>1
  <2>3. /\ \A e \in 1..3 : e = 1 \/ e = 2 \/ e = 3
        /\ \A c \in 1..6 : c = 1 \/ c = 2 \/ c = 3 \/ c = 4 \/ c = 5 \/ c = 6
    OBVIOUS
  <2>4. UsedBothWays(K, P, A, B, 6, 3)
    BY ONLY <2>1, <2>2, <2>3 DEF UsedBothWays
  <2> QED BY ONLY <1>1, <2>1, <2>4, 2 * 3 = 6
<1>3. CASE bottom = TRUE /\ top = FALSE
  <2>1. n = 2 /\ K = <<1, 2, 2, 1>> /\ P = {1, 2} /\ A = <<1, 2>> /\ B = <<4, 3>>
    BY <1>1, <1>3 DEF Caps, RevolveEdges, RevolveAlong, Along, Against
  <2>2. /\ K[1] = 1 /\ K[2] = 2 /\ K[3] = 2 /\ K[4] = 1
        /\ A[1] = 1 /\ A[2] = 2 /\ B[1] = 4 /\ B[2] = 3
    BY ONLY <2>1
  <2>3. /\ \A e \in 1..2 : e = 1 \/ e = 2
        /\ \A c \in 1..4 : c = 1 \/ c = 2 \/ c = 3 \/ c = 4
    OBVIOUS
  <2>4. UsedBothWays(K, P, A, B, 4, 2)
    BY ONLY <2>1, <2>2, <2>3 DEF UsedBothWays
  <2> QED BY ONLY <1>1, <2>1, <2>4, 2 * 2 = 4
<1>4. CASE bottom = FALSE /\ top = TRUE
  <2>1. n = 2 /\ K = <<2, 1, 2, 1>> /\ P = {1, 4} /\ A = <<4, 1>> /\ B = <<2, 3>>
    BY <1>1, <1>4 DEF Caps, RevolveEdges, RevolveAlong, Along, Against
  <2>2. /\ K[1] = 2 /\ K[2] = 1 /\ K[3] = 2 /\ K[4] = 1
        /\ A[1] = 4 /\ A[2] = 1 /\ B[1] = 2 /\ B[2] = 3
    BY ONLY <2>1
  <2>3. /\ \A e \in 1..2 : e = 1 \/ e = 2
        /\ \A c \in 1..4 : c = 1 \/ c = 2 \/ c = 3 \/ c = 4
    OBVIOUS
  <2>4. UsedBothWays(K, P, A, B, 4, 2)
    BY ONLY <2>1, <2>2, <2>3 DEF UsedBothWays
  <2> QED BY ONLY <1>1, <2>1, <2>4, 2 * 2 = 4
<1>5. CASE bottom = FALSE /\ top = FALSE
  <2>1. n = 1 /\ K = <<1, 1>> /\ P = {1} /\ A = <<1>> /\ B = <<2>>
    BY <1>1, <1>5 DEF Caps, RevolveEdges, RevolveAlong, Along, Against
  <2>2. K[1] = 1 /\ K[2] = 1 /\ A[1] = 1 /\ B[1] = 2
    BY ONLY <2>1
  <2>3. (\A e \in 1..1 : e = 1) /\ (\A c \in 1..2 : c = 1 \/ c = 2)
    OBVIOUS
  <2>4. UsedBothWays(K, P, A, B, 2, 1)
    BY ONLY <2>1, <2>2, <2>3 DEF UsedBothWays
  <2> QED BY ONLY <1>1, <2>1, <2>4, 2 * 1 = 2
<1> QED BY <1>2, <1>3, <1>4, <1>5

\* The uses of edge e lead from v to w and back.
Ends(E, e, v, w) ==
  /\ UseFrom(E, Use(e, TRUE)) = v /\ UseTo(E, Use(e, TRUE)) = w
  /\ UseFrom(E, Use(e, FALSE)) = w /\ UseTo(E, Use(e, FALSE)) = v

\* So do those of any edge.
LEMMA UseEnds ==
  ASSUME NEW E, NEW e, NEW c, NEW v, NEW w, E[e] = EdgeOf(c, v, w)
  PROVE  Ends(E, e, v, w)
<1>0. PICK x : x = EdgeOf(c, v, w)
  OBVIOUS
<1>1. x.start = v /\ x.end = w
  BY <1>0, Zenon DEF EdgeOf
<1>2. \A s \in BOOLEAN : Use(e, s).edge = e /\ Use(e, s).same = s
  BY Zenon DEF Use
<1>3. PICK u, d : u = Use(e, TRUE) /\ d = Use(e, FALSE)
  OBVIOUS
<1>4. u.edge = e /\ u.same = TRUE /\ d.edge = e /\ d.same = FALSE
  BY <1>2, <1>3
<1>5. UseFrom(E, u) = v /\ UseTo(E, u) = w /\ UseFrom(E, d) = w /\ UseTo(E, d) = v
  BY ONLY <1>0, <1>1, <1>4, E[e] = EdgeOf(c, v, w) DEF UseFrom, UseTo
<1> QED BY ONLY <1>3, <1>5 DEF Ends

\* A ring of one use meets if it ends where it starts.
LEMMA MeetsOne ==
  ASSUME NEW E, NEW a, UseTo(E, a) = UseFrom(E, a)
  PROVE  Meets(E, <<a>>)
  BY DEF Meets

\* Of two
LEMMA MeetsTwo ==
  ASSUME NEW E, NEW a, NEW b, UseTo(E, a) = UseFrom(E, b), UseTo(E, b) = UseFrom(E, a)
  PROVE  Meets(E, <<a, b>>)
<1>1. PICK s : s = <<a, b>>
  OBVIOUS
<1>2. Len(s) = 2 /\ s[1] = a /\ s[2] = b
  BY ONLY <1>1
<1>3. \A i \in 1..2 : i = 1 \/ i = 2
  OBVIOUS
<1>4. Meets(E, s)
  BY <1>2, <1>3 DEF Meets
<1> QED BY <1>1, <1>4

\* Of three
LEMMA MeetsThree ==
  ASSUME NEW E, NEW a, NEW b, NEW c, UseTo(E, a) = UseFrom(E, b), UseTo(E, b) = UseFrom(E, c),
         UseTo(E, c) = UseFrom(E, a)
  PROVE  Meets(E, <<a, b, c>>)
<1>1. PICK s : s = <<a, b, c>>
  OBVIOUS
<1>2. Len(s) = 3 /\ s[1] = a /\ s[2] = b /\ s[3] = c
  BY ONLY <1>1
<1>3. \A i \in 1..3 : i = 1 \/ i = 2 \/ i = 3
  OBVIOUS
<1>4. Meets(E, s)
  BY <1>2, <1>3 DEF Meets
<1> QED BY <1>1, <1>4

\* Of four
LEMMA MeetsFour ==
  ASSUME NEW E, NEW a, NEW b, NEW c, NEW d,
         UseTo(E, a) = UseFrom(E, b), UseTo(E, b) = UseFrom(E, c),
         UseTo(E, c) = UseFrom(E, d), UseTo(E, d) = UseFrom(E, a)
  PROVE  Meets(E, <<a, b, c, d>>)
<1>1. PICK s : s = <<a, b, c, d>>
  OBVIOUS
<1>2. Len(s) = 4 /\ s[1] = a /\ s[2] = b /\ s[3] = c /\ s[4] = d
  BY ONLY <1>1
<1>3. \A i \in 1..4 : i = 1 \/ i = 2 \/ i = 3 \/ i = 4
  OBVIOUS
<1>4. Meets(E, s)
  BY <1>2, <1>3 DEF Meets
<1> QED BY <1>1, <1>4

\* The seam leads from rim to rim, and each rim to where it starts.
SeamAndRims(E, n, bottom, top) ==
  /\ E[n] = EdgeOf(n, 1, 2)
  /\ bottom = TRUE => E[1] = EdgeOf(1, 1, 1)
  /\ top = TRUE => E[n - 1] = EdgeOf(n - 1, 2, 2)

\* Those are the edges of a cylinder or a cone.
LEMMA SeamedEnds ==
  ASSUME NEW bottom \in BOOLEAN, NEW top \in BOOLEAN, NEW n, n = Caps(bottom, top) + 1,
         NEW E, E = SeamedEdges(bottom, top)
  PROVE  SeamAndRims(E, n, bottom, top)
<1>1. CASE bottom = TRUE /\ top = TRUE
  <2>1. n = 3 /\ n - 1 = 2 /\ E = <<EdgeOf(1, 1, 1), EdgeOf(2, 2, 2), EdgeOf(3, 1, 2)>>
    BY <1>1 DEF Caps, SeamedEdges
  <2> QED BY ONLY <2>1 DEF SeamAndRims
<1>2. CASE bottom = TRUE /\ top = FALSE
  <2>1. n = 2 /\ E = <<EdgeOf(1, 1, 1), EdgeOf(2, 1, 2)>>
    BY <1>2 DEF Caps, SeamedEdges
  <2> QED BY ONLY <2>1, <1>2 DEF SeamAndRims
<1>3. CASE bottom = FALSE /\ top = TRUE
  <2>1. n = 2 /\ n - 1 = 1 /\ E = <<EdgeOf(1, 2, 2), EdgeOf(2, 1, 2)>>
    BY <1>3 DEF Caps, SeamedEdges
  <2> QED BY ONLY <2>1, <1>3 DEF SeamAndRims
<1>4. CASE bottom = FALSE /\ top = FALSE
  <2>1. n = 1 /\ E = <<EdgeOf(1, 1, 2)>>
    BY <1>4 DEF Caps, SeamedEdges
  <2> QED BY ONLY <2>1, <1>4 DEF SeamAndRims
<1> QED BY <1>1, <1>2, <1>3, <1>4

\* The rings of a cylinder or a cone are closed.
LEMMA RevolveMeets ==
  ASSUME NEW bottom \in BOOLEAN, NEW top \in BOOLEAN, NEW n, n = Caps(bottom, top) + 1,
         NEW E, E = SeamedEdges(bottom, top)
  PROVE  /\ Meets(E, SideUses(bottom, top))
         /\ bottom = TRUE => Meets(E, <<Use(1, FALSE)>>) /\ Meets(E, <<Use(1, TRUE)>>)
         /\ top = TRUE => Meets(E, <<Use(n - 1, TRUE)>>)
<1>0. /\ Ends(E, n, 1, 2)
      /\ bottom = TRUE => Ends(E, 1, 1, 1)
      /\ top = TRUE => Ends(E, n - 1, 2, 2)
  <2>1. SeamAndRims(E, n, bottom, top)
    BY SeamedEnds
  <2> QED BY ONLY <2>1, UseEnds DEF SeamAndRims
<1>1. /\ UseFrom(E, Use(n, TRUE)) = 1 /\ UseTo(E, Use(n, TRUE)) = 2
      /\ UseFrom(E, Use(n, FALSE)) = 2 /\ UseTo(E, Use(n, FALSE)) = 1
  BY ONLY <1>0 DEF Ends
<1>2. bottom = TRUE => /\ UseFrom(E, Use(1, TRUE)) = 1 /\ UseTo(E, Use(1, TRUE)) = 1
                       /\ UseFrom(E, Use(1, FALSE)) = 1 /\ UseTo(E, Use(1, FALSE)) = 1
  BY ONLY <1>0 DEF Ends
<1>3. top = TRUE => /\ UseFrom(E, Use(n - 1, TRUE)) = 2 /\ UseTo(E, Use(n - 1, TRUE)) = 2
                    /\ UseFrom(E, Use(n - 1, FALSE)) = 2 /\ UseTo(E, Use(n - 1, FALSE)) = 2
  BY ONLY <1>0 DEF Ends
<1>4. CASE bottom = TRUE /\ top = TRUE
  <2>1. n = 3 /\ n - 1 = 2
    BY <1>4 DEF Caps
  <2>2. SideUses(bottom, top) = <<Use(1, TRUE), Use(3, TRUE), Use(2, FALSE), Use(3, FALSE)>>
    BY ONLY <1>4, SideUsesAre
  <2> QED BY ONLY <1>1, <1>2, <1>3, <1>4, <2>1, <2>2, MeetsFour, MeetsOne
<1>5. CASE bottom = TRUE /\ top = FALSE
  <2>1. n = 2
    BY <1>5 DEF Caps
  <2>2. SideUses(bottom, top) = <<Use(1, TRUE), Use(2, TRUE), Use(2, FALSE)>>
    BY ONLY <1>5, SideUsesAre
  <2> QED BY ONLY <1>1, <1>2, <1>5, <2>1, <2>2, MeetsThree, MeetsOne
<1>6. CASE bottom = FALSE /\ top = TRUE
  <2>1. n = 2 /\ n - 1 = 1
    BY <1>6 DEF Caps
  <2>2. SideUses(bottom, top) = <<Use(2, TRUE), Use(1, FALSE), Use(2, FALSE)>>
    BY ONLY <1>6, SideUsesAre
  <2> QED BY ONLY <1>1, <1>3, <1>6, <2>1, <2>2, MeetsThree, MeetsOne
<1>7. CASE bottom = FALSE /\ top = FALSE
  <2>1. n = 1
    BY <1>7 DEF Caps
  <2>2. SideUses(bottom, top) = <<Use(1, TRUE), Use(1, FALSE)>>
    BY ONLY <1>7, SideUsesAre
  <2> QED BY ONLY <1>1, <1>7, <2>1, <2>2, MeetsTwo
<1> QED BY <1>4, <1>5, <1>6, <1>7

\* Rings of uses as listed by length
LEMMA RingOfUses ==
  ASSUME NEW E, NEW n \in Nat, NEW m \in 1..4, NEW uses \in UsesUpTo(n, m), Meets(E, uses),
         NEW k \in Nat
  PROVE  RingFit(E, uses, k)
<1>1. PICK T : T = [edge : 1..n, same : BOOLEAN]
  OBVIOUS
<1>2. T \subseteq Uses
  BY <1>1 DEF Uses
<1>3. uses \in Seq(T) /\ Len(uses) = m
  BY <1>1 DEF UsesUpTo
<1>4. uses \in Seq(Uses)
  BY ONLY <1>2, <1>3
<1> QED BY <1>3, <1>4 DEF RingFit

\* Place i of a ring uses edge e, in direction s; so coedge c does.
UseAt(uses, i, e, s) == i \in 1 .. Len(uses) /\ uses[i] = Use(e, s)
CoedgeAt(C, c, e, s) == C[c].edge = e /\ C[c].same = s

\* A use of a ring and its coedge
LEMMA UseOfCoedge ==
  ASSUME NEW C, NEW L, NEW F, NEW f, NEW uses, NEW n, NEW i, NEW c, NEW e,
         NEW s \in BOOLEAN, FaceRing(C, L, F, f, uses, n), UseAt(uses, i, e, s), c = n + i
  PROVE  CoedgeAt(C, c, e, s)
<1>1. C[c].edge = uses[i].edge /\ C[c].same = uses[i].same
  BY DEF UseAt, FaceRing, Rung
<1>2. PICK u : u = uses[i] /\ u = Use(e, s)
  BY DEF UseAt
<1>3. Use(e, s).edge = e /\ Use(e, s).same = s
  BY Zenon DEF Use
<1> QED BY ONLY <1>1, <1>2, <1>3 DEF CoedgeAt

\* The places of the uses of each ring
LEMMA RevolvePlaces ==
  ASSUME NEW u
  PROVE  /\ u = SideUses(TRUE, TRUE) =>
              /\ UseAt(u, 1, 1, TRUE) /\ UseAt(u, 2, 3, TRUE)
              /\ UseAt(u, 3, 2, FALSE) /\ UseAt(u, 4, 3, FALSE)
         /\ u = SideUses(TRUE, FALSE) =>
              UseAt(u, 1, 1, TRUE) /\ UseAt(u, 2, 2, TRUE) /\ UseAt(u, 3, 2, FALSE)
         /\ u = SideUses(FALSE, TRUE) =>
              UseAt(u, 1, 2, TRUE) /\ UseAt(u, 2, 1, FALSE) /\ UseAt(u, 3, 2, FALSE)
         /\ u = SideUses(FALSE, FALSE) => UseAt(u, 1, 1, TRUE) /\ UseAt(u, 2, 1, FALSE)
         /\ \A e, s : u = <<Use(e, s)>> => UseAt(u, 1, e, s)
<1>1. ASSUME u = SideUses(TRUE, TRUE)
      PROVE  /\ UseAt(u, 1, 1, TRUE)
             /\ UseAt(u, 2, 3, TRUE)
             /\ UseAt(u, 3, 2, FALSE)
             /\ UseAt(u, 4, 3, FALSE)
  <2>1. PICK x, y, z, w : /\ x = Use(1, TRUE)
          /\ y = Use(3, TRUE)
          /\ z = Use(2, FALSE)
          /\ w = Use(3, FALSE)
    OBVIOUS
  <2>2. u = <<x, y, z, w>>
    BY ONLY <1>1, <2>1, SideUsesAre
  <2>3. Len(u) = 4 /\ u[1] = x /\ u[2] = y /\ u[3] = z /\ u[4] = w
    BY ONLY <2>2
  <2> QED BY ONLY <2>1, <2>3 DEF UseAt
<1>2. ASSUME u = SideUses(TRUE, FALSE)
      PROVE  /\ UseAt(u, 1, 1, TRUE)
             /\ UseAt(u, 2, 2, TRUE)
             /\ UseAt(u, 3, 2, FALSE)
  <2>1. PICK x, y, z : /\ x = Use(1, TRUE)
          /\ y = Use(2, TRUE)
          /\ z = Use(2, FALSE)
    OBVIOUS
  <2>2. u = <<x, y, z>>
    BY ONLY <1>2, <2>1, SideUsesAre
  <2>3. Len(u) = 3 /\ u[1] = x /\ u[2] = y /\ u[3] = z
    BY ONLY <2>2
  <2> QED BY ONLY <2>1, <2>3 DEF UseAt
<1>3. ASSUME u = SideUses(FALSE, TRUE)
      PROVE  /\ UseAt(u, 1, 2, TRUE)
             /\ UseAt(u, 2, 1, FALSE)
             /\ UseAt(u, 3, 2, FALSE)
  <2>1. PICK x, y, z : /\ x = Use(2, TRUE)
          /\ y = Use(1, FALSE)
          /\ z = Use(2, FALSE)
    OBVIOUS
  <2>2. u = <<x, y, z>>
    BY ONLY <1>3, <2>1, SideUsesAre
  <2>3. Len(u) = 3 /\ u[1] = x /\ u[2] = y /\ u[3] = z
    BY ONLY <2>2
  <2> QED BY ONLY <2>1, <2>3 DEF UseAt
<1>4. ASSUME u = SideUses(FALSE, FALSE)
      PROVE  /\ UseAt(u, 1, 1, TRUE)
             /\ UseAt(u, 2, 1, FALSE)
  <2>1. PICK x, y : /\ x = Use(1, TRUE)
          /\ y = Use(1, FALSE)
    OBVIOUS
  <2>2. u = <<x, y>>
    BY ONLY <1>4, <2>1, SideUsesAre
  <2>3. Len(u) = 2 /\ u[1] = x /\ u[2] = y
    BY ONLY <2>2
  <2> QED BY ONLY <2>1, <2>3 DEF UseAt
<1>5. ASSUME NEW e, NEW s, u = <<Use(e, s)>> PROVE UseAt(u, 1, e, s)
  BY <1>5 DEF UseAt
<1> QED BY ONLY <1>1, <1>2, <1>3, <1>4, <1>5

\* The coedges use the edges as listed.
LEMMA RevolveUsed ==
  ASSUME NEW bottom \in BOOLEAN, NEW top \in BOOLEAN, NEW n, n = Caps(bottom, top) + 1,
         NEW C \in Seq(Coedge), NEW L, NEW F, NEW U, NEW N,
         U = RevolveUses(bottom, top), N = RevolveCounts(bottom, top), Len(C) = N[n + 1],
         \A f \in 1..n : FaceRing(C, L, F, f, U[f], N[f])
  PROVE  UsedAs(C, RevolveEdges(bottom, top), RevolveAlong(bottom, top), 2 * n)
<1>1. PICK K, P : K = RevolveEdges(bottom, top) /\ P = RevolveAlong(bottom, top)
  OBVIOUS
<1>2. CASE bottom = TRUE /\ top = TRUE
  <2>1. /\ n = 3 /\ n + 1 = 4 /\ 2 * n = 6
        /\ K = <<1, 3, 2, 3, 1, 2>> /\ P = {1, 2, 6}
    BY <1>1, <1>2 DEF Caps, RevolveEdges, RevolveAlong
  <2>2. PICK u, v, w : /\ u = SideUses(TRUE, TRUE)
          /\ v = <<Use(1, FALSE)>>
          /\ w = <<Use(2, TRUE)>>
    OBVIOUS
  <2>3. U = <<u, v, w>> /\ N = <<0, 4, 5, 6>>
    BY <1>2, <2>2 DEF RevolveUses, RevolveCounts
  <2>4. /\ U[1] = u /\ U[2] = v /\ U[3] = w /\ N[1] = 0 /\ N[2] = 4 /\ N[3] = 5 /\ N[4] = 6
        /\ K[1] = 1 /\ K[2] = 3 /\ K[3] = 2 /\ K[4] = 3 /\ K[5] = 1 /\ K[6] = 2
    BY ONLY <2>1, <2>3
  <2>5. /\ FaceRing(C, L, F, 1, u, 0)
        /\ FaceRing(C, L, F, 2, v, 4)
        /\ FaceRing(C, L, F, 3, w, 5)
    BY <2>1, <2>4
  <2>6. /\ UseAt(u, 1, 1, TRUE) /\ UseAt(u, 2, 3, TRUE)
        /\ UseAt(u, 3, 2, FALSE) /\ UseAt(u, 4, 3, FALSE)
        /\ UseAt(v, 1, 1, FALSE) /\ UseAt(w, 1, 2, TRUE)
    BY ONLY <2>2, RevolvePlaces
  <2>7. 1 = 0 + 1 /\ 2 = 0 + 2 /\ 3 = 0 + 3 /\ 4 = 0 + 4 /\ 5 = 4 + 1 /\ 6 = 5 + 1
    OBVIOUS
  <2>8. /\ CoedgeAt(C, 1, 1, TRUE) /\ CoedgeAt(C, 2, 3, TRUE)
        /\ CoedgeAt(C, 3, 2, FALSE) /\ CoedgeAt(C, 4, 3, FALSE)
        /\ CoedgeAt(C, 5, 1, FALSE) /\ CoedgeAt(C, 6, 2, TRUE)
    BY <2>5, <2>6, <2>7, UseOfCoedge, Zenon
  <2>9. \A c \in 1..6 : c = 1 \/ c = 2 \/ c = 3 \/ c = 4 \/ c = 5 \/ c = 6
    OBVIOUS
  <2>10. UsedAs(C, K, P, 6)
    BY ONLY <2>1, <2>4, <2>8, <2>9, C \in Seq(Coedge), Len(C) = N[n + 1] DEF UsedAs, CoedgeAt
  <2> QED BY ONLY <1>1, <2>1, <2>10
<1>3. CASE bottom = TRUE /\ top = FALSE
  <2>1. /\ n = 2 /\ n + 1 = 3 /\ 2 * n = 4
        /\ K = <<1, 2, 2, 1>> /\ P = {1, 2}
    BY <1>1, <1>3 DEF Caps, RevolveEdges, RevolveAlong
  <2>2. PICK u, v : /\ u = SideUses(TRUE, FALSE)
          /\ v = <<Use(1, FALSE)>>
    OBVIOUS
  <2>3. U = <<u, v>> /\ N = <<0, 3, 4>>
    BY <1>3, <2>2 DEF RevolveUses, RevolveCounts
  <2>4. /\ U[1] = u /\ U[2] = v /\ N[1] = 0 /\ N[2] = 3 /\ N[3] = 4
        /\ K[1] = 1 /\ K[2] = 2 /\ K[3] = 2 /\ K[4] = 1
    BY ONLY <2>1, <2>3
  <2>5. /\ FaceRing(C, L, F, 1, u, 0)
        /\ FaceRing(C, L, F, 2, v, 3)
    BY <2>1, <2>4
  <2>6. /\ UseAt(u, 1, 1, TRUE) /\ UseAt(u, 2, 2, TRUE)
        /\ UseAt(u, 3, 2, FALSE) /\ UseAt(v, 1, 1, FALSE)
    BY ONLY <2>2, RevolvePlaces
  <2>7. 1 = 0 + 1 /\ 2 = 0 + 2 /\ 3 = 0 + 3 /\ 4 = 3 + 1
    OBVIOUS
  <2>8. /\ CoedgeAt(C, 1, 1, TRUE) /\ CoedgeAt(C, 2, 2, TRUE)
        /\ CoedgeAt(C, 3, 2, FALSE) /\ CoedgeAt(C, 4, 1, FALSE)
    BY <2>5, <2>6, <2>7, UseOfCoedge, Zenon
  <2>9. \A c \in 1..4 : c = 1 \/ c = 2 \/ c = 3 \/ c = 4
    OBVIOUS
  <2>10. UsedAs(C, K, P, 4)
    BY ONLY <2>1, <2>4, <2>8, <2>9, C \in Seq(Coedge), Len(C) = N[n + 1] DEF UsedAs, CoedgeAt
  <2> QED BY ONLY <1>1, <2>1, <2>10
<1>4. CASE bottom = FALSE /\ top = TRUE
  <2>1. /\ n = 2 /\ n + 1 = 3 /\ 2 * n = 4
        /\ K = <<2, 1, 2, 1>> /\ P = {1, 4}
    BY <1>1, <1>4 DEF Caps, RevolveEdges, RevolveAlong
  <2>2. PICK u, v : /\ u = SideUses(FALSE, TRUE)
          /\ v = <<Use(1, TRUE)>>
    OBVIOUS
  <2>3. U = <<u, v>> /\ N = <<0, 3, 4>>
    BY <1>4, <2>2 DEF RevolveUses, RevolveCounts
  <2>4. /\ U[1] = u /\ U[2] = v /\ N[1] = 0 /\ N[2] = 3 /\ N[3] = 4
        /\ K[1] = 2 /\ K[2] = 1 /\ K[3] = 2 /\ K[4] = 1
    BY ONLY <2>1, <2>3
  <2>5. /\ FaceRing(C, L, F, 1, u, 0)
        /\ FaceRing(C, L, F, 2, v, 3)
    BY <2>1, <2>4
  <2>6. /\ UseAt(u, 1, 2, TRUE) /\ UseAt(u, 2, 1, FALSE)
        /\ UseAt(u, 3, 2, FALSE) /\ UseAt(v, 1, 1, TRUE)
    BY ONLY <2>2, RevolvePlaces
  <2>7. 1 = 0 + 1 /\ 2 = 0 + 2 /\ 3 = 0 + 3 /\ 4 = 3 + 1
    OBVIOUS
  <2>8. /\ CoedgeAt(C, 1, 2, TRUE) /\ CoedgeAt(C, 2, 1, FALSE)
        /\ CoedgeAt(C, 3, 2, FALSE) /\ CoedgeAt(C, 4, 1, TRUE)
    BY <2>5, <2>6, <2>7, UseOfCoedge, Zenon
  <2>9. \A c \in 1..4 : c = 1 \/ c = 2 \/ c = 3 \/ c = 4
    OBVIOUS
  <2>10. UsedAs(C, K, P, 4)
    BY ONLY <2>1, <2>4, <2>8, <2>9, C \in Seq(Coedge), Len(C) = N[n + 1] DEF UsedAs, CoedgeAt
  <2> QED BY ONLY <1>1, <2>1, <2>10
<1>5. CASE bottom = FALSE /\ top = FALSE
  <2>1. /\ n = 1 /\ n + 1 = 2 /\ 2 * n = 2
        /\ K = <<1, 1>> /\ P = {1}
    BY <1>1, <1>5 DEF Caps, RevolveEdges, RevolveAlong
  <2>2. PICK u : /\ u = SideUses(FALSE, FALSE)
    OBVIOUS
  <2>3. U = <<u>> /\ N = <<0, 2>>
    BY <1>5, <2>2 DEF RevolveUses, RevolveCounts
  <2>4. /\ U[1] = u /\ N[1] = 0 /\ N[2] = 2
        /\ K[1] = 1 /\ K[2] = 1
    BY ONLY <2>1, <2>3
  <2>5. /\ FaceRing(C, L, F, 1, u, 0)
    BY <2>1, <2>4
  <2>6. /\ UseAt(u, 1, 1, TRUE) /\ UseAt(u, 2, 1, FALSE)
    BY ONLY <2>2, RevolvePlaces
  <2>7. 1 = 0 + 1 /\ 2 = 0 + 2
    OBVIOUS
  <2>8. /\ CoedgeAt(C, 1, 1, TRUE) /\ CoedgeAt(C, 2, 1, FALSE)
    BY <2>5, <2>6, <2>7, UseOfCoedge, Zenon
  <2>9. \A c \in 1..2 : c = 1 \/ c = 2
    OBVIOUS
  <2>10. UsedAs(C, K, P, 2)
    BY ONLY <2>1, <2>4, <2>8, <2>9, C \in Seq(Coedge), Len(C) = N[n + 1] DEF UsedAs, CoedgeAt
  <2> QED BY ONLY <1>1, <2>1, <2>10
<1> QED BY <1>2, <1>3, <1>4, <1>5

\* A cylinder or a cone is the boundary of a solid.
LEMMA RevolveBoundary ==
  ASSUME NEW p, NEW q, NEW bottom \in BOOLEAN, NEW top \in BOOLEAN,
         body = Revolve(p, q, bottom, top)
  PROVE  SolidBoundary
<1>1. PICK n, E, U, N, V : /\ n = Caps(bottom, top) + 1 /\ E = SeamedEdges(bottom, top)
                           /\ U = RevolveUses(bottom, top) /\ N = RevolveCounts(bottom, top)
                           /\ V = <<VertexOf(p, 0), VertexOf(q, 0)>>
  OBVIOUS
<1>2. Finished(body, n, n, V, E, U, N, n)
  BY <1>1, RevolveFinished
<1>3. PICK C, L, F, S :
        /\ Has(body, n, n, V, E, C, L, F, S, <<1>>)
        /\ Whole(n, n, V, E, C, L, F, S, <<1>>)
        /\ Len(F) = n /\ Len(C) = N[n + 1]
        /\ \A f \in 1..n : FaceRing(C, L, F, f, U[f], N[f])
  BY <1>2, Zenon DEF Finished
<1>4. /\ body.vertices = V /\ body.edges = E /\ body.coedges = C
      /\ body.loops = L /\ body.faces = F
  BY <1>3, Zenon DEF Has
<1>5. n \in 1..3 /\ DOMAIN E = 1..n /\ Len(E) = n /\ Len(V) = 2
  <2>1. DOMAIN V = {1, 2} /\ Len(V) = 2
    BY <1>1, TwoVertices
  <2> QED BY <1>1, <2>1, SeamedWhole
<1>6. /\ C \in Seq(Coedge) /\ F \in Seq(Face)
  BY <1>3, Zenon DEF Whole
<1>7. DOMAIN F = 1..n
  BY <1>3, <1>5, <1>6
<1>8. UsedAs(C, RevolveEdges(bottom, top), RevolveAlong(bottom, top), 2 * n)
  BY <1>1, <1>3, <1>6, RevolveUsed
<1>9. Paired(E, C, Along(bottom, top), Against(bottom, top))
  <2>1. UsedBothWays(RevolveEdges(bottom, top), RevolveAlong(bottom, top),
                     Along(bottom, top), Against(bottom, top), 2 * n, n)
    BY <1>1, RevolveBothWays
  <2>2. 2 * n \in Nat /\ n \in Nat
    BY <1>5
  <2> QED BY ONLY <1>5, <1>8, <2>1, <2>2, PairedBy
<1>10. ASSUME NEW f \in 1..n
       PROVE  RingFit(E, U[f], N[f])
  <2>1. /\ Meets(E, SideUses(bottom, top))
        /\ bottom = TRUE => Meets(E, <<Use(1, FALSE)>>) /\ Meets(E, <<Use(1, TRUE)>>)
        /\ top = TRUE => Meets(E, <<Use(n - 1, TRUE)>>)
    BY <1>1, RevolveMeets
  <2>2. CASE bottom = TRUE /\ top = TRUE
    <3>1. n = 3 /\ n - 1 = 2
      BY <1>1, <2>2 DEF Caps
    <3>2. PICK u, v, w : u = SideUses(TRUE, TRUE) /\ v = <<Use(1, FALSE)>> /\ w = <<Use(2, TRUE)>>
      OBVIOUS
    <3>3. U = <<u, v, w>> /\ N = <<0, 4, 5, 6>>
      BY <1>1, <2>2, <3>2 DEF RevolveUses, RevolveCounts
    <3>4. U[1] = u /\ U[2] = v /\ U[3] = w
          /\ N[1] = 0 /\ N[2] = 4 /\ N[3] = 5
      BY ONLY <3>3
    <3>5. u \in UsesUpTo(3, 4) /\ v \in UsesUpTo(3, 1) /\ w \in UsesUpTo(3, 1)
      <4>1. 1 \in 1..3 /\ 2 \in 1..3 /\ 3 \in 1..3
        OBVIOUS
      <4> QED BY ONLY <3>2, <4>1, RingLengths
    <3>6. Meets(E, u) /\ Meets(E, v) /\ Meets(E, w)
      BY <2>1, <2>2, <3>1, <3>2
    <3>7. f = 1 \/ f = 2 \/ f = 3
      BY <3>1
    <3>8. RingFit(E, u, 0) /\ RingFit(E, v, 4) /\ RingFit(E, w, 5)
      BY ONLY <3>5, <3>6, RingOfUses
    <3> QED BY ONLY <3>4, <3>7, <3>8
  <2>3. CASE bottom = TRUE /\ top = FALSE
    <3>1. n = 2
      BY <1>1, <2>3 DEF Caps
    <3>2. PICK u, v : u = SideUses(TRUE, FALSE) /\ v = <<Use(1, FALSE)>>
      OBVIOUS
    <3>3. U = <<u, v>> /\ N = <<0, 3, 4>>
      BY <1>1, <2>3, <3>2 DEF RevolveUses, RevolveCounts
    <3>4. U[1] = u /\ U[2] = v
          /\ N[1] = 0 /\ N[2] = 3
      BY ONLY <3>3
    <3>5. u \in UsesUpTo(2, 3) /\ v \in UsesUpTo(2, 1)
      <4>1. 1 \in 1..2 /\ 2 \in 1..2 /\ 2 \in 1..3
        OBVIOUS
      <4> QED BY ONLY <3>2, <4>1, RingLengths
    <3>6. Meets(E, u) /\ Meets(E, v)
      BY <2>1, <2>3, <3>1, <3>2
    <3>7. f = 1 \/ f = 2
      BY <3>1
    <3>8. RingFit(E, u, 0) /\ RingFit(E, v, 3)
      BY ONLY <3>5, <3>6, RingOfUses
    <3> QED BY ONLY <3>4, <3>7, <3>8
  <2>4. CASE bottom = FALSE /\ top = TRUE
    <3>1. n = 2 /\ n - 1 = 1
      BY <1>1, <2>4 DEF Caps
    <3>2. PICK u, v : u = SideUses(FALSE, TRUE) /\ v = <<Use(1, TRUE)>>
      OBVIOUS
    <3>3. U = <<u, v>> /\ N = <<0, 3, 4>>
      BY <1>1, <2>4, <3>2 DEF RevolveUses, RevolveCounts
    <3>4. U[1] = u /\ U[2] = v
          /\ N[1] = 0 /\ N[2] = 3
      BY ONLY <3>3
    <3>5. u \in UsesUpTo(2, 3) /\ v \in UsesUpTo(2, 1)
      <4>1. 1 \in 1..2 /\ 2 \in 1..2 /\ 2 \in 1..3
        OBVIOUS
      <4> QED BY ONLY <3>2, <4>1, RingLengths
    <3>6. Meets(E, u) /\ Meets(E, v)
      BY <2>1, <2>4, <3>1, <3>2
    <3>7. f = 1 \/ f = 2
      BY <3>1
    <3>8. RingFit(E, u, 0) /\ RingFit(E, v, 3)
      BY ONLY <3>5, <3>6, RingOfUses
    <3> QED BY ONLY <3>4, <3>7, <3>8
  <2>5. CASE bottom = FALSE /\ top = FALSE
    <3>1. n = 1
      BY <1>1, <2>5 DEF Caps
    <3>2. PICK u : u = SideUses(FALSE, FALSE)
      OBVIOUS
    <3>3. U = <<u>> /\ N = <<0, 2>>
      BY <1>1, <2>5, <3>2 DEF RevolveUses, RevolveCounts
    <3>4. U[1] = u
          /\ N[1] = 0
      BY ONLY <3>3
    <3>5. u \in UsesUpTo(1, 2)
      <4>1. 1 \in 1..1 /\ 1 \in 1..3
        OBVIOUS
      <4> QED BY ONLY <3>2, <4>1, RingLengths
    <3>6. Meets(E, u)
      BY <2>1, <2>5, <3>1, <3>2
    <3>7. f = 1
      BY <3>1
    <3>8. 1 \in Nat /\ 2 \in 1..4 /\ 0 \in Nat
      OBVIOUS
    <3>9. RingFit(E, u, 0)
      BY <3>5, <3>6, <3>8, RingOfUses, Zenon
    <3> QED BY ONLY <3>4, <3>7, <3>9
  <2> QED BY <2>2, <2>3, <2>4, <2>5
<1>11. /\ Paired(body.edges, body.coedges, Along(bottom, top), Against(bottom, top))
       /\ body.coedges \in Seq(Coedge)
       /\ Len(body.vertices) + Len(body.faces) = Len(body.edges) + 2
  BY ONLY <1>3, <1>4, <1>5, <1>6, <1>9
<1>12. RingsFit(body, U, N, n)
  BY ONLY <1>3, <1>4, <1>7, <1>10 DEF RingsFit
<1> QED BY ONLY <1>11, <1>12, BoundaryOf

------------------------------------------------------------------------------
(* Boxes *)

\* The vertices at the corners of a box
CornersOf(c, h) == [v \in 1..8 |-> VertexOf(Corner(c, h, v - 1), 0)]

\* They are made one by one.
LEMMA CornersMade ==
  ASSUME NEW c, NEW h
  PROVE  Has(BoxVertices(c, h), 0, 0, CornersOf(c, h),
             <<>>, <<>>, <<>>, <<>>, <<>>, <<>>)
<1>0. PICK X, s : X = CornersOf(c, h) /\ s = <<0, 1, 2, 3, 4, 5, 6, 7>>
  OBVIOUS
<1> DEFINE B(i) == Made(0, 0, First(X, i), <<>>, <<>>, <<>>, <<>>, <<>>, <<>>)
           g == [i \in 0..8 |-> B(i)]
           Eq(f) == f = [i \in 0..8 |->
                           IF i = 0 THEN EmptyBody
                           ELSE NewVertex(f[i - 1], Corner(c, h, s[i]))]
           f == CHOOSE k : Eq(k)
<1>1. B(0) = EmptyBody
  <2>1. First(X, 0) = <<>>
    BY DEF First
  <2> QED BY <2>1, EmptyHas, HasIsMade
<1>2. ASSUME NEW i \in 1..8
      PROVE  B(i) = NewVertex(B(i - 1), Corner(c, h, s[i]))
  <2>1. i - 1 \in Nat /\ (i - 1) + 1 = i /\ i \in Nat
    OBVIOUS
  <2>2. s[i] = i - 1
    <3>1. \A j \in 1..8 : \/ j = 1 \/ j = 2 \/ j = 3 \/ j = 4
                          \/ j = 5 \/ j = 6 \/ j = 7 \/ j = 8
      OBVIOUS
    <3> QED BY ONLY <1>0, <3>1, i \in 1..8
  <2>3. X[i] = VertexOf(Corner(c, h, s[i]), 0)
    BY <1>0, <2>2 DEF CornersOf
  <2>4. PICK p, q, x, b, r :
          /\ p = First(X, i - 1) /\ q = First(X, i) /\ x = Corner(c, h, s[i])
          /\ b = B(i - 1) /\ r = NewVertex(b, x)
    OBVIOUS
  <2>5. q = Append(p, VertexOf(x, 0))
    BY <2>1, <2>3, <2>4, FirstStep
  <2>6. Has(b, 0, 0, p, <<>>, <<>>, <<>>, <<>>, <<>>, <<>>)
    BY <2>4, MadeHas, Zenon
  <2>7. Has(r, 0, 0, Append(p, VertexOf(x, 0)), <<>>, <<>>, <<>>, <<>>, <<>>, <<>>)
    BY <2>4, <2>6, MadeVertex, Zenon
  <2>8. r = Made(0, 0, q, <<>>, <<>>, <<>>, <<>>, <<>>, <<>>)
    <3>1. Has(r, 0, 0, q, <<>>, <<>>, <<>>, <<>>, <<>>, <<>>)
      BY <2>5, <2>7
    <3> QED BY ONLY <3>1, HasIsMade
  <2> QED BY <2>4, <2>8
<1>3. 8 \in Nat /\ Len(s) = 8
  BY <1>0
<1>4. Iterate(LAMBDA b, k : NewVertex(b, Corner(c, h, k)), EmptyBody, s) = f[8]
  <2> HIDE DEF B
  <2> QED BY <1>3 DEF Iterate
<1>5. Eq(g)
  <2>1. \A i \in 0..8 : g[i] = IF i = 0 THEN EmptyBody
                               ELSE NewVertex(g[i - 1], Corner(c, h, s[i]))
    <3> HIDE DEF B
    <3> QED BY <1>1, <1>2, <1>3
  <2>2. g = [i \in 0..8 |-> g[i]]
    OBVIOUS
  <2> HIDE DEF g
  <2> QED BY <2>1, <2>2
<1>6. Eq(f)
  <2> HIDE DEF g, Eq
  <2> QED BY <1>5
<1>7. g[8] = f[8]
  <2>1. \A k : Eq(k) => \A i \in 0..8 :
                 k[i] = IF i = 0 THEN EmptyBody
                        ELSE NewVertex(k[i - 1], Corner(c, h, s[i]))
    OBVIOUS
  <2> HIDE DEF g, f, Eq
  <2>2. \A i \in 1..8 : i \in 0..8 /\ i # 0
    BY <1>3
  <2>3. Alike(8, f, g)
    BY <1>3, <1>5, <1>6, <2>1, <2>2 DEF Alike
  <2> QED BY <1>3, <2>3, FoldUnique
<1>8. g[8] = B(8)
  <2> HIDE DEF B
  <2> QED BY <1>3
<1>9. Iterate(LAMBDA b, k : NewVertex(b, Corner(c, h, k)), EmptyBody, s) = B(8)
  <2> HIDE DEF B, g, f, Eq
  <2> QED BY <1>4, <1>7, <1>8
<1>10. BoxVertices(c, h) = B(8)
  <2> HIDE DEF B
  <2> QED BY <1>0, <1>9 DEF BoxVertices
<1>11. First(X, 8) = X
  BY <1>0 DEF First, CornersOf
<1> QED BY <1>0, <1>10, <1>11, MadeHas

\* The corners that edge e joins
EdgeFrom == <<0, 2, 4, 6, 0, 1, 4, 5, 0, 1, 2, 3>>
EdgeTo == <<1, 3, 5, 7, 2, 3, 6, 7, 4, 5, 6, 7>>

\* One of twelve
LEMMA OneOfTwelve ==
  \A e \in 1..12 :
        \/ e = 1 \/ e = 2 \/ e = 3 \/ e = 4 \/ e = 5 \/ e = 6
        \/ e = 7 \/ e = 8 \/ e = 9 \/ e = 10 \/ e = 11 \/ e = 12
  OBVIOUS

\* They are those of the table of edges.
LEMMA PairsAre ==
  ASSUME NEW e \in 1..12
  PROVE  /\ BoxEdges[e] = <<EdgeFrom[e], EdgeTo[e]>>
         /\ EdgeFrom[e] \in 0..7 /\ EdgeTo[e] \in 0..7 /\ EdgeFrom[e] < EdgeTo[e]
<1>1. PICK p, q, t : p = EdgeFrom /\ q = EdgeTo /\ t = BoxEdges
  OBVIOUS
<1>2. /\ p[1] = 0 /\ p[2] = 2 /\ p[3] = 4 /\ p[4] = 6
      /\ p[5] = 0 /\ p[6] = 1 /\ p[7] = 4 /\ p[8] = 5
      /\ p[9] = 0 /\ p[10] = 1 /\ p[11] = 2 /\ p[12] = 3
  BY ONLY <1>1 DEF EdgeFrom
<1>3. /\ q[1] = 1 /\ q[2] = 3 /\ q[3] = 5 /\ q[4] = 7
      /\ q[5] = 2 /\ q[6] = 3 /\ q[7] = 6 /\ q[8] = 7
      /\ q[9] = 4 /\ q[10] = 5 /\ q[11] = 6 /\ q[12] = 7
  BY ONLY <1>1 DEF EdgeTo
<1>4. /\ t[1] = <<0, 1>> /\ t[2] = <<2, 3>> /\ t[3] = <<4, 5>> /\ t[4] = <<6, 7>>
      /\ t[5] = <<0, 2>> /\ t[6] = <<1, 3>> /\ t[7] = <<4, 6>> /\ t[8] = <<5, 7>>
      /\ t[9] = <<0, 4>> /\ t[10] = <<1, 5>> /\ t[11] = <<2, 6>> /\ t[12] = <<3, 7>>
  BY ONLY <1>1 DEF BoxEdges
<1>5. t[e] = <<p[e], q[e]>> /\ p[e] \in 0..7 /\ q[e] \in 0..7 /\ p[e] < q[e]
  BY ONLY <1>2, <1>3, <1>4, OneOfTwelve, e \in 1..12
<1> QED BY <1>1, <1>5

\* Up to where none of the first edges is in D
LEMMA UpToFirst ==
  ASSUME NEW D
  PROVE  \E m \in 0..12 : \A i \in 1..12 : (\E j \in 1..i : j \in D) <=> i > m
<1>1. CASE \E j \in 1..12 : j \in D
  <2>1. PICK n \in {j \in 1..12 : j \in D} : \A k \in {j \in 1..12 : j \in D} : n <= k
    <3>1. {j \in 1..12 : j \in D} \in SUBSET Nat /\ {j \in 1..12 : j \in D} # {}
      BY <1>1
    <3> QED BY <3>1, Least
  <2>2. n - 1 \in 0..12 /\ \A i \in 1..12 : (\E j \in 1..i : j \in D) <=> i > n - 1
    BY ONLY <2>1
  <2> QED BY <2>2
<1>2. CASE ~\E j \in 1..12 : j \in D
  <2>1. \A i \in 1..12 : (\E j \in 1..i : j \in D) <=> i > 12
    BY <1>2
  <2> QED BY <2>1
<1> QED BY <1>1, <1>2

\* The edges of a box
EdgesOf == [e \in 1..12 |-> EdgeOf(e, EdgeFrom[e] + 1, EdgeTo[e] + 1)]

\* One edge more, with its curve
LEMMA BoxEdgeMade ==
  ASSUME NEW m \in Nat, NEW V, NEW p, NEW q, NEW n, n = m + 1, NEW b,
         Has(b, m, 0, V, p, <<>>, <<>>, <<>>, <<>>, <<>>), NEW pair,
         q = Append(p, EdgeOf(n, pair[1] + 1, pair[2] + 1))
  PROVE  Has(AddBoxEdge(b, pair), n, 0, V, q, <<>>, <<>>, <<>>, <<>>, <<>>)
<1>1. PICK d, v, w : d = AddCurve(b) /\ v = pair[1] + 1 /\ w = pair[2] + 1
  OBVIOUS
<1>2. Has(d, n, 0, V, p, <<>>, <<>>, <<>>, <<>>, <<>>)
  BY <1>1, MadeCurve
<1>3. Has(NewEdge(d, n, v, w, TRUE), n, 0, V, Append(p, EdgeOf(n, v, w)),
          <<>>, <<>>, <<>>, <<>>, <<>>)
  BY <1>2, MadeEdge, Zenon
<1>4. b.curves + 1 = n
  BY Zenon DEF Has
<1> QED BY <1>1, <1>3, <1>4 DEF AddBoxEdge

\* The edges are made one by one, up to the first whose corners are the same
\* doubles.
LEMMA EdgesMadeBox ==
  ASSUME NEW V, NEW start, Has(start, 0, 0, V, <<>>, <<>>, <<>>, <<>>, <<>>, <<>>)
  PROVE  \E m \in 0..12 :
           Has(AddBoxEdges(start), m, 0, V, First(EdgesOf, m), <<>>, <<>>, <<>>, <<>>, <<>>)
<1> DEFINE Stopped(i) == \E j \in 1..i : NoDirection(start, BoxEdges[j])
<1>0. PICK X, s : X = EdgesOf /\ s = Places(BoxEdges)
  OBVIOUS
<1>20. Len(s) = 12 /\ \A i \in 1..12 : s[i] = i
  <2>1. DOMAIN BoxEdges = 1..12
    BY DEF BoxEdges
  <2>2. s = [i \in 1..12 |-> i]
    BY <1>0, <2>1 DEF Places
  <2> QED BY ONLY <2>2
<1>21. PICK m \in 0..12 : \A i \in 1..12 : Stopped(i) <=> i > m
  <2>1. PICK D : D = {j \in 1..12 : NoDirection(start, BoxEdges[j])}
    OBVIOUS
  <2>2. PICK m \in 0..12 : \A i \in 1..12 : (\E j \in 1..i : j \in D) <=> i > m
    BY UpToFirst
  <2>3. \A i \in 1..12 : (\E j \in 1..i : j \in D)
                           <=> (\E j \in 1..i : NoDirection(start, BoxEdges[j]))
    BY <2>1
  <2> QED BY <2>2, <2>3
<1> HIDE DEF Stopped
<1> DEFINE B(i) == LET k == IF i <= m THEN i ELSE m
                   IN  Made(k, 0, V, First(X, k), <<>>, <<>>, <<>>, <<>>, <<>>)
           g == [i \in 0..12 |-> B(i)]
           Eq(f) == f = [i \in 0..12 |->
                           IF i = 0 THEN start
                           ELSE IF Stopped(s[i]) THEN f[i - 1]
                           ELSE AddBoxEdge(f[i - 1], BoxEdges[s[i]])]
           f == CHOOSE k : Eq(k)
<1>1. B(0) = start
  <2>1. First(X, 0) = <<>>
    BY DEF First
  <2>2. 0 <= m
    OBVIOUS
  <2> QED BY <2>1, <2>2, HasIsMade
<1>2. ASSUME NEW i \in 1..12
      PROVE  B(i) = IF Stopped(s[i]) THEN B(i - 1) ELSE AddBoxEdge(B(i - 1), BoxEdges[s[i]])
  <2>1. i - 1 \in Nat /\ (i - 1) + 1 = i /\ i \in Nat /\ s[i] = i
    BY <1>20
  <2>2. Stopped(s[i]) <=> i > m
    BY <1>21, <2>1
  <2>3. CASE i > m
    <3>1. (IF i - 1 <= m THEN i - 1 ELSE m) = m /\ (IF i <= m THEN i ELSE m) = m
      BY <2>3
    <3>2. B(i) = B(i - 1)
      BY <3>1
    <3> HIDE DEF B
    <3> QED BY <2>2, <2>3, <3>2
  <2>4. CASE ~(i > m)
    <3>1. (IF i - 1 <= m THEN i - 1 ELSE m) = i - 1 /\ (IF i <= m THEN i ELSE m) = i
      BY <2>4
    <3>2. PICK p, q, b, r, pair :
            /\ p = First(X, i - 1) /\ q = First(X, i) /\ b = B(i - 1)
            /\ pair = BoxEdges[s[i]] /\ r = AddBoxEdge(b, pair)
      OBVIOUS
    <3>3. Has(b, i - 1, 0, V, p, <<>>, <<>>, <<>>, <<>>, <<>>)
      BY <3>1, <3>2, MadeHas
    <3>4. q = Append(p, X[i])
      BY <2>1, <3>2, FirstStep
    <3>5. X[i] = EdgeOf(i, pair[1] + 1, pair[2] + 1)
      <4>1. pair = <<EdgeFrom[i], EdgeTo[i]>>
        BY <2>1, <3>2, PairsAre
      <4>2. pair[1] = EdgeFrom[i] /\ pair[2] = EdgeTo[i]
        BY ONLY <4>1
      <4> QED BY <1>0, <4>2 DEF EdgesOf
    <3>6. q = Append(p, EdgeOf(i, pair[1] + 1, pair[2] + 1))
      BY <3>4, <3>5
    <3>7. Has(r, i, 0, V, q, <<>>, <<>>, <<>>, <<>>, <<>>)
      BY ONLY <2>1, <3>2, <3>3, <3>6, BoxEdgeMade
    <3>8. r = Made(i, 0, V, q, <<>>, <<>>, <<>>, <<>>, <<>>)
      BY ONLY <3>7, HasIsMade
    <3>9. B(i) = r
      BY <3>1, <3>2, <3>8
    <3> HIDE DEF B
    <3> QED BY <2>2, <2>4, <3>2, <3>9
  <2> QED BY <2>3, <2>4
<1>3. 12 \in Nat /\ Len(s) = 12
  BY <1>20
<1>4. Iterate(LAMBDA c, i : IF Stopped(i) THEN c ELSE AddBoxEdge(c, BoxEdges[i]), start, s) = f[12]
  <2> HIDE DEF B
  <2> QED BY <1>3 DEF Iterate
<1>5. Eq(g)
  <2>1. \A i \in 0..12 : g[i] = IF i = 0 THEN start
                               ELSE IF Stopped(s[i]) THEN g[i - 1]
                               ELSE AddBoxEdge(g[i - 1], BoxEdges[s[i]])
    <3> HIDE DEF B
    <3> QED BY <1>1, <1>2, <1>3
  <2>2. g = [i \in 0..12 |-> g[i]]
    OBVIOUS
  <2> HIDE DEF g
  <2> QED BY <2>1, <2>2
<1>6. Eq(f)
  <2> HIDE DEF g, Eq
  <2> QED BY <1>5
<1>7. g[12] = f[12]
  <2>1. \A k : Eq(k) => \A i \in 0..12 :
                 k[i] = IF i = 0 THEN start
                        ELSE IF Stopped(s[i]) THEN k[i - 1]
                        ELSE AddBoxEdge(k[i - 1], BoxEdges[s[i]])
    OBVIOUS
  <2> HIDE DEF g, f, Eq
  <2>2. \A i \in 1..12 : i \in 0..12 /\ i # 0
    BY <1>3
  <2>3. Alike(12, f, g)
    BY <1>3, <1>5, <1>6, <2>1, <2>2 DEF Alike
  <2> QED BY <1>3, <2>3, FoldUnique
<1>8. g[12] = B(12)
  <2> HIDE DEF B
  <2> QED BY <1>3
<1>9. Iterate(LAMBDA c, i : IF Stopped(i) THEN c ELSE AddBoxEdge(c, BoxEdges[i]), start, s) = B(12)
  <2> HIDE DEF B, g, f, Eq
  <2> QED BY <1>4, <1>7, <1>8
<1>10. AddBoxEdges(start) = B(12)
  <2> HIDE DEF B
  <2> QED BY <1>0, <1>9 DEF AddBoxEdges, Stopped
<1>11. B(12) = Made(m, 0, V, First(X, m), <<>>, <<>>, <<>>, <<>>, <<>>)
  <2>1. (IF 12 <= m THEN 12 ELSE m) = m
    OBVIOUS
  <2> QED BY <2>1
<1> QED BY <1>0, <1>10, <1>11, MadeHas

\* No two edges join the same corners.
LEMMA PairsDiffer ==
  ASSUME NEW d \in 1..12, NEW e \in 1..12, EdgeFrom[d] = EdgeFrom[e], EdgeTo[d] = EdgeTo[e]
  PROVE  d = e
<1>1. PICK p, q : p = EdgeFrom /\ q = EdgeTo
  OBVIOUS
<1>2. /\ p[1] = 0 /\ p[2] = 2 /\ p[3] = 4 /\ p[4] = 6
      /\ p[5] = 0 /\ p[6] = 1 /\ p[7] = 4 /\ p[8] = 5
      /\ p[9] = 0 /\ p[10] = 1 /\ p[11] = 2 /\ p[12] = 3
  BY ONLY <1>1 DEF EdgeFrom
<1>3. /\ q[1] = 1 /\ q[2] = 3 /\ q[3] = 5 /\ q[4] = 7
      /\ q[5] = 2 /\ q[6] = 3 /\ q[7] = 6 /\ q[8] = 7
      /\ q[9] = 4 /\ q[10] = 5 /\ q[11] = 6 /\ q[12] = 7
  BY ONLY <1>1 DEF EdgeTo
<1>4. p[d] = p[e] /\ q[d] = q[e]
  BY <1>1
<1> QED BY ONLY <1>2, <1>3, <1>4, OneOfTwelve, d \in 1..12, e \in 1..12

\* find_edge() finds the edge between two corners, and its direction.
LEMMA FindEdgeIs ==
  ASSUME NEW e \in 1..12, NEW p, NEW q, p = EdgeFrom[e], q = EdgeTo[e]
  PROVE  FindEdge(p, q) = Use(e, TRUE) /\ FindEdge(q, p) = Use(e, FALSE)
<1>1. p \in 0..7 /\ q \in 0..7 /\ p < q /\ BoxEdges[e] = <<p, q>>
  BY PairsAre
<1>2. DOMAIN BoxEdges = 1..12
  BY DEF BoxEdges
<1>3. ASSUME NEW d \in 1..12, BoxEdges[d] \in {<<p, q>>, <<q, p>>}
      PROVE  d = e
  <2>1. PICK v, w : v = EdgeFrom[d] /\ w = EdgeTo[d]
    OBVIOUS
  <2>2. v \in 0..7 /\ w \in 0..7 /\ v < w /\ BoxEdges[d] = <<v, w>>
    BY <2>1, PairsAre
  <2>3. v = p /\ w = q
    BY ONLY <1>1, <1>3, <2>2
  <2> QED BY <2>1, <2>3, PairsDiffer
<1>4. /\ (CHOOSE d \in DOMAIN BoxEdges : BoxEdges[d] \in {<<p, q>>, <<q, p>>}) = e
      /\ (CHOOSE d \in DOMAIN BoxEdges : BoxEdges[d] \in {<<q, p>>, <<p, q>>}) = e
  BY <1>1, <1>2, <1>3
<1>5. <<p, q>> # <<q, p>>
  BY <1>1
<1>6. (BoxEdges[e] = <<p, q>>) = TRUE /\ (BoxEdges[e] = <<q, p>>) = FALSE
  BY <1>1, <1>5
<1>7. FindEdge(p, q) = Use(e, BoxEdges[e] = <<p, q>>)
      /\ FindEdge(q, p) = Use(e, BoxEdges[e] = <<q, p>>)
  BY <1>4, Zenon DEF FindEdge
<1> QED BY ONLY <1>6, <1>7, Zenon

\* That is what it finds.
Found(p, q, e) == FindEdge(p, q) = Use(e, TRUE) /\ FindEdge(q, p) = Use(e, FALSE)

\* What each face uses
BoxUses == <<
  <<Use(5, TRUE), Use(11, TRUE), Use(7, FALSE), Use(9, FALSE)>>,
  <<Use(10, TRUE), Use(8, TRUE), Use(12, FALSE), Use(6, FALSE)>>,
  <<Use(9, TRUE), Use(3, TRUE), Use(10, FALSE), Use(1, FALSE)>>,
  <<Use(2, TRUE), Use(12, TRUE), Use(4, FALSE), Use(11, FALSE)>>,
  <<Use(1, TRUE), Use(6, TRUE), Use(2, FALSE), Use(5, FALSE)>>,
  <<Use(7, TRUE), Use(4, TRUE), Use(8, FALSE), Use(3, FALSE)>>>>

\* A function on four places
LEMMA FourPlaces ==
  ASSUME NEW a, NEW b, NEW c, NEW d, NEW r, r = [i \in 1..4 |-> r[i]],
         r[1] = a, r[2] = b, r[3] = c, r[4] = d
  PROVE  r = <<a, b, c, d>>
<1>1. PICK t : t = <<a, b, c, d>>
  OBVIOUS
<1>2. t = [i \in 1..4 |-> t[i]] /\ t[1] = a /\ t[2] = b /\ t[3] = c /\ t[4] = d
  BY ONLY <1>1
<1>3. \A i \in 1..4 : i = 1 \/ i = 2 \/ i = 3 \/ i = 4
  OBVIOUS
<1>4. \A i \in 1..4 : t[i] = r[i]
  BY <1>2, <1>3
<1>5. t = r
  BY ONLY <1>2, <1>4, r = [i \in 1..4 |-> r[i]]
<1> QED BY <1>1, <1>5

\* The uses of a face of four corners
FaceUses(vs) == [i \in 1..4 |-> FindEdge(vs[i], vs[(i % 4) + 1])]

\* They are the edges between its corners, in turn.
LEMMA FaceUsesAre ==
  ASSUME NEW a, NEW b, NEW c, NEW d
  PROVE  FaceUses(<<a, b, c, d>>) =
           <<FindEdge(a, b), FindEdge(b, c), FindEdge(c, d), FindEdge(d, a)>>
<1>1. PICK vs, r : vs = <<a, b, c, d>> /\ r = FaceUses(vs)
  OBVIOUS
<1>2. vs[1] = a /\ vs[2] = b /\ vs[3] = c /\ vs[4] = d
  BY ONLY <1>1
<1>3. /\ (1 % 4) + 1 = 2 /\ (2 % 4) + 1 = 3 /\ (3 % 4) + 1 = 4 /\ (4 % 4) + 1 = 1
  OBVIOUS
<1>4. /\ r = [i \in 1..4 |-> r[i]]
      /\ r[1] = FindEdge(a, b) /\ r[2] = FindEdge(b, c)
      /\ r[3] = FindEdge(c, d) /\ r[4] = FindEdge(d, a)
  BY <1>1, <1>2, <1>3 DEF FaceUses
<1> QED BY ONLY <1>1, <1>4, FourPlaces

\* The faces use the edges as listed.
LEMMA BoxUsesAre ==
  ASSUME NEW f \in 1..6
  PROVE  FaceUses(BoxFaces[f]) = BoxUses[f]
<1>1. /\ EdgeFrom[1] = 0 /\ EdgeTo[1] = 1
      /\ EdgeFrom[2] = 2 /\ EdgeTo[2] = 3
      /\ EdgeFrom[3] = 4 /\ EdgeTo[3] = 5
      /\ EdgeFrom[4] = 6 /\ EdgeTo[4] = 7
      /\ EdgeFrom[5] = 0 /\ EdgeTo[5] = 2
      /\ EdgeFrom[6] = 1 /\ EdgeTo[6] = 3
      /\ EdgeFrom[7] = 4 /\ EdgeTo[7] = 6
      /\ EdgeFrom[8] = 5 /\ EdgeTo[8] = 7
      /\ EdgeFrom[9] = 0 /\ EdgeTo[9] = 4
      /\ EdgeFrom[10] = 1 /\ EdgeTo[10] = 5
      /\ EdgeFrom[11] = 2 /\ EdgeTo[11] = 6
      /\ EdgeFrom[12] = 3 /\ EdgeTo[12] = 7
  BY DEF EdgeFrom, EdgeTo
<1>2. \A e \in 1..12 : Found(EdgeFrom[e], EdgeTo[e], e)
  BY FindEdgeIs DEF Found
<1>3. /\ 1 \in 1..12 /\ 2 \in 1..12 /\ 3 \in 1..12 /\ 4 \in 1..12 /\ 5 \in 1..12 /\ 6 \in 1..12
      /\ 7 \in 1..12 /\ 8 \in 1..12 /\ 9 \in 1..12 /\ 10 \in 1..12 /\ 11 \in 1..12 /\ 12 \in 1..12
  OBVIOUS
<1>4. /\ Found(0, 1, 1)
       /\ Found(2, 3, 2)
       /\ Found(4, 5, 3)
       /\ Found(6, 7, 4)
       /\ Found(0, 2, 5)
       /\ Found(1, 3, 6)
       /\ Found(4, 6, 7)
       /\ Found(5, 7, 8)
       /\ Found(0, 4, 9)
       /\ Found(1, 5, 10)
       /\ Found(2, 6, 11)
       /\ Found(3, 7, 12)
  BY ONLY <1>1, <1>2, <1>3
<1>5. /\ FindEdge(0, 1) = Use(1, TRUE) /\ FindEdge(1, 0) = Use(1, FALSE)
      /\ FindEdge(2, 3) = Use(2, TRUE) /\ FindEdge(3, 2) = Use(2, FALSE)
      /\ FindEdge(4, 5) = Use(3, TRUE) /\ FindEdge(5, 4) = Use(3, FALSE)
      /\ FindEdge(6, 7) = Use(4, TRUE) /\ FindEdge(7, 6) = Use(4, FALSE)
      /\ FindEdge(0, 2) = Use(5, TRUE) /\ FindEdge(2, 0) = Use(5, FALSE)
      /\ FindEdge(1, 3) = Use(6, TRUE) /\ FindEdge(3, 1) = Use(6, FALSE)
      /\ FindEdge(4, 6) = Use(7, TRUE) /\ FindEdge(6, 4) = Use(7, FALSE)
      /\ FindEdge(5, 7) = Use(8, TRUE) /\ FindEdge(7, 5) = Use(8, FALSE)
      /\ FindEdge(0, 4) = Use(9, TRUE) /\ FindEdge(4, 0) = Use(9, FALSE)
      /\ FindEdge(1, 5) = Use(10, TRUE) /\ FindEdge(5, 1) = Use(10, FALSE)
      /\ FindEdge(2, 6) = Use(11, TRUE) /\ FindEdge(6, 2) = Use(11, FALSE)
      /\ FindEdge(3, 7) = Use(12, TRUE) /\ FindEdge(7, 3) = Use(12, FALSE)
  BY ONLY <1>4 DEF Found
<1>6. /\ FaceUses(<<0, 2, 6, 4>>) = <<Use(5, TRUE), Use(11, TRUE), Use(7, FALSE), Use(9, FALSE)>>
      /\ FaceUses(<<1, 5, 7, 3>>) = <<Use(10, TRUE), Use(8, TRUE), Use(12, FALSE), Use(6, FALSE)>>
      /\ FaceUses(<<0, 4, 5, 1>>) = <<Use(9, TRUE), Use(3, TRUE), Use(10, FALSE), Use(1, FALSE)>>
      /\ FaceUses(<<2, 3, 7, 6>>) = <<Use(2, TRUE), Use(12, TRUE), Use(4, FALSE), Use(11, FALSE)>>
      /\ FaceUses(<<0, 1, 3, 2>>) = <<Use(1, TRUE), Use(6, TRUE), Use(2, FALSE), Use(5, FALSE)>>
      /\ FaceUses(<<4, 6, 7, 5>>) = <<Use(7, TRUE), Use(4, TRUE), Use(8, FALSE), Use(3, FALSE)>>
  <2>1. FaceUses(<<0, 2, 6, 4>>) = <<Use(5, TRUE), Use(11, TRUE), Use(7, FALSE), Use(9, FALSE)>>
    <3>1. FaceUses(<<0, 2, 6, 4>>) =
          <<FindEdge(0, 2), FindEdge(2, 6), FindEdge(6, 4), FindEdge(4, 0)>>
      BY ONLY FaceUsesAre
    <3> QED BY <1>5, <3>1, Zenon
  <2>2. FaceUses(<<1, 5, 7, 3>>) = <<Use(10, TRUE), Use(8, TRUE), Use(12, FALSE), Use(6, FALSE)>>
    <3>1. FaceUses(<<1, 5, 7, 3>>) =
          <<FindEdge(1, 5), FindEdge(5, 7), FindEdge(7, 3), FindEdge(3, 1)>>
      BY ONLY FaceUsesAre
    <3> QED BY <1>5, <3>1, Zenon
  <2>3. FaceUses(<<0, 4, 5, 1>>) = <<Use(9, TRUE), Use(3, TRUE), Use(10, FALSE), Use(1, FALSE)>>
    <3>1. FaceUses(<<0, 4, 5, 1>>) =
          <<FindEdge(0, 4), FindEdge(4, 5), FindEdge(5, 1), FindEdge(1, 0)>>
      BY ONLY FaceUsesAre
    <3> QED BY <1>5, <3>1, Zenon
  <2>4. FaceUses(<<2, 3, 7, 6>>) = <<Use(2, TRUE), Use(12, TRUE), Use(4, FALSE), Use(11, FALSE)>>
    <3>1. FaceUses(<<2, 3, 7, 6>>) =
          <<FindEdge(2, 3), FindEdge(3, 7), FindEdge(7, 6), FindEdge(6, 2)>>
      BY ONLY FaceUsesAre
    <3> QED BY <1>5, <3>1, Zenon
  <2>5. FaceUses(<<0, 1, 3, 2>>) = <<Use(1, TRUE), Use(6, TRUE), Use(2, FALSE), Use(5, FALSE)>>
    <3>1. FaceUses(<<0, 1, 3, 2>>) =
          <<FindEdge(0, 1), FindEdge(1, 3), FindEdge(3, 2), FindEdge(2, 0)>>
      BY ONLY FaceUsesAre
    <3> QED BY <1>5, <3>1, Zenon
  <2>6. FaceUses(<<4, 6, 7, 5>>) = <<Use(7, TRUE), Use(4, TRUE), Use(8, FALSE), Use(3, FALSE)>>
    <3>1. FaceUses(<<4, 6, 7, 5>>) =
          <<FindEdge(4, 6), FindEdge(6, 7), FindEdge(7, 5), FindEdge(5, 4)>>
      BY ONLY FaceUsesAre
    <3> QED BY <1>5, <3>1, Zenon
  <2> QED BY <2>1, <2>2, <2>3, <2>4, <2>5, <2>6
<1>7. /\ BoxFaces[1] = <<0, 2, 6, 4>>
      /\ BoxFaces[2] = <<1, 5, 7, 3>>
      /\ BoxFaces[3] = <<0, 4, 5, 1>>
      /\ BoxFaces[4] = <<2, 3, 7, 6>>
      /\ BoxFaces[5] = <<0, 1, 3, 2>>
      /\ BoxFaces[6] = <<4, 6, 7, 5>>
  BY DEF BoxFaces
<1>8. /\ BoxUses[1] = <<Use(5, TRUE), Use(11, TRUE), Use(7, FALSE), Use(9, FALSE)>>
      /\ BoxUses[2] = <<Use(10, TRUE), Use(8, TRUE), Use(12, FALSE), Use(6, FALSE)>>
      /\ BoxUses[3] = <<Use(9, TRUE), Use(3, TRUE), Use(10, FALSE), Use(1, FALSE)>>
      /\ BoxUses[4] = <<Use(2, TRUE), Use(12, TRUE), Use(4, FALSE), Use(11, FALSE)>>
      /\ BoxUses[5] = <<Use(1, TRUE), Use(6, TRUE), Use(2, FALSE), Use(5, FALSE)>>
      /\ BoxUses[6] = <<Use(7, TRUE), Use(4, TRUE), Use(8, FALSE), Use(3, FALSE)>>
  BY DEF BoxUses
<1>9. f = 1 \/ f = 2 \/ f = 3 \/ f = 4 \/ f = 5 \/ f = 6
  OBVIOUS
<1> QED BY ONLY <1>6, <1>7, <1>8, <1>9, Zenon

\* Four uses, by their edges
LEMMA FourUses ==
  ASSUME NEW n \in Nat, NEW a \in 1..n, NEW b \in 1..n, NEW c \in 1..n, NEW d \in 1..n,
         NEW p \in BOOLEAN, NEW q \in BOOLEAN, NEW r \in BOOLEAN, NEW s \in BOOLEAN
  PROVE  <<Use(a, p), Use(b, q), Use(c, r), Use(d, s)>> \in UsesUpTo(n, 4)
<1>1. PICK T : T = [edge : 1..n, same : BOOLEAN]
  OBVIOUS
<1>2. \A e \in 1..n, z \in BOOLEAN : Use(e, z) \in T
  BY <1>1 DEF Use
<1>3. PICK x, y, z, w : x = Use(a, p) /\ y = Use(b, q) /\ z = Use(c, r) /\ w = Use(d, s)
  OBVIOUS
<1>4. x \in T /\ y \in T /\ z \in T /\ w \in T
  BY <1>2, <1>3
<1>5. <<x, y, z, w>> \in Seq(T) /\ Len(<<x, y, z, w>>) = 4
  BY ONLY <1>4
<1> QED BY <1>1, <1>3, <1>5 DEF UsesUpTo

\* The uses of each face of a box
LEMMA BoxUsesFit ==
  ASSUME NEW f \in 1..6
  PROVE  BoxUses[f] \in UsesUpTo(12, 4)
<1>1. 12 \in Nat /\ \A e \in {1, 2, 3, 4, 5, 6, 7, 8, 9, 10, 11, 12} : e \in 1..12
  OBVIOUS
<1>2. <<Use(5, TRUE), Use(11, TRUE), Use(7, FALSE), Use(9, FALSE)>> \in UsesUpTo(12, 4)
  BY <1>1, FourUses
<1>3. <<Use(10, TRUE), Use(8, TRUE), Use(12, FALSE), Use(6, FALSE)>> \in UsesUpTo(12, 4)
  BY <1>1, FourUses
<1>4. <<Use(9, TRUE), Use(3, TRUE), Use(10, FALSE), Use(1, FALSE)>> \in UsesUpTo(12, 4)
  BY <1>1, FourUses
<1>5. <<Use(2, TRUE), Use(12, TRUE), Use(4, FALSE), Use(11, FALSE)>> \in UsesUpTo(12, 4)
  BY <1>1, FourUses
<1>6. <<Use(1, TRUE), Use(6, TRUE), Use(2, FALSE), Use(5, FALSE)>> \in UsesUpTo(12, 4)
  BY <1>1, FourUses
<1>7. <<Use(7, TRUE), Use(4, TRUE), Use(8, FALSE), Use(3, FALSE)>> \in UsesUpTo(12, 4)
  BY <1>1, FourUses
<1>8. /\ BoxUses[1] = <<Use(5, TRUE), Use(11, TRUE), Use(7, FALSE), Use(9, FALSE)>>
      /\ BoxUses[2] = <<Use(10, TRUE), Use(8, TRUE), Use(12, FALSE), Use(6, FALSE)>>
      /\ BoxUses[3] = <<Use(9, TRUE), Use(3, TRUE), Use(10, FALSE), Use(1, FALSE)>>
      /\ BoxUses[4] = <<Use(2, TRUE), Use(12, TRUE), Use(4, FALSE), Use(11, FALSE)>>
      /\ BoxUses[5] = <<Use(1, TRUE), Use(6, TRUE), Use(2, FALSE), Use(5, FALSE)>>
      /\ BoxUses[6] = <<Use(7, TRUE), Use(4, TRUE), Use(8, FALSE), Use(3, FALSE)>>
  BY DEF BoxUses
<1>9. f = 1 \/ f = 2 \/ f = 3 \/ f = 4 \/ f = 5 \/ f = 6
  OBVIOUS
<1> QED BY ONLY <1>2, <1>3, <1>4, <1>5, <1>6, <1>7, <1>8, <1>9, Zenon

\* They meet at the corners.
LEMMA BoxMeets ==
  ASSUME NEW f \in 1..6
  PROVE  Meets(EdgesOf, BoxUses[f])
<1>1. PICK p, q, E : p = EdgeFrom /\ q = EdgeTo /\ E = EdgesOf
  OBVIOUS
<1>2. /\ p[1] = 0 /\ q[1] = 1
      /\ p[2] = 2 /\ q[2] = 3
      /\ p[3] = 4 /\ q[3] = 5
      /\ p[4] = 6 /\ q[4] = 7
      /\ p[5] = 0 /\ q[5] = 2
      /\ p[6] = 1 /\ q[6] = 3
      /\ p[7] = 4 /\ q[7] = 6
      /\ p[8] = 5 /\ q[8] = 7
      /\ p[9] = 0 /\ q[9] = 4
      /\ p[10] = 1 /\ q[10] = 5
      /\ p[11] = 2 /\ q[11] = 6
      /\ p[12] = 3 /\ q[12] = 7
  BY ONLY <1>1 DEF EdgeFrom, EdgeTo
<1>3. \A e \in 1..12 : Ends(E, e, p[e] + 1, q[e] + 1)
  <2>1. \A e \in 1..12 : E[e] = EdgeOf(e, p[e] + 1, q[e] + 1)
    BY ONLY <1>1 DEF EdgesOf
  <2> QED BY ONLY <2>1, UseEnds
<1>4. /\ Ends(E, 1, 1, 2) /\ Ends(E, 2, 3, 4)
      /\ Ends(E, 3, 5, 6) /\ Ends(E, 4, 7, 8)
      /\ Ends(E, 5, 1, 3) /\ Ends(E, 6, 2, 4)
      /\ Ends(E, 7, 5, 7) /\ Ends(E, 8, 6, 8)
      /\ Ends(E, 9, 1, 5) /\ Ends(E, 10, 2, 6)
      /\ Ends(E, 11, 3, 7) /\ Ends(E, 12, 4, 8)
  <2>1. /\ 1 \in 1..12 /\ 2 \in 1..12 /\ 3 \in 1..12 /\ 4 \in 1..12
        /\ 5 \in 1..12 /\ 6 \in 1..12 /\ 7 \in 1..12 /\ 8 \in 1..12
        /\ 9 \in 1..12 /\ 10 \in 1..12 /\ 11 \in 1..12 /\ 12 \in 1..12
    OBVIOUS
  <2>2. /\ 0 + 1 = 1 /\ 1 + 1 = 2 /\ 2 + 1 = 3 /\ 3 + 1 = 4
        /\ 4 + 1 = 5 /\ 5 + 1 = 6 /\ 6 + 1 = 7 /\ 7 + 1 = 8
    OBVIOUS
  <2>3. Ends(E, 1, p[1] + 1, q[1] + 1)
    BY ONLY <1>3, <2>1
  <2>4. Ends(E, 2, p[2] + 1, q[2] + 1)
    BY ONLY <1>3, <2>1
  <2>5. Ends(E, 3, p[3] + 1, q[3] + 1)
    BY ONLY <1>3, <2>1
  <2>6. Ends(E, 4, p[4] + 1, q[4] + 1)
    BY ONLY <1>3, <2>1
  <2>7. Ends(E, 5, p[5] + 1, q[5] + 1)
    BY ONLY <1>3, <2>1
  <2>8. Ends(E, 6, p[6] + 1, q[6] + 1)
    BY ONLY <1>3, <2>1
  <2>9. Ends(E, 7, p[7] + 1, q[7] + 1)
    BY ONLY <1>3, <2>1
  <2>10. Ends(E, 8, p[8] + 1, q[8] + 1)
    BY ONLY <1>3, <2>1
  <2>11. Ends(E, 9, p[9] + 1, q[9] + 1)
    BY ONLY <1>3, <2>1
  <2>12. Ends(E, 10, p[10] + 1, q[10] + 1)
    BY ONLY <1>3, <2>1
  <2>13. Ends(E, 11, p[11] + 1, q[11] + 1)
    BY ONLY <1>3, <2>1
  <2>14. Ends(E, 12, p[12] + 1, q[12] + 1)
    BY ONLY <1>3, <2>1
  <2> QED BY ONLY <1>2, <2>2, <2>3, <2>4, <2>5, <2>6, <2>7, <2>8, <2>9,
                  <2>10, <2>11, <2>12, <2>13, <2>14, ZenonT(60)
<1>5. Meets(E, <<Use(5, TRUE), Use(11, TRUE), Use(7, FALSE), Use(9, FALSE)>>)
  BY <1>4, MeetsFour DEF Ends
<1>6. Meets(E, <<Use(10, TRUE), Use(8, TRUE), Use(12, FALSE), Use(6, FALSE)>>)
  BY <1>4, MeetsFour DEF Ends
<1>7. Meets(E, <<Use(9, TRUE), Use(3, TRUE), Use(10, FALSE), Use(1, FALSE)>>)
  BY <1>4, MeetsFour DEF Ends
<1>8. Meets(E, <<Use(2, TRUE), Use(12, TRUE), Use(4, FALSE), Use(11, FALSE)>>)
  BY <1>4, MeetsFour DEF Ends
<1>9. Meets(E, <<Use(1, TRUE), Use(6, TRUE), Use(2, FALSE), Use(5, FALSE)>>)
  BY <1>4, MeetsFour DEF Ends
<1>10. Meets(E, <<Use(7, TRUE), Use(4, TRUE), Use(8, FALSE), Use(3, FALSE)>>)
  BY <1>4, MeetsFour DEF Ends
<1>11. /\ BoxUses[1] = <<Use(5, TRUE), Use(11, TRUE), Use(7, FALSE), Use(9, FALSE)>>
      /\ BoxUses[2] = <<Use(10, TRUE), Use(8, TRUE), Use(12, FALSE), Use(6, FALSE)>>
      /\ BoxUses[3] = <<Use(9, TRUE), Use(3, TRUE), Use(10, FALSE), Use(1, FALSE)>>
      /\ BoxUses[4] = <<Use(2, TRUE), Use(12, TRUE), Use(4, FALSE), Use(11, FALSE)>>
      /\ BoxUses[5] = <<Use(1, TRUE), Use(6, TRUE), Use(2, FALSE), Use(5, FALSE)>>
      /\ BoxUses[6] = <<Use(7, TRUE), Use(4, TRUE), Use(8, FALSE), Use(3, FALSE)>>
  BY DEF BoxUses
<1>12. f = 1 \/ f = 2 \/ f = 3 \/ f = 4 \/ f = 5 \/ f = 6
  OBVIOUS
<1> QED BY ONLY <1>1, <1>5, <1>6, <1>7, <1>8, <1>9, <1>10, <1>11, <1>12, Zenon

\* Behind how many coedges a face of a box comes
BoxCounts == [f \in 1..7 |-> 4 * (f - 1)]

\* A face of a box, with its surface
AddBoxFace(m, vs) == AddFace(AddSurface(m), m.surfaces + 1, FaceUses(vs))

\* It adds the ring of the next face.
LEMMA BoxFaceMade ==
  ASSUME NEW V, NEW k \in 0..5, NEW j, j = k + 1,
         NEW m, Faced(m, 12, k, V, EdgesOf, BoxUses, BoxCounts, k), NEW vs, vs = BoxFaces[j]
  PROVE  Faced(AddBoxFace(m, vs), 12, j, V, EdgesOf, BoxUses, BoxCounts, j)
<1>1. PICK E, U, N, uses, d :
        /\ E = EdgesOf /\ U = BoxUses /\ N = BoxCounts /\ uses = U[j] /\ d = AddSurface(m)
  OBVIOUS
<1>2. k \in Nat /\ j \in 1..6 /\ 12 \in Nat /\ k + 2 = j + 1 /\ j \in 1..j
  OBVIOUS
<1>3. Faced(d, 12, j, V, E, U, N, k)
  BY <1>1, <1>2, FacedSurface
<1>4. m.surfaces + 1 = j
  <2>1. \E C, L, F, fs : Has(m, 12, k, V, E, C, L, F, <<fs>>, <<>>)
    BY <1>1, Zenon DEF Faced
  <2> QED BY <2>1 DEF Has
<1>5. uses \in UsesUpTo(12, 4)
  BY <1>1, <1>2, BoxUsesFit
<1>6. PICK T : T = [edge : 1..12, same : BOOLEAN]
  OBVIOUS
<1>7. uses \in Seq(T) /\ Len(uses) = 4
  BY <1>5, <1>6 DEF UsesUpTo
<1>15. uses \in Seq(T)
  BY <1>7
<1>16. \A i \in 1..Len(uses) : uses[i] \in T
  BY ONLY <1>15
<1>8. T \subseteq Uses
  BY <1>6 DEF Uses
<1>9. uses \in Seq(Uses) /\ uses # <<>>
  <2>1. uses \in Seq(Uses)
    BY ONLY <1>8, <1>15
  <2>2. uses # <<>>
    BY ONLY <1>7
  <2> QED BY <2>1, <2>2
<1>10. \A i \in 1..Len(uses) : uses[i].edge \in DOMAIN E
  <2>2. DOMAIN E = 1..12
    BY ONLY <1>1 DEF EdgesOf
  <2> QED BY <1>6, <1>16, <2>2
<1>11. N[k + 2] = N[k + 1] + Len(uses)
  <2>1. N[k + 2] = 4 * (k + 1) /\ N[k + 1] = 4 * k
    BY <1>1, <1>2 DEF BoxCounts
  <2> QED BY <1>2, <1>7, <2>1
<1>12. uses = U[k + 1]
  BY <1>1
<1>13. Faced(AddFace(d, j, uses), 12, j, V, E, U, N, k + 1)
  BY ONLY <1>2, <1>3, <1>9, <1>10, <1>11, <1>12, FacedStep
<1>14. FaceUses(vs) = uses
  BY <1>1, <1>2, BoxUsesAre
<1> QED BY <1>1, <1>4, <1>13, <1>14 DEF AddBoxFace

\* The corners and the edges are whole.
LEMMA BoxFrameWhole ==
  ASSUME NEW c, NEW h, NEW V, V = CornersOf(c, h)
  PROVE  /\ \E P : V \in Seq([pos : P, outgoing : Nat])
         /\ VerticesWhole(V, <<>>) /\ DOMAIN V = 1..8 /\ Len(V) = 8
         /\ EdgesOf \in Seq(Edge) /\ EdgesWhole(12, V, EdgesOf, <<>>)
         /\ DOMAIN EdgesOf = 1..12 /\ Len(EdgesOf) = 12
<1>1. PICK P, T : P = {Corner(c, h, v - 1) : v \in 1..8} /\ T = [pos : P, outgoing : Nat]
  OBVIOUS
<1>2. ASSUME NEW v \in 1..8 PROVE V[v] \in T /\ V[v].outgoing = 0
  <2>1. PICK x, p : x = V[v] /\ p = Corner(c, h, v - 1)
    OBVIOUS
  <2>2. p \in P
    BY <1>1, <2>1
  <2>3. x = [pos |-> p, outgoing |-> 0]
    BY <2>1 DEF CornersOf, VertexOf
  <2>4. x \in T /\ x.outgoing = 0
    BY ONLY <1>1, <2>2, <2>3
  <2> QED BY <2>1, <2>4
<1>3. DOMAIN V = 1..8 /\ V \in Seq(T) /\ Len(V) = 8
  <2>1. V = [v \in 1..8 |-> V[v]]
    BY DEF CornersOf
  <2> QED BY ONLY <1>2, <2>1
<1>4. VerticesWhole(V, <<>>)
  BY ONLY <1>2, <1>3 DEF VerticesWhole, NullOrIn
<1>5. PICK E : E = EdgesOf
  OBVIOUS
<1>6. Joins(12, V, 12, E)
  <2>1. E = [e \in 1..12 |-> E[e]]
    BY <1>5 DEF EdgesOf
  <2>2. ASSUME NEW e \in 1..12
        PROVE  \E d \in 1..12, v, w \in DOMAIN V : E[e] = EdgeOf(d, v, w)
    <3>1. EdgeFrom[e] \in 0..7 /\ EdgeTo[e] \in 0..7
      BY PairsAre
    <3>2. EdgeFrom[e] + 1 \in DOMAIN V /\ EdgeTo[e] + 1 \in DOMAIN V
      BY <1>3, <3>1
    <3>3. E[e] = EdgeOf(e, EdgeFrom[e] + 1, EdgeTo[e] + 1)
      BY <1>5 DEF EdgesOf
    <3> QED BY ONLY <3>2, <3>3, e \in 1..12, Zenon
  <2> QED BY ONLY <2>1, <2>2 DEF Joins
<1>7. E \in Seq(Edge) /\ EdgesWhole(12, V, E, <<>>) /\ DOMAIN E = 1..12 /\ Len(E) = 12
  <2>1. PICK n : n = 12
    OBVIOUS
  <2>2. n \in Nat /\ DOMAIN V \subseteq Nat
    BY <1>3, <2>1
  <2>3. Joins(n, V, n, E)
    BY <1>6, <2>1
  <2>4. /\ E \in Seq(Edge) /\ EdgesWhole(n, V, E, <<>>)
        /\ DOMAIN E = 1..n /\ Len(E) = n
    BY ONLY <2>2, <2>3, EdgesMade
  <2> QED BY <2>1, <2>4
<1> QED BY <1>1, <1>3, <1>4, <1>5, <1>7

\* The faces of a box are made one by one.
LEMMA BoxFaced ==
  ASSUME NEW c, NEW h, NEW V, V = CornersOf(c, h),
         NEW b, Has(b, 12, 0, V, EdgesOf, <<>>, <<>>, <<>>, <<>>, <<>>)
  PROVE  Faced(AddBoxFaces(b), 12, 6, V, EdgesOf, BoxUses, BoxCounts, 6)
<1> DEFINE Is(m, k) == Faced(m, 12, k, V, EdgesOf, BoxUses, BoxCounts, k)
<1>20. PICK b0, s : b0 = NewShell(b) /\ s = BoxFaces
  OBVIOUS
<1>21. Is(b0, 0)
  <2>1. BoxCounts[1] = 0
    BY DEF BoxCounts
  <2>2. 12 \in Nat /\ 0 \in Nat
    OBVIOUS
  <2> QED BY <1>20, <2>1, <2>2, BoxFrameWhole, FacedStart
<1> HIDE DEF Is
<1>22. ASSUME NEW k \in 0..5, NEW m, Is(m, k) PROVE Is(AddBoxFace(m, s[k + 1]), k + 1)
  BY <1>20, <1>22, BoxFaceMade DEF Is
<1>23. Len(s) = 6
  BY <1>20 DEF BoxFaces
<1>31. PICK b1 : b1 = AddBoxFace(b0, s[1])
  OBVIOUS
<1>32. PICK b2 : b2 = AddBoxFace(b1, s[2])
  OBVIOUS
<1>33. PICK b3 : b3 = AddBoxFace(b2, s[3])
  OBVIOUS
<1>34. PICK b4 : b4 = AddBoxFace(b3, s[4])
  OBVIOUS
<1>35. PICK b5 : b5 = AddBoxFace(b4, s[5])
  OBVIOUS
<1>36. PICK b6 : b6 = AddBoxFace(b5, s[6])
  OBVIOUS
<1>40. Is(b6, 6)
  <2>1. Is(b1, 1)
    <3>1. 0 \in 0..5 /\ 0 + 1 = 1
      OBVIOUS
    <3> QED BY ONLY <1>22, <1>31, <1>21, <3>1
  <2>2. Is(b2, 2)
    <3>1. 1 \in 0..5 /\ 1 + 1 = 2
      OBVIOUS
    <3> QED BY ONLY <1>22, <1>32, <2>1, <3>1
  <2>3. Is(b3, 3)
    <3>1. 2 \in 0..5 /\ 2 + 1 = 3
      OBVIOUS
    <3> QED BY ONLY <1>22, <1>33, <2>2, <3>1
  <2>4. Is(b4, 4)
    <3>1. 3 \in 0..5 /\ 3 + 1 = 4
      OBVIOUS
    <3> QED BY ONLY <1>22, <1>34, <2>3, <3>1
  <2>5. Is(b5, 5)
    <3>1. 4 \in 0..5 /\ 4 + 1 = 5
      OBVIOUS
    <3> QED BY ONLY <1>22, <1>35, <2>4, <3>1
  <2>6. Is(b6, 6)
    <3>1. 5 \in 0..5 /\ 5 + 1 = 6
      OBVIOUS
    <3> QED BY ONLY <1>22, <1>36, <2>5, <3>1
  <2> QED BY <2>6
<1> DEFINE B(i) == IF i = 0 THEN b0 ELSE IF i = 1 THEN b1 ELSE IF i = 2 THEN b2
                   ELSE IF i = 3 THEN b3
                   ELSE IF i = 4 THEN b4 ELSE IF i = 5 THEN b5 ELSE b6
           g == [i \in 0..6 |-> B(i)]
           Eq(f) == f = [i \in 0..6 |->
                           IF i = 0 THEN b0
                           ELSE AddBoxFace(f[i - 1], s[i])]
           f == CHOOSE k : Eq(k)
<1>1. B(0) = b0
  OBVIOUS
<1>2. ASSUME NEW i \in 1..6
      PROVE  B(i) = AddBoxFace(B(i - 1), s[i])
  <2>1. i = 1 \/ i = 2 \/ i = 3 \/ i = 4 \/ i = 5 \/ i = 6
    OBVIOUS
  <2>2. CASE i = 1
    <3>1. B(i) = b1 /\ B(i - 1) = b0
      BY <2>2
    <3> HIDE DEF B
    <3> QED BY <1>31, <2>2, <3>1
  <2>3. CASE i = 2
    <3>1. B(i) = b2 /\ B(i - 1) = b1
      BY <2>3
    <3> HIDE DEF B
    <3> QED BY <1>32, <2>3, <3>1
  <2>4. CASE i = 3
    <3>1. B(i) = b3 /\ B(i - 1) = b2
      BY <2>4
    <3> HIDE DEF B
    <3> QED BY <1>33, <2>4, <3>1
  <2>5. CASE i = 4
    <3>1. B(i) = b4 /\ B(i - 1) = b3
      BY <2>5
    <3> HIDE DEF B
    <3> QED BY <1>34, <2>5, <3>1
  <2>6. CASE i = 5
    <3>1. B(i) = b5 /\ B(i - 1) = b4
      BY <2>6
    <3> HIDE DEF B
    <3> QED BY <1>35, <2>6, <3>1
  <2>7. CASE i = 6
    <3>1. B(i) = b6 /\ B(i - 1) = b5
      BY <2>7
    <3> HIDE DEF B
    <3> QED BY <1>36, <2>7, <3>1
  <2> QED BY <2>1, <2>2, <2>3, <2>4, <2>5, <2>6, <2>7
<1>3. 6 \in Nat /\ Len(s) = 6
  BY <1>23
<1>4. Iterate(LAMBDA m, vs : AddBoxFace(m, vs), b0, s) = f[6]
  <2> HIDE DEF B
  <2> QED BY <1>3 DEF Iterate
<1>5. Eq(g)
  <2>1. \A i \in 0..6 : g[i] = IF i = 0 THEN b0
                               ELSE AddBoxFace(g[i - 1], s[i])
    <3> HIDE DEF B
    <3> QED BY <1>1, <1>2, <1>3
  <2>2. g = [i \in 0..6 |-> g[i]]
    OBVIOUS
  <2> HIDE DEF g
  <2> QED BY <2>1, <2>2
<1>6. Eq(f)
  <2> HIDE DEF g, Eq
  <2> QED BY <1>5
<1>7. g[6] = f[6]
  <2>1. \A k : Eq(k) => \A i \in 0..6 :
                 k[i] = IF i = 0 THEN b0
                        ELSE AddBoxFace(k[i - 1], s[i])
    OBVIOUS
  <2> HIDE DEF g, f, Eq
  <2>2. \A i \in 1..6 : i \in 0..6 /\ i # 0
    BY <1>3
  <2>3. Alike(6, f, g)
    BY <1>3, <1>5, <1>6, <2>1, <2>2 DEF Alike
  <2> QED BY <1>3, <2>3, FoldUnique
<1>8. g[6] = B(6)
  <2> HIDE DEF B
  <2> QED BY <1>3
<1>9. Iterate(LAMBDA m, vs : AddBoxFace(m, vs), b0, s) = B(6)
  <2> HIDE DEF B, g, f, Eq
  <2> QED BY <1>4, <1>7, <1>8
<1>10. AddBoxFaces(b) = B(6)
  <2> HIDE DEF B
  <2> QED BY <1>9, <1>20 DEF AddBoxFaces, AddBoxFace, FaceUses
<1>11. B(6) = b6
  OBVIOUS
<1> QED BY <1>10, <1>11, <1>40 DEF Is

\* The numbers up to n
UpTo(n) == [c \in 1..n |-> c]

\* Further numbers behind them
LEMMA CountOn ==
  ASSUME NEW n \in Nat, NEW m \in Nat, NEW k, k = n + m
  PROVE  UpTo(n) \o [j \in 1..m |-> n + j] = UpTo(k)
<1>1. PICK s, t, r : s = UpTo(n) /\ t = [j \in 1..m |-> n + j] /\ r = s \o t
  OBVIOUS
<1>2. s \in Seq(Nat) /\ Len(s) = n /\ \A i \in 1..n : s[i] = i
  BY <1>1 DEF UpTo
<1>3. t \in Seq(Nat) /\ Len(t) = m /\ \A i \in 1..m : t[i] = n + i
  BY <1>1
<1>4. r \in Seq(Nat) /\ Joined(r, s, t, n)
  BY <1>1, <1>2, <1>3, JoinedElements
<1>5. DOMAIN r = 1..k
  BY <1>3, <1>4 DEF Joined
<1>6. ASSUME NEW i \in 1..k PROVE r[i] = i
  <2>1. i \in 1..n \/ \E j \in 1..m : i = n + j
    BY <1>3, <1>4, <1>5 DEF Joined
  <2> QED BY <1>2, <1>3, <1>4, <2>1 DEF Joined
<1>7. r = [i \in 1..k |-> r[i]]
  BY <1>4, <1>5
<1>8. r = UpTo(k)
  BY ONLY <1>6, <1>7 DEF UpTo
<1> QED BY <1>1, <1>8

\* The coedges of a box are walked in the order they were made.
LEMMA BoxRings ==
  ASSUME NEW V, NEW E, NEW b, Faced(b, 12, 6, V, E, BoxUses, BoxCounts, 6)
  PROVE  AllRings(b) = UpTo(24)
<1> DEFINE Walked(all, k) == all \o Ring(b, k)
<1>19. PICK none : none = <<>>
  OBVIOUS
<1> HIDE DEF Walked
<1>20. PICK C, L, F, fs :
         /\ Has(b, 12, 6, V, E, C, L, F, <<fs>>, <<>>)
         /\ Whole(12, 6, V, E, C, L, F, <<fs>>, <<>>)
         /\ Len(F) = 6 /\ Len(C) = BoxCounts[6 + 1]
         /\ \A f \in 1..6 : FaceRing(C, L, F, f, BoxUses[f], BoxCounts[f])
  BY Zenon DEF Faced
<1>21. b.coedges = C /\ b.loops = L /\ b.faces = F
  BY <1>20, Zenon DEF Has
<1>22. C \in Seq(Coedge) /\ F \in Seq(Face)
  BY <1>20, Zenon DEF Whole
<1>23. PICK s : s = Places(b.faces)
  OBVIOUS
<1>24. Len(s) = 6 /\ \A i \in 1..6 : s[i] = i
  <2>1. DOMAIN F = 1..6
    BY <1>20, <1>22
  <2>2. s = [i \in 1..6 |-> i]
    BY <1>21, <1>23, <2>1 DEF Places
  <2> QED BY ONLY <2>2
<1>25. ASSUME NEW f \in 1..6
       PROVE  Ring(b, f) = [i \in 1..4 |-> 4 * (f - 1) + i]
  <2>1. PICK uses, n : uses = BoxUses[f] /\ n = BoxCounts[f]
    OBVIOUS
  <2>2. FaceRing(b.coedges, b.loops, b.faces, f, uses, n)
    BY <1>20, <1>21, <2>1
  <2>3. uses \in UsesUpTo(12, 4)
    BY <2>1, BoxUsesFit
  <2>4. uses \in Seq(Uses) /\ Len(uses) = 4
    <3>1. PICK T : T = [edge : 1..12, same : BOOLEAN]
      OBVIOUS
    <3>2. T \subseteq Uses
      BY <3>1 DEF Uses
    <3>3. uses \in Seq(T) /\ Len(uses) = 4
      BY <2>3, <3>1 DEF UsesUpTo
    <3> QED BY ONLY <3>2, <3>3
  <2>5. n = 4 * (f - 1) /\ n \in Nat
    BY <2>1 DEF BoxCounts
  <2>6. PICK m : m = 4 /\ m = Len(uses) /\ m \in 1..4
    BY <2>4
  <2>7. b.coedges \in Seq(Coedge)
    BY <1>21, <1>22
  <2>8. n \in Nat /\ m = Len(uses) /\ m \in 1..4 /\ uses \in Seq(Uses)
    BY <2>4, <2>5, <2>6
  <2>9. PICK r : r = Ring(b, f)
    OBVIOUS
  <2>10. Numbered(r, n, m)
    BY ONLY <2>2, <2>7, <2>8, <2>9, RingIs
  <2>11. r = [i \in 1..4 |-> n + i]
    BY ONLY <2>6, <2>10 DEF Numbered
  <2> QED BY ONLY <2>5, <2>9, <2>11
<1> DEFINE B(i) == UpTo(4 * i)
           g == [i \in 0..6 |-> B(i)]
           Eq(f) == f = [i \in 0..6 |->
                           IF i = 0 THEN none
                           ELSE Walked(f[i - 1], s[i])]
           f == CHOOSE k : Eq(k)
<1>1. B(0) = none
  BY <1>19 DEF UpTo
<1>2. ASSUME NEW i \in 1..6
      PROVE  B(i) = Walked(B(i - 1), s[i])
  <2>1. s[i] = i /\ i \in 1..6
    BY <1>24
  <2>2. PICK n, m, k : n = 4 * (i - 1) /\ m = 4 /\ k = 4 * i
    OBVIOUS
  <2>3. n \in Nat /\ m \in Nat /\ k = n + m
    BY <2>2
  <2>4. UpTo(n) \o [j \in 1..m |-> n + j] = UpTo(k)
    BY ONLY <2>3, CountOn
  <2>5. Ring(b, s[i]) = [j \in 1..m |-> n + j]
    BY <1>25, <2>1, <2>2
  <2> QED BY <2>2, <2>4, <2>5 DEF Walked
<1>3. 6 \in Nat /\ Len(s) = 6
  BY <1>24
<1>4. Iterate(LAMBDA all, k : Walked(all, k), none, s) = f[6]
  <2> HIDE DEF B
  <2> QED BY <1>3 DEF Iterate
<1>5. Eq(g)
  <2>1. \A i \in 0..6 : g[i] = IF i = 0 THEN none
                               ELSE Walked(g[i - 1], s[i])
    <3> HIDE DEF B
    <3> QED BY <1>1, <1>2, <1>3
  <2>2. g = [i \in 0..6 |-> g[i]]
    OBVIOUS
  <2> HIDE DEF g
  <2> QED BY <2>1, <2>2
<1>6. Eq(f)
  <2> HIDE DEF g, Eq
  <2> QED BY <1>5
<1>7. g[6] = f[6]
  <2>1. \A k : Eq(k) => \A i \in 0..6 :
                 k[i] = IF i = 0 THEN none
                        ELSE Walked(k[i - 1], s[i])
    OBVIOUS
  <2> HIDE DEF g, f, Eq
  <2>2. \A i \in 1..6 : i \in 0..6 /\ i # 0
    BY <1>3
  <2>3. Alike(6, f, g)
    BY <1>3, <1>5, <1>6, <2>1, <2>2 DEF Alike
  <2> QED BY <1>3, <2>3, FoldUnique
<1>8. g[6] = B(6)
  <2> HIDE DEF B
  <2> QED BY <1>3
<1>9. Iterate(LAMBDA all, k : Walked(all, k), none, s) = B(6)
  <2> HIDE DEF B, g, f, Eq
  <2> QED BY <1>4, <1>7, <1>8
<1>10. AllRings(b) = B(6)
  <2> HIDE DEF B
  <2> QED BY <1>9, <1>19, <1>23 DEF AllRings, Walked
<1> QED BY <1>10

\* Each edge has two coedges, A[e] the earlier one and Z[e] the later one.
Twins(E, C, A, Z) ==
  /\ \A e \in DOMAIN E : /\ A[e] \in DOMAIN C /\ C[A[e]].edge = e
                         /\ Z[e] \in DOMAIN C /\ C[Z[e]].edge = e
                         /\ A[e] < Z[e]
  /\ \A c \in DOMAIN C : C[c].edge \in DOMAIN E /\ c \in {A[C[c].edge], Z[C[c].edge]}

\* The other coedge of an edge
TwinOf(A, Z, e, c) == IF c = A[e] THEN Z[e] ELSE A[e]

\* The coedges and the edges when the first i coedges have been mated with those
\* behind them
CoedgesMated(C, A, Z, i) ==
  [c \in DOMAIN C |-> IF A[C[c].edge] <= i
                      THEN [C[c] EXCEPT !.partner = TwinOf(A, Z, C[c].edge, c)]
                      ELSE C[c]]
EdgesMated(E, A, Z, i) ==
  [e \in DOMAIN E |-> IF A[e] <= i
                      THEN [E[e] EXCEPT !.coedge_a = A[e], !.coedge_b = Z[e]]
                      ELSE E[e]]

\* Mating coedges i and z of edge e makes D1 of coedges D and G1 of edges G.
Partnered(D, e, i, z, D1) ==
  /\ i \in DOMAIN D /\ z \in DOMAIN D /\ D[i].edge = e
  /\ [D EXCEPT ![i].partner = z, ![z].partner = i] = D1
Slotted(G, e, i, z, G1) ==
  e \in DOMAIN G /\ [G EXCEPT ![e] = MateSlots(G[e], i, z)] = G1

\* Mating the coedges of an edge gives each the other as its partner.
LEMMA PartnersPut ==
  ASSUME NEW E, NEW C \in Seq(Coedge), NEW A, NEW Z, Twins(E, C, A, Z),
         NEW e \in DOMAIN E, NEW i, NEW z, NEW j, i = A[e], z = Z[e], j = i - 1,
         NEW D, D = CoedgesMated(C, A, Z, j)
  PROVE  Partnered(D, e, i, z, CoedgesMated(C, A, Z, i))
<1>1. /\ i \in DOMAIN C /\ z \in DOMAIN C /\ i \in Nat /\ z \in Nat /\ i # z
      /\ C[i].edge = e /\ C[z].edge = e
  <2>1. A[e] \in DOMAIN C /\ C[A[e]].edge = e /\ Z[e] \in DOMAIN C /\ C[Z[e]].edge = e
        /\ A[e] < Z[e]
    BY DEF Twins
  <2>2. DOMAIN C \subseteq Nat
    BY PlacesAreNaturals
  <2> QED BY ONLY <2>1, <2>2, i = A[e], z = Z[e]
<1>2. ASSUME NEW c \in DOMAIN C
      PROVE  /\ A[C[c].edge] \in Nat
             /\ A[C[c].edge] = i => c = i \/ c = z
  <2>1. PICK d : d = C[c].edge
    OBVIOUS
  <2>2. d \in DOMAIN E /\ A[d] \in DOMAIN C /\ C[A[d]].edge = d /\ c \in {A[d], Z[d]}
    BY <2>1 DEF Twins
  <2>3. A[d] = i => d = e
    BY <1>1, <2>2
  <2> QED BY <2>1, <2>2, <2>3
<1>3. D = [c \in DOMAIN C |-> D[c]] /\ D[i] = C[i] /\ D[z] = C[z]
      /\ \A c \in DOMAIN C : D[c] = IF A[C[c].edge] <= j
                                    THEN [C[c] EXCEPT !.partner = TwinOf(A, Z, C[c].edge, c)]
                                    ELSE C[c]
  BY <1>1, <1>2 DEF CoedgesMated
<1>4. PICK G : G = CoedgesMated(C, A, Z, i)
  OBVIOUS
<1>5. G = [c \in DOMAIN C |-> G[c]]
      /\ \A c \in DOMAIN C : G[c] = IF A[C[c].edge] <= i
                                    THEN [C[c] EXCEPT !.partner = TwinOf(A, Z, C[c].edge, c)]
                                    ELSE C[c]
  BY <1>4 DEF CoedgesMated
<1>6. G[i] = [C[i] EXCEPT !.partner = z] /\ G[z] = [C[z] EXCEPT !.partner = i]
  <2>1. TwinOf(A, Z, e, i) = z /\ TwinOf(A, Z, e, z) = i
    BY <1>1 DEF TwinOf
  <2>2. A[e] <= i
    BY <1>1
  <2> QED BY ONLY <1>1, <1>5, <2>1, <2>2
<1>7. ASSUME NEW c \in DOMAIN C, c # i, c # z PROVE G[c] = D[c]
  <2>1. A[C[c].edge] <= i <=> A[C[c].edge] <= j
    BY <1>1, <1>2, <1>7
  <2> QED BY ONLY <1>3, <1>5, <2>1, c \in DOMAIN C
<1>8. PICK H : H = [D EXCEPT ![i].partner = z, ![z].partner = i]
  OBVIOUS
<1>9. H = [c \in DOMAIN C |-> H[c]] /\ DOMAIN D = DOMAIN C
  BY <1>3, <1>8
<1>10. /\ H[i] = [D[i] EXCEPT !.partner = z] /\ H[z] = [D[z] EXCEPT !.partner = i]
       /\ \A c \in DOMAIN C : c # i /\ c # z => H[c] = D[c]
  BY <1>1, <1>8, <1>9
<1>11. \A c \in DOMAIN C : H[c] = G[c]
  BY ONLY <1>3, <1>6, <1>7, <1>10
<1> QED BY ONLY <1>1, <1>3, <1>4, <1>5, <1>8, <1>9, <1>11 DEF Partnered

\* The edge knows both.
LEMMA SlotsPut ==
  ASSUME NEW E \in Seq(Edge), NEW C \in Seq(Coedge), NEW A, NEW Z, Twins(E, C, A, Z),
         NEW e \in DOMAIN E, NEW i, NEW z, NEW j, i = A[e], z = Z[e], j = i - 1,
         E[e].coedge_a = 0, E[e].coedge_b = 0, NEW D, D = EdgesMated(E, A, Z, j)
  PROVE  Slotted(D, e, i, z, EdgesMated(E, A, Z, i))
<1>1. i \in Nat \ {0} /\ z \in Nat /\ i # z /\ C[i].edge = e
  <2>1. A[e] \in DOMAIN C /\ C[A[e]].edge = e /\ Z[e] \in DOMAIN C /\ A[e] < Z[e]
    BY DEF Twins
  <2>2. DOMAIN C \subseteq Nat \ {0}
    OBVIOUS
  <2> QED BY ONLY <2>1, <2>2, i = A[e], z = Z[e]
<1>2. ASSUME NEW d \in DOMAIN E
      PROVE  A[d] \in Nat /\ (A[d] = i => d = e)
  <2>1. A[d] \in DOMAIN C /\ C[A[d]].edge = d
    BY DEF Twins
  <2> QED BY <1>1, <2>1
<1>3. D = [d \in DOMAIN E |-> D[d]] /\ D[e] = E[e]
      /\ \A d \in DOMAIN E : D[d] = IF A[d] <= j
                                    THEN [E[d] EXCEPT !.coedge_a = A[d], !.coedge_b = Z[d]]
                                    ELSE E[d]
  <2>1. D = [d \in DOMAIN E |-> D[d]]
        /\ \A d \in DOMAIN E : D[d] = IF A[d] <= j
                                      THEN [E[d] EXCEPT !.coedge_a = A[d], !.coedge_b = Z[d]]
                                      ELSE E[d]
    BY DEF EdgesMated
  <2>2. ~(A[e] <= j)
    BY <1>1
  <2> QED BY ONLY <2>1, <2>2, e \in DOMAIN E
<1>4. PICK G : G = EdgesMated(E, A, Z, i)
  OBVIOUS
<1>5. G = [d \in DOMAIN E |-> G[d]]
      /\ \A d \in DOMAIN E : G[d] = IF A[d] <= i
                                    THEN [E[d] EXCEPT !.coedge_a = A[d], !.coedge_b = Z[d]]
                                    ELSE E[d]
  BY <1>4 DEF EdgesMated
<1>6. G[e] = [E[e] EXCEPT !.coedge_a = i, !.coedge_b = z]
  <2>1. A[e] <= i
    BY <1>1
  <2>2. G[e] = [E[e] EXCEPT !.coedge_a = A[e], !.coedge_b = Z[e]]
    BY ONLY <1>5, <2>1, e \in DOMAIN E
  <2> QED BY ONLY <2>2, i = A[e], z = Z[e]
<1>7. MateSlots(E[e], i, z) = [E[e] EXCEPT !.coedge_a = i, !.coedge_b = z]
  <2>1. PICK x : x = E[e]
    OBVIOUS
  <2>2. x.coedge_a = 0 /\ x.coedge_b = 0
    BY <2>1
  <2>3. MateSlots(x, i, z) = [x EXCEPT !.coedge_a = i, !.coedge_b = z]
    BY ONLY <1>1, <2>2 DEF MateSlots
  <2> QED BY <2>1, <2>3
<1>8. ASSUME NEW d \in DOMAIN E, d # e PROVE G[d] = D[d]
  <2>1. A[d] <= i <=> A[d] <= j
    BY <1>1, <1>2, <1>8
  <2> QED BY ONLY <1>3, <1>5, <2>1, d \in DOMAIN E
<1>9. PICK H : H = [D EXCEPT ![e] = MateSlots(D[e], i, z)]
  OBVIOUS
<1>10. /\ H = [d \in DOMAIN E |-> H[d]] /\ DOMAIN D = DOMAIN E
       /\ H[e] = MateSlots(E[e], i, z)
       /\ \A d \in DOMAIN E : d # e => H[d] = D[d]
  BY <1>3, <1>9
<1>11. \A d \in DOMAIN E : H[d] = G[d]
  BY ONLY <1>6, <1>7, <1>8, <1>10
<1> QED BY ONLY <1>4, <1>5, <1>9, <1>10, <1>11, e \in DOMAIN E DEF Slotted

\* mate_coedges() on the two coedges of an edge
LEMMA MatePair ==
  ASSUME NEW cu, NEW su, NEW V, NEW E \in Seq(Edge), NEW C \in Seq(Coedge), NEW L, NEW F,
         NEW S, NEW sl, NEW A, NEW Z, Twins(E, C, A, Z),
         NEW e \in DOMAIN E, NEW i, NEW z, NEW j, i = A[e], z = Z[e], j = i - 1,
         E[e].coedge_a = 0, E[e].coedge_b = 0,
         NEW x, Has(x, cu, su, V, EdgesMated(E, A, Z, j), CoedgesMated(C, A, Z, j),
                    L, F, S, sl)
  PROVE  Has(MateCoedges(x, i, z), cu, su, V, EdgesMated(E, A, Z, i),
             CoedgesMated(C, A, Z, i), L, F, S, sl)
<1>1. PICK D, G, D1, G1 :
        /\ D = CoedgesMated(C, A, Z, j) /\ G = EdgesMated(E, A, Z, j)
        /\ D1 = CoedgesMated(C, A, Z, i) /\ G1 = EdgesMated(E, A, Z, i)
  OBVIOUS
<1>2. /\ i \in DOMAIN D /\ z \in DOMAIN D /\ D[i].edge = e
      /\ [D EXCEPT ![i].partner = z, ![z].partner = i] = D1
  <2>1. Partnered(D, e, i, z, D1)
    BY <1>1, PartnersPut
  <2> QED BY ONLY <2>1 DEF Partnered
<1>3. e \in DOMAIN G /\ [G EXCEPT ![e] = MateSlots(G[e], i, z)] = G1
  <2>1. Slotted(G, e, i, z, G1)
    BY <1>1, SlotsPut
  <2> QED BY ONLY <2>1 DEF Slotted
<1>4. x.coedges = D /\ x.edges = G
  BY <1>1, Zenon DEF Has
<1>5. PICK m : m = [x EXCEPT !.coedges[i].partner = z, !.coedges[z].partner = i]
  OBVIOUS
<1>6. MateCoedges(x, i, z) = [m EXCEPT !.edges[e] = MateSlots(@, i, z)]
  BY ONLY <1>2, <1>3, <1>4, <1>5, Zenon DEF MateCoedges, Live
<1>7. PICK q : q = [x EXCEPT !.coedges = D1]
  OBVIOUS
<1>8. Has(x, cu, su, V, G, D, L, F, S, sl)
  BY <1>1
<1>9. Has(q, cu, su, V, G, D1, L, F, S, sl)
  BY ONLY <1>7, <1>8, PutCoedges
<1>10. m = q
  <2>1. "coedges" \in DOMAIN x
    BY ONLY <1>8 DEF Has, FieldNames
  <2> QED BY ONLY <1>2, <1>4, <1>5, <1>7, <2>1
<1>11. q.edges = G
  BY <1>9, Zenon DEF Has
<1>12. PICK r : r = [q EXCEPT !.edges = G1]
  OBVIOUS
<1>13. Has(r, cu, su, V, G1, D1, L, F, S, sl)
  BY ONLY <1>9, <1>12, PutEdges
<1>14. r = [q EXCEPT !.edges[e] = MateSlots(@, i, z)]
  BY ONLY <1>3, <1>11, <1>12
<1> QED BY ONLY <1>1, <1>6, <1>10, <1>13, <1>14

\* Mating a coedge with several, one after the other
MateWith(b, x, ys) == Iterate(LAMBDA d, y : MateCoedges(d, x, y), b, ys)

\* With none
LEMMA MateNone ==
  ASSUME NEW b, NEW x, NEW ys, ys = <<>>
  PROVE  MateWith(b, x, ys) = b
<1> DEFINE Eq(f) == f = [i \in 0..Len(ys) |->
                           IF i = 0 THEN b ELSE MateCoedges(f[i - 1], x, ys[i])]
           f == CHOOSE k : Eq(k)
           g == [i \in 0..0 |-> b]
<1>1. Len(ys) = 0
  BY Len(<<>>) = 0
<1>2. Eq(g)
  BY <1>1
<1>3. Eq(f)
  <2> HIDE DEF g, Eq
  <2> QED BY <1>2
<1>4. \A k : Eq(k) => k[0] = b
  BY <1>1
<1>5. f[0] = b
  <2> HIDE DEF f, Eq
  <2> QED BY <1>3, <1>4
<1>6. MateWith(b, x, ys) = f[Len(ys)]
  BY Zenon DEF MateWith, Iterate
<1> HIDE DEF f
<1> QED BY <1>1, <1>5, <1>6

\* With one
LEMMA MateOne ==
  ASSUME NEW b, NEW x, NEW y, NEW ys, ys = <<y>>
  PROVE  MateWith(b, x, ys) = MateCoedges(b, x, y)
<1> DEFINE Eq(f) == f = [i \in 0..Len(ys) |->
                           IF i = 0 THEN b ELSE MateCoedges(f[i - 1], x, ys[i])]
           f == CHOOSE k : Eq(k)
           Mate(d, z) == MateCoedges(d, x, z)
           g == [i \in 0..1 |-> IF i = 0 THEN b ELSE Mate(b, y)]
<1>1. Len(ys) = 1 /\ ys[1] = y
  OBVIOUS
<1>2. Eq(g)
  <2> HIDE DEF Mate
  <2>1. g[0] = b /\ g[1] = Mate(b, y)
    OBVIOUS
  <2>2. \A i \in 0..1 : g[i] = IF i = 0 THEN b ELSE Mate(g[i - 1], ys[i])
    <3>1. \A i \in 0..1 : i = 0 \/ (i = 1 /\ i - 1 = 0)
      OBVIOUS
    <3> HIDE DEF g
    <3> QED BY ONLY <1>1, <2>1, <3>1
  <2>3. g = [i \in 0..1 |-> g[i]]
    OBVIOUS
  <2>4. g = [i \in 0..Len(ys) |-> IF i = 0 THEN b ELSE Mate(g[i - 1], ys[i])]
    <3> HIDE DEF g
    <3> QED BY ONLY <1>1, <2>2, <2>3
  <2> HIDE DEF g
  <2> QED BY <2>4 DEF Mate
<1>3. Eq(f)
  <2> HIDE DEF g, Eq
  <2> QED BY <1>2
<1>4. \A k : Eq(k) => k[1] = Mate(b, y)
  <2> HIDE DEF Mate
  <2>1. \A k : Eq(k) => k = [i \in 0..1 |-> IF i = 0 THEN b ELSE Mate(k[i - 1], ys[i])]
    BY <1>1 DEF Mate
  <2>2. \A k : Eq(k) => k[0] = b /\ k[1] = Mate(k[0], ys[1])
    <3> HIDE DEF Eq
    <3> QED BY <2>1
  <2> HIDE DEF Eq
  <2> QED BY <1>1, <2>2
<1>5. f[1] = Mate(b, y)
  <2> HIDE DEF f, Eq, Mate
  <2> QED BY <1>3, <1>4
<1>6. MateWith(b, x, ys) = f[Len(ys)]
  BY Zenon DEF MateWith, Iterate
<1> HIDE DEF f
<1> QED BY <1>1, <1>5, <1>6

\* The places of a sequence of numbers up to n
LEMMA PlacesUpTo ==
  ASSUME NEW n \in Nat, NEW s, s = Places(UpTo(n))
  PROVE  /\ Len(UpTo(n)) = n /\ Len(s) = n /\ UpTo(n) \in Seq(1..n) /\ DOMAIN UpTo(n) = 1..n
         /\ \A i \in 1..n : s[i] = i /\ UpTo(n)[i] = i
<1>1. DOMAIN UpTo(n) = 1..n
  BY DEF UpTo
<1>2. s = [i \in 1..n |-> i]
  BY <1>1 DEF Places
<1> QED BY ONLY <1>2, n \in Nat DEF UpTo

\* Nothing changes where the earlier coedge of no edge is.
LEMMA MatedSame ==
  ASSUME NEW E, NEW C \in Seq(Coedge), NEW A, NEW Z, Twins(E, C, A, Z),
         NEW i \in DOMAIN C, NEW j, j = i - 1, i # A[C[i].edge]
  PROVE  /\ CoedgesMated(C, A, Z, j) = CoedgesMated(C, A, Z, i)
         /\ EdgesMated(E, A, Z, j) = EdgesMated(E, A, Z, i)
<1>1. DOMAIN C \subseteq Nat
  BY PlacesAreNaturals
<1>2. ASSUME NEW d \in DOMAIN E PROVE A[d] <= j <=> A[d] <= i
  <2>1. A[d] \in DOMAIN C /\ C[A[d]].edge = d
    BY DEF Twins
  <2>2. A[d] # i
    BY <2>1
  <2>3. A[d] \in Nat /\ i \in Nat
    BY <1>1, <2>1
  <2> QED BY ONLY <2>2, <2>3, j = i - 1
<1>3. ASSUME NEW c \in DOMAIN C PROVE A[C[c].edge] <= j <=> A[C[c].edge] <= i
  BY <1>2 DEF Twins
<1>4. CoedgesMated(C, A, Z, j) = CoedgesMated(C, A, Z, i)
  BY ONLY <1>3 DEF CoedgesMated
<1>5. EdgesMated(E, A, Z, j) = EdgesMated(E, A, Z, i)
  BY ONLY <1>2 DEF EdgesMated
<1> QED BY <1>4, <1>5

\* The coedges behind i that have its edge
BehindOf(C, n, i) == {k \in 1..n : i < k /\ C[k].edge = C[i].edge}

\* One step of the walk
LEMMA MateStep ==
  ASSUME NEW cu, NEW su, NEW V, NEW E \in Seq(Edge), NEW C \in Seq(Coedge), NEW L, NEW F,
         NEW S, NEW sl, NEW A, NEW Z, Twins(E, C, A, Z),
         \A e \in DOMAIN E : E[e].coedge_a = 0 /\ E[e].coedge_b = 0,
         NEW n, n = Len(C), NEW i \in 1..n, NEW j, j = i - 1,
         NEW x, Has(x, cu, su, V, EdgesMated(E, A, Z, j), CoedgesMated(C, A, Z, j),
                    L, F, S, sl)
  PROVE  Has(MateWith(x, i, Pick(UpTo(n), BehindOf(C, n, i))), cu, su, V,
             EdgesMated(E, A, Z, i), CoedgesMated(C, A, Z, i), L, F, S, sl)
<1>1. PICK e, t, I, p : /\ e = C[i].edge /\ t = UpTo(n) /\ I = BehindOf(C, n, i)
                        /\ p = Pick(t, I)
  OBVIOUS
<1>2. n \in Nat /\ DOMAIN C = 1..n
  OBVIOUS
<1>3. /\ e \in DOMAIN E /\ i \in {A[e], Z[e]} /\ A[e] \in 1..n /\ Z[e] \in 1..n
      /\ A[e] < Z[e] /\ C[A[e]].edge = e /\ C[Z[e]].edge = e
  BY <1>1, <1>2 DEF Twins
<1>4. /\ t \in Seq(1..n) /\ Len(t) = n /\ \A k \in 1..n : t[k] = k
  BY ONLY <1>1, <1>2, PlacesUpTo
<1>5. ASSUME NEW k \in I PROVE k \in 1..n /\ i < k /\ k \in {A[e], Z[e]}
  BY <1>1, <1>2 DEF BehindOf, Twins
<1>6. CASE i = A[e]
  <2>1. PICK z : z = Z[e]
    OBVIOUS
  <2>2. z \in 1..n /\ 1..n \cap I = {z}
    <3>1. z \in I
      BY <1>1, <1>3, <1>6, <2>1 DEF BehindOf
    <3>2. \A k \in I : k = z
      BY <1>3, <1>5, <1>6, <2>1
    <3> QED BY <1>3, <2>1, <3>1, <3>2
  <2>3. p = <<t[z]>>
    BY ONLY <1>1, <1>4, <2>2, PickSingle
  <2>4. p = <<z>>
    BY ONLY <1>4, <2>2, <2>3
  <2>5. MateWith(x, i, p) = MateCoedges(x, i, z)
    BY ONLY <2>4, MateOne
  <2>6. Has(MateCoedges(x, i, z), cu, su, V, EdgesMated(E, A, Z, i),
            CoedgesMated(C, A, Z, i), L, F, S, sl)
    BY <1>3, <1>6, <2>1, MatePair
  <2> QED BY ONLY <1>1, <2>5, <2>6
<1>7. CASE i # A[e]
  <2>1. 1..n \cap I = {}
    BY <1>3, <1>5, <1>7
  <2>2. p = <<>>
    BY ONLY <1>1, <1>4, <2>1, PickNone
  <2>3. MateWith(x, i, p) = x
    BY ONLY <2>2, MateNone
  <2>4. /\ CoedgesMated(C, A, Z, j) = CoedgesMated(C, A, Z, i)
        /\ EdgesMated(E, A, Z, j) = EdgesMated(E, A, Z, i)
    BY <1>1, <1>2, <1>7, MatedSame
  <2> QED BY ONLY <1>1, <2>3, <2>4, Has(x, cu, su, V, EdgesMated(E, A, Z, j),
                  CoedgesMated(C, A, Z, j), L, F, S, sl)
<1> QED BY <1>6, <1>7

\* MateAll mates the two coedges of every edge with each other.
LEMMA MateAllMade ==
  ASSUME NEW cu, NEW su, NEW V, NEW E \in Seq(Edge), NEW C \in Seq(Coedge), NEW L, NEW F,
         NEW S, NEW sl, NEW A, NEW Z, Twins(E, C, A, Z),
         \A e \in DOMAIN E : E[e].coedge_a = 0 /\ E[e].coedge_b = 0,
         NEW n, n = Len(C), NEW b, Has(b, cu, su, V, E, C, L, F, S, sl),
         AllRings(b) = UpTo(n)
  PROVE  Has(MateAll(b), cu, su, V, EdgesMated(E, A, Z, n), CoedgesMated(C, A, Z, n),
             L, F, S, sl)
<1> DEFINE Later(i) == {j \in DOMAIN AllRings(b) :
                          i < j /\ b.coedges[AllRings(b)[j]].edge =
                                   b.coedges[AllRings(b)[i]].edge}
           Step(c, i) == MateWith(c, AllRings(b)[i], Pick(AllRings(b), Later(i)))
<1>20. MateAll(b) = Iterate(LAMBDA c, i : Step(c, i), b, Places(AllRings(b)))
  BY DEF MateAll, MateWith
<1>21. n \in Nat /\ DOMAIN C = 1..n /\ b.coedges = C
  <2>1. b.coedges = C
    BY Zenon DEF Has
  <2> QED BY <2>1
<1>22. PICK all : all = UpTo(n)
  OBVIOUS
<1>23. PICK s : s = Places(all)
  OBVIOUS
<1>24. /\ all = AllRings(b) /\ Len(s) = n /\ DOMAIN all = 1..n
       /\ \A i \in 1..n : s[i] = i /\ all[i] = i
  BY <1>21, <1>22, <1>23, PlacesUpTo
<1>25. ASSUME NEW c, NEW i \in 1..n
       PROVE  Step(c, i) = MateWith(c, i, Pick(UpTo(n), BehindOf(C, n, i)))
  <2>1. Later(i) = BehindOf(C, n, i)
    BY <1>21, <1>24 DEF BehindOf
  <2>2. PICK I : I = Later(i)
    OBVIOUS
  <2>3. Step(c, i) = MateWith(c, all[i], Pick(all, I))
    BY <1>24, <2>2, Zenon
  <2>4. all[i] = i
    BY <1>24
  <2> HIDE DEF Later, Step
  <2> QED BY <1>22, <2>1, <2>2, <2>3, <2>4
<1> HIDE DEF Later, Step
<1>26. /\ EdgesMated(E, A, Z, 0) = E /\ CoedgesMated(C, A, Z, 0) = C
  <2>1. ASSUME NEW e \in DOMAIN E PROVE ~(A[e] <= 0)
    <3>1. A[e] \in DOMAIN C
      BY DEF Twins
    <3> QED BY <1>21, <3>1
  <2>2. \A c \in DOMAIN C : ~(A[C[c].edge] <= 0)
    BY <2>1 DEF Twins
  <2>3. EdgesMated(E, A, Z, 0) = [e \in DOMAIN E |-> E[e]]
    BY ONLY <2>1 DEF EdgesMated
  <2>4. CoedgesMated(C, A, Z, 0) = [c \in DOMAIN C |-> C[c]]
    BY ONLY <2>2 DEF CoedgesMated
  <2>5. E = [e \in DOMAIN E |-> E[e]] /\ C = [c \in DOMAIN C |-> C[c]]
    OBVIOUS
  <2> QED BY ONLY <2>3, <2>4, <2>5
<1> DEFINE B(i) == Made(cu, su, V, EdgesMated(E, A, Z, i), CoedgesMated(C, A, Z, i), L, F, S, sl)
           g == [i \in 0..n |-> B(i)]
           Eq(f) == f = [i \in 0..n |->
                           IF i = 0 THEN b
                           ELSE Step(f[i - 1], s[i])]
           f == CHOOSE k : Eq(k)
<1>1. B(0) = b
  <2>1. b = Made(cu, su, V, E, C, L, F, S, sl)
    BY HasIsMade
  <2> QED BY ONLY <1>26, <2>1
<1>2. ASSUME NEW i \in 1..n
      PROVE  B(i) = Step(B(i - 1), s[i])
  <2>1. PICK j, x : j = i - 1 /\ x = B(j)
    OBVIOUS
  <2>2. Has(x, cu, su, V, EdgesMated(E, A, Z, j), CoedgesMated(C, A, Z, j), L, F, S, sl)
    BY ONLY <2>1, MadeHas
  <2>3. PICK y : y = MateWith(x, i, Pick(UpTo(n), BehindOf(C, n, i)))
    OBVIOUS
  <2>4. Has(y, cu, su, V, EdgesMated(E, A, Z, i), CoedgesMated(C, A, Z, i), L, F, S, sl)
    BY <2>1, <2>2, <2>3, MateStep
  <2>5. y = B(i)
    BY ONLY <2>4, HasIsMade
  <2>6. s[i] = i
    BY <1>24
  <2>7. Step(x, i) = y
    BY <1>25, <2>3
  <2> HIDE DEF B
  <2> QED BY ONLY <2>1, <2>5, <2>6, <2>7
<1>3. n \in Nat /\ Len(s) = n
  BY <1>21, <1>24
<1>4. Iterate(LAMBDA c, k : Step(c, k), b, s) = f[n]
  <2> HIDE DEF B
  <2> QED BY <1>3 DEF Iterate
<1>5. Eq(g)
  <2>1. \A i \in 0..n : g[i] = IF i = 0 THEN b
                               ELSE Step(g[i - 1], s[i])
    <3> HIDE DEF B
    <3> QED BY <1>1, <1>2, <1>3
  <2>2. g = [i \in 0..n |-> g[i]]
    OBVIOUS
  <2> HIDE DEF g
  <2> QED BY <2>1, <2>2
<1>6. Eq(f)
  <2> HIDE DEF g, Eq
  <2> QED BY <1>5
<1>7. g[n] = f[n]
  <2>1. \A k : Eq(k) => \A i \in 0..n :
                 k[i] = IF i = 0 THEN b
                        ELSE Step(k[i - 1], s[i])
    OBVIOUS
  <2> HIDE DEF g, f, Eq
  <2>2. \A i \in 1..n : i \in 0..n /\ i # 0
    BY <1>3
  <2>3. Alike(n, f, g)
    BY <1>3, <1>5, <1>6, <2>1, <2>2 DEF Alike
  <2> QED BY <1>3, <2>3, FoldUnique
<1>8. g[n] = B(n)
  <2> HIDE DEF B
  <2> QED BY <1>3
<1>9. Iterate(LAMBDA c, k : Step(c, k), b, s) = B(n)
  <2> HIDE DEF B, g, f, Eq
  <2> QED BY <1>4, <1>7, <1>8
<1>10. MateAll(b) = B(n)
  <2> HIDE DEF B
  <2>1. Places(AllRings(b)) = s
    BY <1>23, <1>24
  <2> QED BY ONLY <1>9, <1>20, <2>1
<1> QED BY ONLY <1>10, MadeHas

\* The coedges D are the coedges C but for their partners.
SameUses(C, D) ==
  /\ DOMAIN D = DOMAIN C
  /\ \A c \in DOMAIN C :
       /\ D[c].edge = C[c].edge /\ D[c].same = C[c].same /\ D[c].loop = C[c].loop
       /\ D[c].prev = C[c].prev /\ D[c].next = C[c].next

\* The edges G are the edges E but for their coedges.
SameEnds(E, G) ==
  /\ DOMAIN G = DOMAIN E
  /\ \A e \in DOMAIN E :
       /\ G[e].curve = E[e].curve /\ G[e].proper = E[e].proper
       /\ G[e].start = E[e].start /\ G[e].end = E[e].end

\* Mating changes no more.
LEMMA MatedCoedges ==
  ASSUME NEW E, NEW C \in Seq(Coedge), NEW A, NEW Z, Twins(E, C, A, Z),
         NEW i, NEW D, D = CoedgesMated(C, A, Z, i)
  PROVE  /\ D \in Seq(Coedge) /\ SameUses(C, D)
         /\ \A c \in DOMAIN C : NullOrIn(C[c].partner, C) => NullOrIn(D[c].partner, D)
<1>1. DOMAIN C \subseteq Nat
  BY PlacesAreNaturals
<1>2. ASSUME NEW c \in DOMAIN C
      PROVE  TwinOf(A, Z, C[c].edge, c) \in DOMAIN C
  BY DEF Twins, TwinOf
<1>3. DOMAIN D = DOMAIN C /\ D = [c \in DOMAIN C |-> D[c]]
      /\ \A c \in DOMAIN C : \/ D[c] = C[c]
                             \/ D[c] = [C[c] EXCEPT !.partner = TwinOf(A, Z, C[c].edge, c)]
  BY DEF CoedgesMated
<1>4. ASSUME NEW c \in DOMAIN C
      PROVE  /\ D[c] \in Coedge
             /\ D[c].edge = C[c].edge /\ D[c].same = C[c].same /\ D[c].loop = C[c].loop
             /\ D[c].prev = C[c].prev /\ D[c].next = C[c].next
             /\ NullOrIn(C[c].partner, C) => NullOrIn(D[c].partner, D)
  <2>1. PICK x, t : x = C[c] /\ t = TwinOf(A, Z, C[c].edge, c)
    OBVIOUS
  <2>2. x \in Coedge /\ t \in DOMAIN C /\ t \in Nat
    BY <1>1, <1>2, <2>1
  <2>3. PICK y : y = [x EXCEPT !.partner = t]
    OBVIOUS
  <2>4. /\ y \in Coedge /\ y.partner = t /\ y.edge = x.edge /\ y.same = x.same
        /\ y.loop = x.loop /\ y.prev = x.prev /\ y.next = x.next
    BY ONLY <2>2, <2>3 DEF Coedge
  <2>5. D[c] = x \/ D[c] = y
    BY <1>3, <2>1, <2>3
  <2> QED BY ONLY <1>3, <2>1, <2>2, <2>4, <2>5 DEF NullOrIn
<1>5. D \in Seq(Coedge)
  BY ONLY <1>3, <1>4, SamePlaces, C \in Seq(Coedge)
<1> QED BY ONLY <1>3, <1>4, <1>5 DEF SameUses

\* Mating leaves the ends of edges, and what it writes is live.
LEMMA MatedEdges ==
  ASSUME NEW E \in Seq(Edge), NEW C \in Seq(Coedge), NEW A, NEW Z, Twins(E, C, A, Z),
         NEW i, NEW G, G = EdgesMated(E, A, Z, i)
  PROVE  /\ G \in Seq(Edge) /\ SameEnds(E, G)
         /\ \A e \in DOMAIN E :
              NullOrIn(E[e].coedge_a, C) /\ NullOrIn(E[e].coedge_b, C) =>
                NullOrIn(G[e].coedge_a, C) /\ NullOrIn(G[e].coedge_b, C)
<1>1. DOMAIN C \subseteq Nat
  BY PlacesAreNaturals
<1>2. ASSUME NEW e \in DOMAIN E
      PROVE  A[e] \in DOMAIN C /\ Z[e] \in DOMAIN C
  BY DEF Twins
<1>3. DOMAIN G = DOMAIN E /\ G = [e \in DOMAIN E |-> G[e]]
      /\ \A e \in DOMAIN E : \/ G[e] = E[e]
                             \/ G[e] = [E[e] EXCEPT !.coedge_a = A[e], !.coedge_b = Z[e]]
  BY DEF EdgesMated
<1>4. ASSUME NEW e \in DOMAIN E
      PROVE  /\ G[e] \in Edge
             /\ G[e].curve = E[e].curve /\ G[e].proper = E[e].proper
             /\ G[e].start = E[e].start /\ G[e].end = E[e].end
             /\ NullOrIn(E[e].coedge_a, C) /\ NullOrIn(E[e].coedge_b, C) =>
                  NullOrIn(G[e].coedge_a, C) /\ NullOrIn(G[e].coedge_b, C)
  <2>1. PICK x, s, t : x = E[e] /\ s = A[e] /\ t = Z[e]
    OBVIOUS
  <2>2. x \in Edge /\ s \in DOMAIN C /\ t \in DOMAIN C /\ s \in Nat /\ t \in Nat
    BY <1>1, <1>2, <2>1
  <2>3. PICK y : y = [x EXCEPT !.coedge_a = s, !.coedge_b = t]
    OBVIOUS
  <2>4. /\ y \in Edge /\ y.coedge_a = s /\ y.coedge_b = t /\ y.curve = x.curve
        /\ y.proper = x.proper /\ y.start = x.start /\ y.end = x.end
    BY ONLY <2>2, <2>3 DEF Edge
  <2>5. G[e] = x \/ G[e] = y
    BY <1>3, <2>1, <2>3
  <2> QED BY ONLY <2>1, <2>2, <2>4, <2>5 DEF NullOrIn
<1>5. G \in Seq(Edge)
  BY ONLY <1>3, <1>4, SamePlaces, E \in Seq(Edge)
<1> QED BY ONLY <1>3, <1>4, <1>5 DEF SameEnds

\* References and rings stay whole.
LEMMA MatedWhole ==
  ASSUME NEW cu, NEW su, NEW V, NEW E, NEW C, NEW L, NEW F, NEW S, NEW sl,
         Whole(cu, su, V, E, C, L, F, S, sl), NEW A, NEW Z, Twins(E, C, A, Z), NEW i,
         NEW G, NEW D, G = EdgesMated(E, A, Z, i), D = CoedgesMated(C, A, Z, i)
  PROVE  /\ Whole(cu, su, V, G, D, L, F, S, sl)
         /\ RingsKept(C, L, F, D, L, F)
<1>1. /\ \E P : V \in Seq([pos : P, outgoing : Nat])
      /\ E \in Seq(Edge) /\ C \in Seq(Coedge) /\ L \in Seq(Loop)
      /\ F \in Seq(Face) /\ S \in Seq(Seq(Nat)) /\ sl \in Seq(Nat)
      /\ VerticesWhole(V, C) /\ EdgesWhole(cu, V, E, C) /\ CoedgesWhole(E, C, L)
      /\ LoopsWhole(C, L, F) /\ FacesWhole(su, L, F, S) /\ ShellsWhole(F, S, sl)
      /\ RingsWhole(C, L)
  BY Zenon DEF Whole
<1>2. /\ D \in Seq(Coedge) /\ SameUses(C, D)
      /\ \A c \in DOMAIN C : NullOrIn(C[c].partner, C) => NullOrIn(D[c].partner, D)
  BY ONLY <1>1, Twins(E, C, A, Z), D = CoedgesMated(C, A, Z, i), MatedCoedges
<1>3. /\ G \in Seq(Edge) /\ SameEnds(E, G)
      /\ \A e \in DOMAIN E :
           NullOrIn(E[e].coedge_a, C) /\ NullOrIn(E[e].coedge_b, C) =>
             NullOrIn(G[e].coedge_a, C) /\ NullOrIn(G[e].coedge_b, C)
  BY ONLY <1>1, Twins(E, C, A, Z), G = EdgesMated(E, A, Z, i), MatedEdges
<1>4. DOMAIN D = DOMAIN C /\ \A h : NullOrIn(h, C) => NullOrIn(h, D)
  BY ONLY <1>2 DEF SameUses, NullOrIn
<1>5. VerticesWhole(V, D) /\ LoopsWhole(D, L, F)
  BY ONLY <1>1, <1>4 DEF VerticesWhole, LoopsWhole
<1>6. EdgesWhole(cu, V, G, D)
  BY ONLY <1>1, <1>3, <1>4 DEF EdgesWhole, SameEnds
<1>7. CoedgesWhole(G, D, L)
  BY ONLY <1>1, <1>2, <1>3, <1>4 DEF CoedgesWhole, SameUses, SameEnds
<1>8. RingsWhole(D, L)
  <2>1. ASSUME NEW R \in SUBSET DOMAIN C
        PROVE  {D[c].next : c \in R} = {C[c].next : c \in R}
    BY ONLY <1>2 DEF SameUses
  <2> QED BY ONLY <1>1, <1>4, <2>1 DEF RingsWhole
<1>9. RingsKept(C, L, F, D, L, F)
  BY ONLY <1>2 DEF RingsKept, FaceRing, Rung, SameUses
<1> QED BY ONLY <1>1, <1>2, <1>3, <1>5, <1>6, <1>7, <1>8, <1>9, Zenon DEF Whole

\* O[v] is the first of the n coedges that starts at vertex v.
FirstFrom(b, V, O, n) ==
  /\ \A v \in DOMAIN V : /\ V[v].outgoing = 0 /\ O[v] \in 1..n /\ From(b, O[v]) = v
  /\ \A c \in 1..n : From(b, c) \in DOMAIN V /\ O[From(b, c)] <= c

\* The vertices when i coedges have been looked at
OutgoingSet(V, O, i) ==
  [v \in DOMAIN V |-> IF O[v] <= i THEN [V[v] EXCEPT !.outgoing = O[v]] ELSE V[v]]

\* The look at one coedge
SetOne(b, d, c) ==
  IF d.vertices[From(b, c)].outgoing = 0
  THEN [d EXCEPT !.vertices[From(b, c)].outgoing = c] ELSE d

\* Coedge i, which starts at v, makes vertices G of D.
Seen(D, v, i, G) ==
  /\ D[v].outgoing = 0 => G = [D EXCEPT ![v].outgoing = i]
  /\ D[v].outgoing # 0 => G = D

\* It changes its vertex if it is the first from there.
LEMMA OutgoingPut ==
  ASSUME NEW P, NEW V \in Seq([pos : P, outgoing : Nat]), NEW b, NEW O, NEW n \in Nat,
         FirstFrom(b, V, O, n), NEW i \in 1..n, NEW j, j = i - 1, NEW v, v = From(b, i),
         NEW D, D = OutgoingSet(V, O, j), NEW G, G = OutgoingSet(V, O, i)
  PROVE  Seen(D, v, i, G)
<1>1. /\ v \in DOMAIN V /\ O[v] <= i /\ O[v] \in Nat \ {0} /\ i \in Nat \ {0}
  BY DEF FirstFrom
<1>2. ASSUME NEW u \in DOMAIN V PROVE O[u] \in Nat /\ (O[u] = i => u = v)
  BY SMTT(30) DEF FirstFrom
<1>3. /\ D = [u \in DOMAIN V |-> D[u]] /\ G = [u \in DOMAIN V |-> G[u]]
      /\ \A u \in DOMAIN V :
           /\ D[u] = IF O[u] <= j THEN [V[u] EXCEPT !.outgoing = O[u]] ELSE V[u]
           /\ G[u] = IF O[u] <= i THEN [V[u] EXCEPT !.outgoing = O[u]] ELSE V[u]
  BY DEF OutgoingSet
<1>4. ASSUME NEW u \in DOMAIN V, u # v \/ O[v] # i PROVE G[u] = D[u]
  <2>1. O[u] # i
    BY <1>1, <1>2, <1>4
  <2>2. O[u] <= i <=> O[u] <= j
    BY <1>1, <1>2, <2>1
  <2> QED BY ONLY <1>3, <2>2, u \in DOMAIN V
<1>5. PICK x, o : x = V[v] /\ o = O[v]
  OBVIOUS
<1>6. x \in [pos : P, outgoing : Nat] /\ x.outgoing = 0
  <2>1. PICK T : T = [pos : P, outgoing : Nat]
    OBVIOUS
  <2>2. V \in Seq(T)
    BY <2>1
  <2>3. x \in T
    BY ONLY <1>1, <1>5, <2>2
  <2>4. V[v].outgoing = 0
    BY ONLY <1>1, FirstFrom(b, V, O, n) DEF FirstFrom
  <2> QED BY ONLY <1>5, <2>1, <2>3, <2>4
<1>7. [x EXCEPT !.outgoing = o].outgoing = o
  BY ONLY <1>6
<1>8. CASE O[v] = i
  <2>1. D[v] = x /\ G[v] = [x EXCEPT !.outgoing = o]
    <3>1. ~(o <= j) /\ o <= i
      BY <1>1, <1>5, <1>8
    <3> QED BY ONLY <1>1, <1>3, <1>5, <3>1
  <2>2. D[v].outgoing = 0 /\ G[v] = [D[v] EXCEPT !.outgoing = i]
    BY ONLY <1>5, <1>6, <1>8, <2>1
  <2>3. PICK H : H = [D EXCEPT ![v].outgoing = i]
    OBVIOUS
  <2>4. /\ H = [u \in DOMAIN V |-> H[u]] /\ H[v] = [D[v] EXCEPT !.outgoing = i]
        /\ \A u \in DOMAIN V : u # v => H[u] = D[u]
    <3>1. DOMAIN D = DOMAIN V
      BY <1>3
    <3> QED BY ONLY <1>1, <2>3, <3>1
  <2>5. \A u \in DOMAIN V : H[u] = G[u]
    BY ONLY <1>4, <2>2, <2>4
  <2>6. G = H
    BY ONLY <1>3, <2>4, <2>5
  <2> QED BY ONLY <2>2, <2>3, <2>6 DEF Seen
<1>9. CASE O[v] # i
  <2>1. D[v] = [x EXCEPT !.outgoing = o]
    <3>1. o <= j
      BY <1>1, <1>5, <1>9
    <3> QED BY ONLY <1>1, <1>3, <1>5, <3>1
  <2>2. D[v].outgoing # 0
    BY ONLY <1>1, <1>5, <1>7, <2>1
  <2>3. \A u \in DOMAIN V : G[u] = D[u]
    BY ONLY <1>4, <1>9
  <2>4. G = D
    BY ONLY <1>3, <2>3
  <2> QED BY ONLY <2>2, <2>4 DEF Seen
<1> QED BY <1>8, <1>9

\* The same for the body
LEMMA SetOneMade ==
  ASSUME NEW cu, NEW su, NEW P, NEW V \in Seq([pos : P, outgoing : Nat]), NEW E, NEW C,
         NEW L, NEW F, NEW S, NEW sl, NEW b, NEW O, NEW n \in Nat,
         FirstFrom(b, V, O, n), NEW i \in 1..n, NEW j, j = i - 1,
         NEW x, Has(x, cu, su, OutgoingSet(V, O, j), E, C, L, F, S, sl)
  PROVE  Has(SetOne(b, x, i), cu, su, OutgoingSet(V, O, i), E, C, L, F, S, sl)
<1>1. PICK v, D, G : v = From(b, i) /\ D = OutgoingSet(V, O, j) /\ G = OutgoingSet(V, O, i)
  OBVIOUS
<1>2. /\ D[v].outgoing = 0 => G = [D EXCEPT ![v].outgoing = i]
      /\ D[v].outgoing # 0 => G = D
  <2>1. Seen(D, v, i, G)
    BY <1>1, OutgoingPut
  <2> QED BY ONLY <2>1 DEF Seen
<1>3. Has(x, cu, su, D, E, C, L, F, S, sl)
  BY <1>1
<1>4. x.vertices = D
  BY <1>3, Zenon DEF Has
<1>5. PICK q : q = [x EXCEPT !.vertices = G]
  OBVIOUS
<1>6. Has(q, cu, su, G, E, C, L, F, S, sl)
  BY ONLY <1>3, <1>5, PutVertices
<1>7. CASE D[v].outgoing = 0
  <2>1. SetOne(b, x, i) = [x EXCEPT !.vertices[v].outgoing = i]
    BY ONLY <1>1, <1>4, <1>7, Zenon DEF SetOne
  <2>2. [x EXCEPT !.vertices[v].outgoing = i] = q
    BY ONLY <1>2, <1>4, <1>5, <1>7
  <2> QED BY ONLY <1>1, <1>6, <2>1, <2>2
<1>8. CASE D[v].outgoing # 0
  <2>1. SetOne(b, x, i) = x
    BY ONLY <1>1, <1>4, <1>8, Zenon DEF SetOne
  <2> QED BY ONLY <1>1, <1>2, <1>3, <1>8, <2>1
<1> QED BY <1>7, <1>8

\* SetOutgoing gives every vertex the first coedge that starts there.
LEMMA OutgoingMade ==
  ASSUME NEW cu, NEW su, NEW P, NEW V \in Seq([pos : P, outgoing : Nat]), NEW E, NEW C,
         NEW L, NEW F, NEW S, NEW sl, NEW b, NEW O, NEW n \in Nat,
         FirstFrom(b, V, O, n), Has(b, cu, su, V, E, C, L, F, S, sl),
         AllRings(b) = UpTo(n)
  PROVE  Has(SetOutgoing(b), cu, su, OutgoingSet(V, O, n), E, C, L, F, S, sl)
<1>20. SetOutgoing(b) = Iterate(LAMBDA d, c : SetOne(b, d, c), b, AllRings(b))
  BY DEF SetOutgoing, SetOne
<1>21. PICK s : s = UpTo(n)
  OBVIOUS
<1>22. Len(s) = n /\ \A i \in 1..n : s[i] = i
  BY <1>21, PlacesUpTo
<1>23. OutgoingSet(V, O, 0) = V
  <2>1. \A v \in DOMAIN V : ~(O[v] <= 0)
    BY DEF FirstFrom
  <2>2. OutgoingSet(V, O, 0) = [v \in DOMAIN V |-> V[v]]
    BY ONLY <2>1 DEF OutgoingSet
  <2> QED BY <2>2
<1> DEFINE B(i) == Made(cu, su, OutgoingSet(V, O, i), E, C, L, F, S, sl)
           g == [i \in 0..n |-> B(i)]
           Eq(f) == f = [i \in 0..n |->
                           IF i = 0 THEN b
                           ELSE SetOne(b, f[i - 1], s[i])]
           f == CHOOSE k : Eq(k)
<1>1. B(0) = b
  <2>1. b = Made(cu, su, V, E, C, L, F, S, sl)
    BY HasIsMade
  <2> QED BY ONLY <1>23, <2>1
<1>2. ASSUME NEW i \in 1..n
      PROVE  B(i) = SetOne(b, B(i - 1), s[i])
  <2>1. PICK j, x : j = i - 1 /\ x = B(j)
    OBVIOUS
  <2>2. Has(x, cu, su, OutgoingSet(V, O, j), E, C, L, F, S, sl)
    BY ONLY <2>1, MadeHas
  <2>3. PICK y : y = SetOne(b, x, i)
    OBVIOUS
  <2>4. Has(y, cu, su, OutgoingSet(V, O, i), E, C, L, F, S, sl)
    BY <2>1, <2>2, <2>3, SetOneMade
  <2>5. y = B(i)
    BY ONLY <2>4, HasIsMade
  <2>6. s[i] = i
    BY <1>22
  <2> HIDE DEF B
  <2> QED BY ONLY <2>1, <2>3, <2>5, <2>6
<1>3. n \in Nat /\ Len(s) = n
  BY <1>22
<1>4. Iterate(LAMBDA d, c : SetOne(b, d, c), b, s) = f[n]
  <2> HIDE DEF B
  <2> QED BY <1>3 DEF Iterate
<1>5. Eq(g)
  <2>1. \A i \in 0..n : g[i] = IF i = 0 THEN b
                               ELSE SetOne(b, g[i - 1], s[i])
    <3> HIDE DEF B
    <3> QED BY <1>1, <1>2, <1>3
  <2>2. g = [i \in 0..n |-> g[i]]
    OBVIOUS
  <2> HIDE DEF g
  <2> QED BY <2>1, <2>2
<1>6. Eq(f)
  <2> HIDE DEF g, Eq
  <2> QED BY <1>5
<1>7. g[n] = f[n]
  <2>1. \A k : Eq(k) => \A i \in 0..n :
                 k[i] = IF i = 0 THEN b
                        ELSE SetOne(b, k[i - 1], s[i])
    OBVIOUS
  <2> HIDE DEF g, f, Eq
  <2>2. \A i \in 1..n : i \in 0..n /\ i # 0
    BY <1>3
  <2>3. Alike(n, f, g)
    BY <1>3, <1>5, <1>6, <2>1, <2>2 DEF Alike
  <2> QED BY <1>3, <2>3, FoldUnique
<1>8. g[n] = B(n)
  <2> HIDE DEF B
  <2> QED BY <1>3
<1>9. Iterate(LAMBDA d, c : SetOne(b, d, c), b, s) = B(n)
  <2> HIDE DEF B, g, f, Eq
  <2> QED BY <1>4, <1>7, <1>8
<1>10. SetOutgoing(b) = B(n)
  <2> HIDE DEF B
  <2> QED BY ONLY <1>9, <1>20, <1>21, AllRings(b) = UpTo(n)
<1> QED BY ONLY <1>10, MadeHas

\* The edge of each coedge of a box, and the coedges along their edges
BoxCoedges ==
  <<5, 11, 7, 9, 10, 8, 12, 6, 9, 3, 10, 1,
    2, 12, 4, 11, 1, 6, 2, 5, 7, 4, 8, 3>>
BoxAlong == {1, 2, 5, 6, 9, 10, 13, 14, 17, 18, 21, 22}

\* The uses of each edge: along it and against it, and the earlier and the later
AlongBox == <<17, 13, 10, 22, 1, 18, 21, 6, 9, 5, 2, 14>>
AgainstBox == <<12, 19, 24, 15, 20, 8, 3, 23, 4, 11, 16, 7>>
EarlierUse == <<12, 13, 10, 15, 1, 8, 3, 6, 4, 5, 2, 7>>
LaterUse == <<17, 19, 24, 22, 20, 18, 21, 23, 9, 11, 16, 14>>

\* The vertex each coedge starts at, and the first coedge from each vertex
BoxStarts ==
  <<1, 3, 7, 5, 2, 6, 8, 4, 1, 5, 6, 2,
    3, 4, 8, 7, 1, 2, 4, 3, 5, 7, 8, 6>>
BoxOutgoing == <<1, 5, 2, 8, 4, 6, 3, 7>>

\* One of twenty-four
LEMMA OneOfTwentyFour ==
  \A c \in 1..24 :
        \/ c = 1 \/ c = 2 \/ c = 3 \/ c = 4 \/ c = 5 \/ c = 6
        \/ c = 7 \/ c = 8 \/ c = 9 \/ c = 10 \/ c = 11 \/ c = 12
        \/ c = 13 \/ c = 14 \/ c = 15 \/ c = 16 \/ c = 17 \/ c = 18
        \/ c = 19 \/ c = 20 \/ c = 21 \/ c = 22 \/ c = 23 \/ c = 24
  OBVIOUS

\* Places of a ring of four uses
LEMMA UsesAt ==
  ASSUME NEW a, NEW b, NEW c, NEW d, NEW p, NEW q, NEW r, NEW s,
         NEW u, u = <<Use(a, p), Use(b, q), Use(c, r), Use(d, s)>>
  PROVE  UseAt(u, 1, a, p) /\ UseAt(u, 2, b, q) /\ UseAt(u, 3, c, r) /\ UseAt(u, 4, d, s)
<1>1. PICK x, y, z, w : x = Use(a, p) /\ y = Use(b, q) /\ z = Use(c, r) /\ w = Use(d, s)
  OBVIOUS
<1>2. u = <<x, y, z, w>>
  BY <1>1
<1>3. Len(u) = 4 /\ u[1] = x /\ u[2] = y /\ u[3] = z /\ u[4] = w
  BY ONLY <1>2
<1>4. 1 \in 1..4 /\ 2 \in 1..4 /\ 3 \in 1..4 /\ 4 \in 1..4
  OBVIOUS
<1> QED BY ONLY <1>1, <1>3, <1>4 DEF UseAt

\* The coedges use the edges as listed.
LEMMA BoxUsed ==
  ASSUME NEW C \in Seq(Coedge), NEW L, NEW F, Len(C) = 24,
         \A f \in 1..6 : FaceRing(C, L, F, f, BoxUses[f], BoxCounts[f])
  PROVE  UsedAs(C, BoxCoedges, BoxAlong, 24)
<1>1. PICK K, P, U, N : K = BoxCoedges /\ P = BoxAlong /\ U = BoxUses /\ N = BoxCounts
  OBVIOUS
<1>2. /\ K[1] = 5 /\ K[2] = 11 /\ K[3] = 7 /\ K[4] = 9 /\ K[5] = 10 /\ K[6] = 8
      /\ K[7] = 12 /\ K[8] = 6 /\ K[9] = 9 /\ K[10] = 3 /\ K[11] = 10 /\ K[12] = 1
      /\ K[13] = 2 /\ K[14] = 12 /\ K[15] = 4 /\ K[16] = 11 /\ K[17] = 1 /\ K[18] = 6
      /\ K[19] = 2 /\ K[20] = 5 /\ K[21] = 7 /\ K[22] = 4 /\ K[23] = 8 /\ K[24] = 3
  BY ONLY <1>1 DEF BoxCoedges
<1>3. P = {1, 2, 5, 6, 9, 10, 13, 14, 17, 18, 21, 22}
  BY ONLY <1>1 DEF BoxAlong
<1>4. /\ N[1] = 0 /\ N[2] = 4 /\ N[3] = 8 /\ N[4] = 12 /\ N[5] = 16 /\ N[6] = 20
  BY ONLY <1>1 DEF BoxCounts
<1>5. /\ CoedgeAt(C, 1, 5, TRUE) /\ CoedgeAt(C, 2, 11, TRUE)
             /\ CoedgeAt(C, 3, 7, FALSE) /\ CoedgeAt(C, 4, 9, FALSE)
  <2>1. PICK u : u = <<Use(5, TRUE), Use(11, TRUE), Use(7, FALSE), Use(9, FALSE)>>
    OBVIOUS
  <2>2. U[1] = u
    BY <1>1, <2>1, Zenon DEF BoxUses
  <2>3. FaceRing(C, L, F, 1, u, 0)
    <3>1. 1 \in 1..6
      OBVIOUS
    <3> QED BY <1>1, <1>4, <2>2, <3>1
  <2>4. /\ UseAt(u, 1, 5, TRUE) /\ UseAt(u, 2, 11, TRUE)
        /\ UseAt(u, 3, 7, FALSE) /\ UseAt(u, 4, 9, FALSE)
    BY ONLY <2>1, UsesAt
  <2>5. /\ 1 = 0 + 1 /\ 2 = 0 + 2 /\ 3 = 0 + 3 /\ 4 = 0 + 4
        /\ TRUE \in BOOLEAN /\ FALSE \in BOOLEAN
    OBVIOUS
  <2> QED BY ONLY <2>3, <2>4, <2>5, UseOfCoedge, Zenon
<1>6. /\ CoedgeAt(C, 5, 10, TRUE) /\ CoedgeAt(C, 6, 8, TRUE)
             /\ CoedgeAt(C, 7, 12, FALSE) /\ CoedgeAt(C, 8, 6, FALSE)
  <2>1. PICK u : u = <<Use(10, TRUE), Use(8, TRUE), Use(12, FALSE), Use(6, FALSE)>>
    OBVIOUS
  <2>2. U[2] = u
    BY <1>1, <2>1, Zenon DEF BoxUses
  <2>3. FaceRing(C, L, F, 2, u, 4)
    <3>1. 2 \in 1..6
      OBVIOUS
    <3> QED BY <1>1, <1>4, <2>2, <3>1
  <2>4. /\ UseAt(u, 1, 10, TRUE) /\ UseAt(u, 2, 8, TRUE)
        /\ UseAt(u, 3, 12, FALSE) /\ UseAt(u, 4, 6, FALSE)
    BY ONLY <2>1, UsesAt
  <2>5. /\ 5 = 4 + 1 /\ 6 = 4 + 2 /\ 7 = 4 + 3 /\ 8 = 4 + 4
        /\ TRUE \in BOOLEAN /\ FALSE \in BOOLEAN
    OBVIOUS
  <2> QED BY ONLY <2>3, <2>4, <2>5, UseOfCoedge, Zenon
<1>7. /\ CoedgeAt(C, 9, 9, TRUE) /\ CoedgeAt(C, 10, 3, TRUE)
             /\ CoedgeAt(C, 11, 10, FALSE) /\ CoedgeAt(C, 12, 1, FALSE)
  <2>1. PICK u : u = <<Use(9, TRUE), Use(3, TRUE), Use(10, FALSE), Use(1, FALSE)>>
    OBVIOUS
  <2>2. U[3] = u
    BY <1>1, <2>1, Zenon DEF BoxUses
  <2>3. FaceRing(C, L, F, 3, u, 8)
    <3>1. 3 \in 1..6
      OBVIOUS
    <3> QED BY <1>1, <1>4, <2>2, <3>1
  <2>4. /\ UseAt(u, 1, 9, TRUE) /\ UseAt(u, 2, 3, TRUE)
        /\ UseAt(u, 3, 10, FALSE) /\ UseAt(u, 4, 1, FALSE)
    BY ONLY <2>1, UsesAt
  <2>5. /\ 9 = 8 + 1 /\ 10 = 8 + 2 /\ 11 = 8 + 3 /\ 12 = 8 + 4
        /\ TRUE \in BOOLEAN /\ FALSE \in BOOLEAN
    OBVIOUS
  <2> QED BY ONLY <2>3, <2>4, <2>5, UseOfCoedge, Zenon
<1>8. /\ CoedgeAt(C, 13, 2, TRUE) /\ CoedgeAt(C, 14, 12, TRUE)
             /\ CoedgeAt(C, 15, 4, FALSE) /\ CoedgeAt(C, 16, 11, FALSE)
  <2>1. PICK u : u = <<Use(2, TRUE), Use(12, TRUE), Use(4, FALSE), Use(11, FALSE)>>
    OBVIOUS
  <2>2. U[4] = u
    BY <1>1, <2>1, Zenon DEF BoxUses
  <2>3. FaceRing(C, L, F, 4, u, 12)
    <3>1. 4 \in 1..6
      OBVIOUS
    <3> QED BY <1>1, <1>4, <2>2, <3>1
  <2>4. /\ UseAt(u, 1, 2, TRUE) /\ UseAt(u, 2, 12, TRUE)
        /\ UseAt(u, 3, 4, FALSE) /\ UseAt(u, 4, 11, FALSE)
    BY ONLY <2>1, UsesAt
  <2>5. /\ 13 = 12 + 1 /\ 14 = 12 + 2 /\ 15 = 12 + 3 /\ 16 = 12 + 4
        /\ TRUE \in BOOLEAN /\ FALSE \in BOOLEAN
    OBVIOUS
  <2> QED BY ONLY <2>3, <2>4, <2>5, UseOfCoedge, Zenon
<1>9. /\ CoedgeAt(C, 17, 1, TRUE) /\ CoedgeAt(C, 18, 6, TRUE)
             /\ CoedgeAt(C, 19, 2, FALSE) /\ CoedgeAt(C, 20, 5, FALSE)
  <2>1. PICK u : u = <<Use(1, TRUE), Use(6, TRUE), Use(2, FALSE), Use(5, FALSE)>>
    OBVIOUS
  <2>2. U[5] = u
    BY <1>1, <2>1, Zenon DEF BoxUses
  <2>3. FaceRing(C, L, F, 5, u, 16)
    <3>1. 5 \in 1..6
      OBVIOUS
    <3> QED BY <1>1, <1>4, <2>2, <3>1
  <2>4. /\ UseAt(u, 1, 1, TRUE) /\ UseAt(u, 2, 6, TRUE)
        /\ UseAt(u, 3, 2, FALSE) /\ UseAt(u, 4, 5, FALSE)
    BY ONLY <2>1, UsesAt
  <2>5. /\ 17 = 16 + 1 /\ 18 = 16 + 2 /\ 19 = 16 + 3 /\ 20 = 16 + 4
        /\ TRUE \in BOOLEAN /\ FALSE \in BOOLEAN
    OBVIOUS
  <2> QED BY ONLY <2>3, <2>4, <2>5, UseOfCoedge, Zenon
<1>10. /\ CoedgeAt(C, 21, 7, TRUE) /\ CoedgeAt(C, 22, 4, TRUE)
             /\ CoedgeAt(C, 23, 8, FALSE) /\ CoedgeAt(C, 24, 3, FALSE)
  <2>1. PICK u : u = <<Use(7, TRUE), Use(4, TRUE), Use(8, FALSE), Use(3, FALSE)>>
    OBVIOUS
  <2>2. U[6] = u
    BY <1>1, <2>1, Zenon DEF BoxUses
  <2>3. FaceRing(C, L, F, 6, u, 20)
    <3>1. 6 \in 1..6
      OBVIOUS
    <3> QED BY <1>1, <1>4, <2>2, <3>1
  <2>4. /\ UseAt(u, 1, 7, TRUE) /\ UseAt(u, 2, 4, TRUE)
        /\ UseAt(u, 3, 8, FALSE) /\ UseAt(u, 4, 3, FALSE)
    BY ONLY <2>1, UsesAt
  <2>5. /\ 21 = 20 + 1 /\ 22 = 20 + 2 /\ 23 = 20 + 3 /\ 24 = 20 + 4
        /\ TRUE \in BOOLEAN /\ FALSE \in BOOLEAN
    OBVIOUS
  <2> QED BY ONLY <2>3, <2>4, <2>5, UseOfCoedge, Zenon
<1>11. ASSUME NEW c \in 1..24
       PROVE  /\ C[c].edge = K[c]
              /\ c \in P => C[c].same = TRUE
              /\ c \notin P => C[c].same = FALSE
  <2>1. C[c].edge = K[c]
    <3>1. /\ C[1].edge = 5 /\ C[2].edge = 11 /\ C[3].edge = 7 /\ C[4].edge = 9
          /\ C[5].edge = 10 /\ C[6].edge = 8 /\ C[7].edge = 12 /\ C[8].edge = 6
          /\ C[9].edge = 9 /\ C[10].edge = 3 /\ C[11].edge = 10 /\ C[12].edge = 1
          /\ C[13].edge = 2 /\ C[14].edge = 12 /\ C[15].edge = 4 /\ C[16].edge = 11
          /\ C[17].edge = 1 /\ C[18].edge = 6 /\ C[19].edge = 2 /\ C[20].edge = 5
          /\ C[21].edge = 7 /\ C[22].edge = 4 /\ C[23].edge = 8 /\ C[24].edge = 3
      BY ONLY <1>5, <1>6, <1>7, <1>8, <1>9, <1>10 DEF CoedgeAt
    <3>2. c = 1 \/ c = 2 \/ c = 3 \/ c = 4 \/ c = 5 \/ c = 6
          => C[c].edge = K[c]
      BY ONLY <1>2, <3>1
    <3>3. c = 7 \/ c = 8 \/ c = 9 \/ c = 10 \/ c = 11 \/ c = 12
          => C[c].edge = K[c]
      BY ONLY <1>2, <3>1
    <3>4. c = 13 \/ c = 14 \/ c = 15 \/ c = 16 \/ c = 17 \/ c = 18
          => C[c].edge = K[c]
      BY ONLY <1>2, <3>1
    <3>5. c = 19 \/ c = 20 \/ c = 21 \/ c = 22 \/ c = 23 \/ c = 24
          => C[c].edge = K[c]
      BY ONLY <1>2, <3>1
    <3>6. \/ c = 1 \/ c = 2 \/ c = 3 \/ c = 4 \/ c = 5 \/ c = 6
          \/ c = 7 \/ c = 8 \/ c = 9 \/ c = 10 \/ c = 11 \/ c = 12
          \/ c = 13 \/ c = 14 \/ c = 15 \/ c = 16 \/ c = 17 \/ c = 18
          \/ c = 19 \/ c = 20 \/ c = 21 \/ c = 22 \/ c = 23 \/ c = 24
      BY ONLY OneOfTwentyFour, c \in 1..24
    <3> QED BY ONLY <3>2, <3>3, <3>4, <3>5, <3>6
  <2>2. ASSUME c \in P PROVE C[c].same = TRUE
    BY ONLY <1>3, <1>5, <1>6, <1>7, <1>8, <1>9, <1>10, <2>2 DEF CoedgeAt
  <2>3. ASSUME c \notin P PROVE C[c].same = FALSE
    <3>1. c \in 1..24 \ P
      BY <2>3
    <3> QED BY ONLY <1>3, <1>5, <1>6, <1>7, <1>8, <1>9, <1>10, <3>1, OneOfTwentyFour
               DEF CoedgeAt
  <2> QED BY <2>1, <2>2, <2>3
<1> QED BY ONLY <1>1, <1>11, C \in Seq(Coedge), Len(C) = 24 DEF UsedAs

\* They use each edge in both directions.
LEMMA BoxBothWays == UsedBothWays(BoxCoedges, BoxAlong, AlongBox, AgainstBox, 24, 12)
<1>1. PICK K, P, A, B : K = BoxCoedges /\ P = BoxAlong /\ A = AlongBox /\ B = AgainstBox
  OBVIOUS
<1>2. /\ K[1] = 5 /\ K[2] = 11 /\ K[3] = 7 /\ K[4] = 9 /\ K[5] = 10 /\ K[6] = 8
      /\ K[7] = 12 /\ K[8] = 6 /\ K[9] = 9 /\ K[10] = 3 /\ K[11] = 10 /\ K[12] = 1
      /\ K[13] = 2 /\ K[14] = 12 /\ K[15] = 4 /\ K[16] = 11 /\ K[17] = 1 /\ K[18] = 6
      /\ K[19] = 2 /\ K[20] = 5 /\ K[21] = 7 /\ K[22] = 4 /\ K[23] = 8 /\ K[24] = 3
  BY ONLY <1>1 DEF BoxCoedges
<1>3. P = {1, 2, 5, 6, 9, 10, 13, 14, 17, 18, 21, 22}
  BY ONLY <1>1 DEF BoxAlong
<1>4. /\ A[1] = 17 /\ A[2] = 13 /\ A[3] = 10 /\ A[4] = 22 /\ A[5] = 1 /\ A[6] = 18
      /\ A[7] = 21 /\ A[8] = 6 /\ A[9] = 9 /\ A[10] = 5 /\ A[11] = 2 /\ A[12] = 14
  BY ONLY <1>1 DEF AlongBox
<1>5. /\ B[1] = 12 /\ B[2] = 19 /\ B[3] = 24 /\ B[4] = 15 /\ B[5] = 20 /\ B[6] = 8
      /\ B[7] = 3 /\ B[8] = 23 /\ B[9] = 4 /\ B[10] = 11 /\ B[11] = 16 /\ B[12] = 7
  BY ONLY <1>1 DEF AgainstBox
<1>6. ASSUME NEW e \in 1..12
      PROVE  /\ A[e] \in 1..24 /\ K[A[e]] = e /\ A[e] \in P
             /\ B[e] \in 1..24 /\ K[B[e]] = e /\ B[e] \notin P
  BY ONLY <1>2, <1>3, <1>4, <1>5, OneOfTwelve, e \in 1..12
<1>7. ASSUME NEW c \in 1..24
      PROVE  K[c] \in 1..12 /\ c \in {A[K[c]], B[K[c]]}
  BY ONLY <1>2, <1>4, <1>5, OneOfTwentyFour, c \in 1..24
<1> QED BY ONLY <1>1, <1>6, <1>7 DEF UsedBothWays

\* One of them comes first.
LEMMA BoxTwins ==
  ASSUME NEW E, DOMAIN E = 1..12, NEW C, UsedAs(C, BoxCoedges, BoxAlong, 24)
  PROVE  Twins(E, C, EarlierUse, LaterUse)
<1>1. PICK K, A, Z : K = BoxCoedges /\ A = EarlierUse /\ Z = LaterUse
  OBVIOUS
<1>2. /\ K[1] = 5 /\ K[2] = 11 /\ K[3] = 7 /\ K[4] = 9 /\ K[5] = 10 /\ K[6] = 8
      /\ K[7] = 12 /\ K[8] = 6 /\ K[9] = 9 /\ K[10] = 3 /\ K[11] = 10 /\ K[12] = 1
      /\ K[13] = 2 /\ K[14] = 12 /\ K[15] = 4 /\ K[16] = 11 /\ K[17] = 1 /\ K[18] = 6
      /\ K[19] = 2 /\ K[20] = 5 /\ K[21] = 7 /\ K[22] = 4 /\ K[23] = 8 /\ K[24] = 3
  BY ONLY <1>1 DEF BoxCoedges
<1>3. /\ A[1] = 12 /\ A[2] = 13 /\ A[3] = 10 /\ A[4] = 15 /\ A[5] = 1 /\ A[6] = 8
      /\ A[7] = 3 /\ A[8] = 6 /\ A[9] = 4 /\ A[10] = 5 /\ A[11] = 2 /\ A[12] = 7
  BY ONLY <1>1 DEF EarlierUse
<1>4. /\ Z[1] = 17 /\ Z[2] = 19 /\ Z[3] = 24 /\ Z[4] = 22 /\ Z[5] = 20 /\ Z[6] = 18
      /\ Z[7] = 21 /\ Z[8] = 23 /\ Z[9] = 9 /\ Z[10] = 11 /\ Z[11] = 16 /\ Z[12] = 14
  BY ONLY <1>1 DEF LaterUse
<1>5. DOMAIN C = 1..24 /\ \A c \in 1..24 : C[c].edge = K[c]
  BY <1>1 DEF UsedAs
<1>6. ASSUME NEW e \in 1..12
      PROVE  /\ A[e] \in 1..24 /\ K[A[e]] = e /\ Z[e] \in 1..24 /\ K[Z[e]] = e
             /\ A[e] < Z[e]
  BY ONLY <1>2, <1>3, <1>4, OneOfTwelve, e \in 1..12
<1>7. ASSUME NEW c \in 1..24
      PROVE  K[c] \in 1..12 /\ c \in {A[K[c]], Z[K[c]]}
  BY ONLY <1>2, <1>3, <1>4, OneOfTwentyFour, c \in 1..24
<1>8. ASSUME NEW e \in DOMAIN E
      PROVE  /\ A[e] \in DOMAIN C /\ C[A[e]].edge = e
             /\ Z[e] \in DOMAIN C /\ C[Z[e]].edge = e /\ A[e] < Z[e]
  <2>1. PICK a, z : a = A[e] /\ z = Z[e]
    OBVIOUS
  <2>2. a \in 1..24 /\ K[a] = e /\ z \in 1..24 /\ K[z] = e /\ a < z
    BY <1>6, <2>1
  <2> QED BY ONLY <1>5, <2>1, <2>2
<1>9. ASSUME NEW c \in DOMAIN C
      PROVE  C[c].edge \in DOMAIN E /\ c \in {A[C[c].edge], Z[C[c].edge]}
  BY ONLY <1>5, <1>7, c \in DOMAIN C, DOMAIN E = 1..12
<1> QED BY ONLY <1>1, <1>8, <1>9 DEF Twins

\* Where the coedges start
LEMMA BoxFrom ==
  ASSUME NEW b, SameEnds(EdgesOf, b.edges), UsedAs(b.coedges, BoxCoedges, BoxAlong, 24),
         NEW c \in 1..24
  PROVE  From(b, c) = BoxStarts[c]
<1>1. PICK K, P, R, p, q : /\ K = BoxCoedges /\ P = BoxAlong /\ R = BoxStarts
                           /\ p = EdgeFrom /\ q = EdgeTo
  OBVIOUS
<1>2. /\ K[1] = 5 /\ K[2] = 11 /\ K[3] = 7 /\ K[4] = 9 /\ K[5] = 10 /\ K[6] = 8
      /\ K[7] = 12 /\ K[8] = 6 /\ K[9] = 9 /\ K[10] = 3 /\ K[11] = 10 /\ K[12] = 1
      /\ K[13] = 2 /\ K[14] = 12 /\ K[15] = 4 /\ K[16] = 11 /\ K[17] = 1 /\ K[18] = 6
      /\ K[19] = 2 /\ K[20] = 5 /\ K[21] = 7 /\ K[22] = 4 /\ K[23] = 8 /\ K[24] = 3
  BY ONLY <1>1 DEF BoxCoedges
<1>3. P = {1, 2, 5, 6, 9, 10, 13, 14, 17, 18, 21, 22}
  BY ONLY <1>1 DEF BoxAlong
<1>4. /\ R[1] = 1 /\ R[2] = 3 /\ R[3] = 7 /\ R[4] = 5 /\ R[5] = 2 /\ R[6] = 6
      /\ R[7] = 8 /\ R[8] = 4 /\ R[9] = 1 /\ R[10] = 5 /\ R[11] = 6 /\ R[12] = 2
      /\ R[13] = 3 /\ R[14] = 4 /\ R[15] = 8 /\ R[16] = 7 /\ R[17] = 1 /\ R[18] = 2
      /\ R[19] = 4 /\ R[20] = 3 /\ R[21] = 5 /\ R[22] = 7 /\ R[23] = 8 /\ R[24] = 6
  BY ONLY <1>1 DEF BoxStarts
<1>5. /\ p[1] = 0 /\ p[2] = 2 /\ p[3] = 4 /\ p[4] = 6 /\ p[5] = 0 /\ p[6] = 1
      /\ p[7] = 4 /\ p[8] = 5 /\ p[9] = 0 /\ p[10] = 1 /\ p[11] = 2 /\ p[12] = 3
  BY ONLY <1>1 DEF EdgeFrom
<1>6. /\ q[1] = 1 /\ q[2] = 3 /\ q[3] = 5 /\ q[4] = 7 /\ q[5] = 2 /\ q[6] = 3
      /\ q[7] = 6 /\ q[8] = 7 /\ q[9] = 4 /\ q[10] = 5 /\ q[11] = 6 /\ q[12] = 7
  BY ONLY <1>1 DEF EdgeTo
<1>7. /\ K[c] \in 1..12
      /\ c \in P => R[c] = p[K[c]] + 1
      /\ c \notin P => R[c] = q[K[c]] + 1
  BY ONLY <1>2, <1>3, <1>4, <1>5, <1>6, OneOfTwentyFour, c \in 1..24
<1>8. PICK e, d : e = K[c] /\ d = b.edges[e]
  OBVIOUS
<1>9. d.start = p[e] + 1 /\ d.end = q[e] + 1
  <2>1. e \in 1..12 /\ DOMAIN EdgesOf = 1..12
    BY <1>7, <1>8 DEF EdgesOf
  <2>2. d.start = EdgesOf[e].start /\ d.end = EdgesOf[e].end
    BY ONLY <1>8, <2>1, SameEnds(EdgesOf, b.edges) DEF SameEnds
  <2>3. PICK x, y, z : x = EdgesOf[e] /\ y = p[e] + 1 /\ z = q[e] + 1
    OBVIOUS
  <2>4. x = EdgeOf(e, y, z)
    BY ONLY <1>1, <2>1, <2>3 DEF EdgesOf
  <2>5. x.start = y /\ x.end = z
    BY <2>4, Zenon DEF EdgeOf
  <2> QED BY ONLY <2>2, <2>3, <2>5
<1>10. /\ b.coedges[c].edge = e
       /\ c \in P => b.coedges[c].same = TRUE
       /\ c \notin P => b.coedges[c].same = FALSE
  BY <1>1, <1>8 DEF UsedAs
<1>11. From(b, c) = IF b.coedges[c].same THEN d.start ELSE d.end
  BY ONLY <1>8, <1>10, Zenon DEF From
<1> QED BY ONLY <1>1, <1>7, <1>8, <1>9, <1>10, <1>11

\* Which of them is the first from a vertex
LEMMA BoxFirstFrom ==
  ASSUME NEW b, SameEnds(EdgesOf, b.edges), UsedAs(b.coedges, BoxCoedges, BoxAlong, 24),
         NEW V, DOMAIN V = 1..8, \A v \in 1..8 : V[v].outgoing = 0
  PROVE  FirstFrom(b, V, BoxOutgoing, 24)
<1>1. PICK R, O : R = BoxStarts /\ O = BoxOutgoing
  OBVIOUS
<1>2. /\ R[1] = 1 /\ R[2] = 3 /\ R[3] = 7 /\ R[4] = 5 /\ R[5] = 2 /\ R[6] = 6
      /\ R[7] = 8 /\ R[8] = 4 /\ R[9] = 1 /\ R[10] = 5 /\ R[11] = 6 /\ R[12] = 2
      /\ R[13] = 3 /\ R[14] = 4 /\ R[15] = 8 /\ R[16] = 7 /\ R[17] = 1 /\ R[18] = 2
      /\ R[19] = 4 /\ R[20] = 3 /\ R[21] = 5 /\ R[22] = 7 /\ R[23] = 8 /\ R[24] = 6
  BY ONLY <1>1 DEF BoxStarts
<1>3. /\ O[1] = 1 /\ O[2] = 5 /\ O[3] = 2 /\ O[4] = 8
      /\ O[5] = 4 /\ O[6] = 6 /\ O[7] = 3 /\ O[8] = 7
  BY ONLY <1>1 DEF BoxOutgoing
<1>4. \A c \in 1..24 : From(b, c) = R[c]
  BY <1>1, BoxFrom
<1>5. ASSUME NEW v \in 1..8 PROVE O[v] \in 1..24 /\ R[O[v]] = v
  <2>1. v = 1 \/ v = 2 \/ v = 3 \/ v = 4 \/ v = 5 \/ v = 6 \/ v = 7 \/ v = 8
    OBVIOUS
  <2> QED BY ONLY <1>2, <1>3, <2>1
<1>6. ASSUME NEW c \in 1..24 PROVE R[c] \in 1..8 /\ O[R[c]] <= c
  BY ONLY <1>2, <1>3, OneOfTwentyFour, c \in 1..24
<1> QED BY ONLY <1>1, <1>4, <1>5, <1>6, DOMAIN V = 1..8,
           \A v \in 1..8 : V[v].outgoing = 0 DEF FirstFrom
\* Setting outgoing leaves references whole.
LEMMA OutgoingWhole ==
  ASSUME NEW cu, NEW su, NEW V, NEW E, NEW C, NEW L, NEW F, NEW S, NEW sl,
         Whole(cu, su, V, E, C, L, F, S, sl),
         NEW O, NEW n, \A v \in DOMAIN V : O[v] \in DOMAIN C,
         NEW W, W = OutgoingSet(V, O, n)
  PROVE  /\ Whole(cu, su, W, E, C, L, F, S, sl) /\ DOMAIN W = DOMAIN V
         /\ \A v \in DOMAIN V : W[v].pos = V[v].pos
<1>1. /\ \E P : V \in Seq([pos : P, outgoing : Nat])
      /\ E \in Seq(Edge) /\ C \in Seq(Coedge) /\ L \in Seq(Loop)
      /\ F \in Seq(Face) /\ S \in Seq(Seq(Nat)) /\ sl \in Seq(Nat)
      /\ VerticesWhole(V, C) /\ EdgesWhole(cu, V, E, C) /\ CoedgesWhole(E, C, L)
      /\ LoopsWhole(C, L, F) /\ FacesWhole(su, L, F, S) /\ ShellsWhole(F, S, sl)
      /\ RingsWhole(C, L)
  BY Zenon DEF Whole
<1>2. PICK P, T : T = [pos : P, outgoing : Nat] /\ V \in Seq(T)
  BY <1>1
<1>3. DOMAIN C \subseteq Nat
  BY <1>1, PlacesAreNaturals
<1>4. /\ DOMAIN W = DOMAIN V /\ W = [v \in DOMAIN V |-> W[v]]
      /\ \A v \in DOMAIN V : W[v] = IF O[v] <= n THEN [V[v] EXCEPT !.outgoing = O[v]]
                                    ELSE V[v]
  BY DEF OutgoingSet
<1>5. ASSUME NEW v \in DOMAIN V
      PROVE  W[v] \in T /\ W[v].pos = V[v].pos /\ NullOrIn(W[v].outgoing, C)
  <2>1. PICK x, o, y : x = V[v] /\ o = O[v] /\ y = [x EXCEPT !.outgoing = o]
    OBVIOUS
  <2>2. x \in T /\ o \in DOMAIN C /\ o \in Nat /\ NullOrIn(x.outgoing, C)
    <3>1. x \in T
      <4>1. V \in Seq(T)
        BY <1>2
      <4> QED BY ONLY <2>1, <4>1, v \in DOMAIN V
    <3>2. NullOrIn(x.outgoing, C)
      BY ONLY <1>1, <2>1, v \in DOMAIN V DEF VerticesWhole
    <3> QED BY ONLY <1>3, <2>1, <3>1, <3>2, v \in DOMAIN V,
               \A u \in DOMAIN V : O[u] \in DOMAIN C
  <2>3. y \in T /\ y.pos = x.pos /\ y.outgoing = o
    BY ONLY <1>2, <2>1, <2>2
  <2>4. W[v] = x \/ W[v] = y
    BY <1>4, <2>1
  <2> QED BY ONLY <2>1, <2>2, <2>3, <2>4 DEF NullOrIn
<1>6. W \in Seq(T)
  <2>1. V \in Seq(T)
    BY <1>2
  <2>2. DOMAIN W = DOMAIN V /\ W = [v \in DOMAIN V |-> W[v]]
    BY <1>4
  <2>3. \A v \in DOMAIN V : W[v] \in T
    BY <1>5
  <2> QED BY ONLY <2>1, <2>2, <2>3, SamePlaces
<1>7. VerticesWhole(W, C) /\ EdgesWhole(cu, W, E, C)
  BY ONLY <1>1, <1>4, <1>5 DEF VerticesWhole, EdgesWhole
<1>8. \E Q : W \in Seq([pos : Q, outgoing : Nat])
  BY <1>2, <1>6
<1>9. Whole(cu, su, W, E, C, L, F, S, sl)
  BY ONLY <1>1, <1>7, <1>8, Zenon DEF Whole
<1> QED BY <1>4, <1>5, <1>9

\* The body of a box while its coedges are C: the rest as Faced has it
BoxBody(b, V, E, C) ==
  \E L, F, fs :
    /\ Has(b, 12, 6, V, E, C, L, F, <<fs>>, <<>>)
    /\ Whole(12, 6, V, E, C, L, F, <<fs>>, <<>>)
    /\ Len(F) = 6 /\ Len(C) = BoxCounts[6 + 1] /\ fs \in Seq(Nat)
    /\ \A f \in 1..6 : FaceRing(C, L, F, f, BoxUses[f], BoxCounts[f])

\* So much is known of it.
LEMMA BoxBodyKnown ==
  ASSUME NEW b, NEW V, NEW E, NEW C, BoxBody(b, V, E, C)
  PROVE  /\ b.vertices = V /\ b.edges = E /\ b.coedges = C
         /\ C \in Seq(Coedge) /\ E \in Seq(Edge) /\ Len(C) = 24
         /\ UsedAs(C, BoxCoedges, BoxAlong, 24) /\ AllRings(b) = UpTo(24)
         /\ Faced(b, 12, 6, V, E, BoxUses, BoxCounts, 6)
<1>1. PICK L, F, fs :
        /\ Has(b, 12, 6, V, E, C, L, F, <<fs>>, <<>>)
        /\ Whole(12, 6, V, E, C, L, F, <<fs>>, <<>>)
        /\ Len(F) = 6 /\ Len(C) = BoxCounts[6 + 1] /\ fs \in Seq(Nat)
        /\ \A f \in 1..6 : FaceRing(C, L, F, f, BoxUses[f], BoxCounts[f])
  BY Zenon DEF BoxBody
<1>2. b.vertices = V /\ b.edges = E /\ b.coedges = C
  BY <1>1, Zenon DEF Has
<1>3. C \in Seq(Coedge) /\ E \in Seq(Edge)
  BY <1>1, Zenon DEF Whole
<1>4. Len(C) = 24
  BY <1>1 DEF BoxCounts
<1>5. UsedAs(C, BoxCoedges, BoxAlong, 24)
  BY ONLY <1>1, <1>3, <1>4, BoxUsed
<1>6. Faced(b, 12, 6, V, E, BoxUses, BoxCounts, 6)
  BY <1>1, Zenon DEF Faced
<1>7. AllRings(b) = UpTo(24)
  BY ONLY <1>6, BoxRings
<1> QED BY ONLY <1>2, <1>3, <1>4, <1>5, <1>6, <1>7

\* A box after MateAll
LEMMA BoxMateAll ==
  ASSUME NEW b, NEW V, NEW C, BoxBody(b, V, EdgesOf, C)
  PROVE  BoxBody(MateAll(b), V, EdgesMated(EdgesOf, EarlierUse, LaterUse, 24),
                 CoedgesMated(C, EarlierUse, LaterUse, 24))
<1>1. PICK L, F, fs :
        /\ Has(b, 12, 6, V, EdgesOf, C, L, F, <<fs>>, <<>>)
        /\ Whole(12, 6, V, EdgesOf, C, L, F, <<fs>>, <<>>)
        /\ Len(F) = 6 /\ Len(C) = BoxCounts[6 + 1] /\ fs \in Seq(Nat)
        /\ \A f \in 1..6 : FaceRing(C, L, F, f, BoxUses[f], BoxCounts[f])
  BY Zenon DEF BoxBody
<1>2. PICK E, A, Z, n : E = EdgesOf /\ A = EarlierUse /\ Z = LaterUse /\ n = 24
  OBVIOUS
<1>3. /\ C \in Seq(Coedge) /\ E \in Seq(Edge) /\ n = Len(C)
      /\ UsedAs(C, BoxCoedges, BoxAlong, 24) /\ AllRings(b) = UpTo(n)
  BY <1>2, BoxBodyKnown
<1>4. DOMAIN E = 1..12 /\ \A e \in 1..12 : E[e].coedge_a = 0 /\ E[e].coedge_b = 0
  BY <1>2 DEF EdgesOf, EdgeOf
<1>5. Twins(E, C, A, Z)
  BY ONLY <1>2, <1>3, <1>4, BoxTwins
<1>6. PICK G, D : G = EdgesMated(E, A, Z, n) /\ D = CoedgesMated(C, A, Z, n)
  OBVIOUS
<1>7. PICK S, sl : S = <<fs>> /\ sl = <<>>
  OBVIOUS
<1>8. Has(b, 12, 6, V, E, C, L, F, S, sl) /\ Whole(12, 6, V, E, C, L, F, S, sl)
  BY ONLY <1>1, <1>2, <1>7
<1>9. Has(MateAll(b), 12, 6, V, G, D, L, F, S, sl)
  <2>1. \A e \in DOMAIN E : E[e].coedge_a = 0 /\ E[e].coedge_b = 0
    BY ONLY <1>4
  <2> QED BY ONLY <1>3, <1>5, <1>6, <1>8, <2>1, MateAllMade
<1>10. Whole(12, 6, V, G, D, L, F, S, sl) /\ RingsKept(C, L, F, D, L, F)
  BY ONLY <1>5, <1>6, <1>8, MatedWhole
<1>11. Len(D) = Len(C)
  <2>1. D \in Seq(Coedge) /\ DOMAIN D = DOMAIN C
    BY ONLY <1>3, <1>5, <1>6, MatedCoedges DEF SameUses
  <2> QED BY ONLY <1>3, <2>1
<1>12. \A f \in 1..6 : FaceRing(D, L, F, f, BoxUses[f], BoxCounts[f])
  BY ONLY <1>1, <1>10 DEF RingsKept
<1>13. BoxBody(MateAll(b), V, G, D)
  BY ONLY <1>1, <1>7, <1>9, <1>10, <1>11, <1>12, Zenon DEF BoxBody
<1> QED BY ONLY <1>2, <1>6, <1>13

\* A box after SetOutgoing
LEMMA BoxSetOutgoing ==
  ASSUME NEW b, NEW V, NEW E, NEW C, BoxBody(b, V, E, C), SameEnds(EdgesOf, E),
         DOMAIN V = 1..8, \A v \in 1..8 : V[v].outgoing = 0
  PROVE  /\ BoxBody(SetOutgoing(b), OutgoingSet(V, BoxOutgoing, 24), E, C)
         /\ FirstFrom(b, V, BoxOutgoing, 24)
<1>1. PICK L, F, fs :
        /\ Has(b, 12, 6, V, E, C, L, F, <<fs>>, <<>>)
        /\ Whole(12, 6, V, E, C, L, F, <<fs>>, <<>>)
        /\ Len(F) = 6 /\ Len(C) = BoxCounts[6 + 1] /\ fs \in Seq(Nat)
        /\ \A f \in 1..6 : FaceRing(C, L, F, f, BoxUses[f], BoxCounts[f])
  BY Zenon DEF BoxBody
<1>2. PICK n, O, W, S, sl : /\ n = 24 /\ O = BoxOutgoing /\ W = OutgoingSet(V, O, n)
                            /\ S = <<fs>> /\ sl = <<>>
  OBVIOUS
<1>3. /\ b.edges = E /\ b.coedges = C /\ C \in Seq(Coedge) /\ Len(C) = 24
      /\ UsedAs(C, BoxCoedges, BoxAlong, 24) /\ AllRings(b) = UpTo(n)
  BY <1>2, BoxBodyKnown
<1>4. FirstFrom(b, V, O, n)
  BY <1>2, <1>3, BoxFirstFrom
<1>5. Has(b, 12, 6, V, E, C, L, F, S, sl) /\ Whole(12, 6, V, E, C, L, F, S, sl)
  BY ONLY <1>1, <1>2
<1>6. PICK P : V \in Seq([pos : P, outgoing : Nat])
  BY <1>5 DEF Whole
<1>7. Has(SetOutgoing(b), 12, 6, W, E, C, L, F, S, sl)
  <2>1. n \in Nat
    BY <1>2
  <2> QED BY ONLY <1>2, <1>3, <1>4, <1>5, <1>6, <2>1, OutgoingMade
<1>8. \A v \in DOMAIN V : O[v] \in DOMAIN C
  BY ONLY <1>2, <1>3, <1>4 DEF FirstFrom
<1>9. Whole(12, 6, W, E, C, L, F, S, sl)
  BY ONLY <1>2, <1>5, <1>8, OutgoingWhole
<1>10. BoxBody(SetOutgoing(b), W, E, C)
  BY ONLY <1>1, <1>2, <1>7, <1>9, Zenon DEF BoxBody
<1> QED BY ONLY <1>2, <1>4, <1>10

\* What MakeBox builds for a call
BoxDone(b, c, C) ==
  /\ Finished(b, 12, 6, OutgoingSet(CornersOf(c.at, c.size), BoxOutgoing, 24),
              EdgesMated(EdgesOf, EarlierUse, LaterUse, 24), BoxUses, BoxCounts, 6)
  /\ b.vertices = OutgoingSet(CornersOf(c.at, c.size), BoxOutgoing, 24)
  /\ b.edges = EdgesMated(EdgesOf, EarlierUse, LaterUse, 24)
  /\ b.coedges = CoedgesMated(C, EarlierUse, LaterUse, 24)
  /\ C \in Seq(Coedge) /\ Twins(EdgesOf, C, EarlierUse, LaterUse)
  /\ UsedAs(b.coedges, BoxCoedges, BoxAlong, 24) /\ SameEnds(EdgesOf, b.edges)
  /\ \A v \in 1..8 : BoxOutgoing[v] \in 1..24 /\ From(b, BoxOutgoing[v]) = v

\* From() looks at edges and coedges only.
LEMMA FromSame ==
  ASSUME NEW b, NEW d, d.edges = b.edges, d.coedges = b.coedges, NEW c
  PROVE  From(d, c) = From(b, c)
  BY Zenon DEF From

\* Finish touches the shell list and the box only.
LEMMA FinishKeeps ==
  ASSUME NEW b, NEW cu, NEW su, NEW V, NEW E, NEW C, NEW L, NEW F, NEW S,
         Has(b, cu, su, V, E, C, L, F, S, <<>>)
  PROVE  Finish(b).vertices = V /\ Finish(b).edges = E /\ Finish(b).coedges = C
<1>1. Has(Finish(b), cu, su, V, E, C, L, F, S, <<1>>)
  BY MadeFinish
<1> QED BY <1>1, Zenon DEF Has

\* A box that is made is complete.
LEMMA BoxBuilt ==
  ASSUME NEW c, MakeBox(c).status = "Ok"
  PROVE  \E C : BoxDone(MakeBox(c).body, c, C)
<1>1. PICK start, edged : /\ start = BoxVertices(c.at, c.size)
                          /\ edged = AddBoxEdges(start)
  OBVIOUS
<1>2. /\ ~(Len(edged.edges) < 12)
      /\ MakeBox(c).body = Finish(SetOutgoing(MateAll(AddBoxFaces(edged))))
  <2>1. \A b, why : Fail(b, why).status = why
    BY Zenon DEF Fail
  <2>2. \A b : Done(b).body = b
    BY Zenon DEF Done
  <2>3. "DegenerateInput" # "Ok"
    OBVIOUS
  <2>4. MakeBox(c) = IF \E a \in Axes : c.size[a] <= 0 THEN Fail(EmptyBody, "DegenerateInput")
                     ELSE IF Len(edged.edges) < 12 THEN Fail(edged, "DegenerateInput")
                     ELSE Done(Finish(SetOutgoing(MateAll(AddBoxFaces(edged)))))
    BY ONLY <1>1, Zenon DEF MakeBox
  <2>5. ~(\E a \in Axes : c.size[a] <= 0) /\ ~(Len(edged.edges) < 12)
    BY ONLY <2>1, <2>3, <2>4, MakeBox(c).status = "Ok"
  <2> QED BY ONLY <2>2, <2>4, <2>5
<1>3. PICK V, W, E, A, Z, O, G :
        /\ V = CornersOf(c.at, c.size) /\ E = EdgesOf
        /\ A = EarlierUse /\ Z = LaterUse /\ O = BoxOutgoing
        /\ W = OutgoingSet(V, O, 24) /\ G = EdgesMated(E, A, Z, 24)
  OBVIOUS
<1>4. Has(edged, 12, 0, V, E, <<>>, <<>>, <<>>, <<>>, <<>>)
  <2>1. PICK m \in 0..12 : Has(edged, m, 0, V, First(E, m), <<>>, <<>>, <<>>, <<>>, <<>>)
    BY <1>1, <1>3, CornersMade, EdgesMadeBox
  <2>2. edged.edges = First(E, m)
    BY <2>1, Zenon DEF Has
  <2>3. Len(First(E, m)) = m
    BY DEF First
  <2>4. m = 12
    BY ONLY <1>2, <2>2, <2>3, m \in 0..12
  <2>5. First(E, 12) = E
    BY <1>3 DEF First, EdgesOf
  <2> QED BY ONLY <2>1, <2>4, <2>5
<1>5. PICK b1, C : b1 = AddBoxFaces(edged) /\ BoxBody(b1, V, E, C)
  <2>1. Faced(AddBoxFaces(edged), 12, 6, V, E, BoxUses, BoxCounts, 6)
    BY ONLY <1>3, <1>4, BoxFaced
  <2> QED BY <2>1, Zenon DEF Faced, BoxBody
<1>6. PICK b2, D : b2 = MateAll(b1) /\ D = CoedgesMated(C, A, Z, 24)
  OBVIOUS
<1>7. BoxBody(b2, V, G, D)
  BY ONLY <1>3, <1>5, <1>6, BoxMateAll
<1>8. /\ C \in Seq(Coedge) /\ UsedAs(C, BoxCoedges, BoxAlong, 24)
      /\ E \in Seq(Edge) /\ DOMAIN E = 1..12
  <2>1. DOMAIN E = 1..12
    BY <1>3 DEF EdgesOf
  <2> QED BY ONLY <1>5, <2>1, BoxBodyKnown
<1>9. Twins(E, C, A, Z)
  BY ONLY <1>3, <1>8, BoxTwins
<1>10. SameEnds(E, G)
  BY ONLY <1>3, <1>8, <1>9, MatedEdges
<1>11. PICK b3 : b3 = SetOutgoing(b2)
  OBVIOUS
<1>12. BoxBody(b3, W, G, D) /\ FirstFrom(b2, V, O, 24)
  <2>1. DOMAIN V = 1..8 /\ \A v \in 1..8 : V[v].outgoing = 0
    BY <1>3 DEF CornersOf, VertexOf
  <2> QED BY ONLY <1>3, <1>7, <1>10, <1>11, <2>1, BoxSetOutgoing
<1>13. PICK b4 : b4 = Finish(b3)
  OBVIOUS
<1>14. Finished(b4, 12, 6, W, G, BoxUses, BoxCounts, 6)
  <2>1. Faced(b3, 12, 6, W, G, BoxUses, BoxCounts, 6)
    BY ONLY <1>12, BoxBodyKnown
  <2>2. 12 \in Nat /\ 6 \in Nat
    OBVIOUS
  <2> QED BY ONLY <1>13, <2>1, <2>2, FacedFinish
<1>15. b4.vertices = W /\ b4.edges = G /\ b4.coedges = D
  BY ONLY <1>12, <1>13, FinishKeeps DEF BoxBody
<1>16. /\ UsedAs(D, BoxCoedges, BoxAlong, 24) /\ b2.edges = G /\ b2.coedges = D
  BY ONLY <1>7, BoxBodyKnown
<1>17. ASSUME NEW v \in 1..8 PROVE O[v] \in 1..24 /\ From(b4, O[v]) = v
  <2>1. DOMAIN V = 1..8
    BY <1>3 DEF CornersOf
  <2>2. O[v] \in 1..24 /\ From(b2, O[v]) = v
    BY ONLY <1>12, <2>1, v \in 1..8 DEF FirstFrom
  <2>3. From(b4, O[v]) = From(b2, O[v])
    BY ONLY <1>15, <1>16, FromSame
  <2> QED BY ONLY <2>2, <2>3
<1>18. MakeBox(c).body = b4
  BY ONLY <1>2, <1>5, <1>6, <1>11, <1>13
<1> QED BY ONLY <1>3, <1>6, <1>8, <1>9, <1>10, <1>14, <1>15, <1>16, <1>17, <1>18, Zenon
           DEF BoxDone
\* What a box passes: it validates clean, and its copy is the same body.
LEMMA BoxSound ==
  ASSUME NEW c, NEW C, NEW b, BoxDone(b, c, C)
  PROVE  Validate(b) = {} /\ Clone(b) = b
<1>1. PICK V, E : Finished(b, 12, 6, V, E, BoxUses, BoxCounts, 6)
  BY DEF BoxDone
<1>2. 12 \in Nat /\ 6 \in Nat
  OBVIOUS
<1> QED BY ONLY <1>1, <1>2, FinishedSound

\* Whether a ring closes depends on the ends of its edges.
LEMMA MeetsSame ==
  ASSUME NEW E, NEW G, SameEnds(E, G), NEW n \in Nat, DOMAIN E = 1..n, NEW m \in 1..4,
         NEW uses \in UsesUpTo(n, m), Meets(E, uses)
  PROVE  Meets(G, uses)
<1>1. PICK T : T = [edge : 1..n, same : BOOLEAN]
  OBVIOUS
<1>2. uses \in Seq(T) /\ Len(uses) = m
  BY <1>1 DEF UsesUpTo
<1>3. ASSUME NEW i \in 1..m
      PROVE  UseFrom(G, uses[i]) = UseFrom(E, uses[i]) /\ UseTo(G, uses[i]) = UseTo(E, uses[i])
  <2>1. PICK e, d, u : u = uses[i] /\ e = E[u.edge] /\ d = G[u.edge]
    OBVIOUS
  <2>2. u \in T
    BY <1>2, <2>1
  <2>3. u.edge \in DOMAIN E
    BY ONLY <1>1, <2>2, DOMAIN E = 1..n
  <2>4. d.start = e.start /\ d.end = e.end
    BY ONLY <2>1, <2>3, SameEnds(E, G) DEF SameEnds
  <2> QED BY ONLY <2>1, <2>4, Zenon DEF UseFrom, UseTo
<1>4. ASSUME NEW i \in 1..m
      PROVE  UseTo(G, uses[i]) = UseFrom(G, uses[IF i = m THEN 1 ELSE i + 1])
  <2>1. PICK j : j = IF i = m THEN 1 ELSE i + 1
    OBVIOUS
  <2>2. j \in 1..m
    BY <2>1
  <2>3. UseTo(E, uses[i]) = UseFrom(E, uses[j])
    BY ONLY <1>2, <2>1, Meets(E, uses), i \in 1..m DEF Meets
  <2> QED BY ONLY <1>3, <2>1, <2>2, <2>3, i \in 1..m
<1> QED BY ONLY <1>2, <1>4 DEF Meets

\* A box is the boundary of a solid.
LEMMA BoxBoundary ==
  ASSUME NEW c, NEW C, BoxDone(body, c, C)
  PROVE  SolidBoundary
<1>1. PICK V, E, U, N : /\ V = OutgoingSet(CornersOf(c.at, c.size), BoxOutgoing, 24)
                        /\ E = EdgesMated(EdgesOf, EarlierUse, LaterUse, 24)
                        /\ U = BoxUses /\ N = BoxCounts
  OBVIOUS
<1>2. /\ Finished(body, 12, 6, V, E, U, N, 6) /\ body.vertices = V /\ body.edges = E
      /\ UsedAs(body.coedges, BoxCoedges, BoxAlong, 24) /\ SameEnds(EdgesOf, E)
  BY <1>1 DEF BoxDone
<1>3. PICK D, L, F, S :
        /\ Has(body, 12, 6, V, E, D, L, F, S, <<1>>)
        /\ Whole(12, 6, V, E, D, L, F, S, <<1>>)
        /\ Len(F) = 6 /\ Len(D) = N[6 + 1]
        /\ \A f \in 1..6 : FaceRing(D, L, F, f, U[f], N[f])
  BY <1>2, Zenon DEF Finished
<1>4. /\ body.vertices = V /\ body.edges = E /\ body.coedges = D
      /\ body.loops = L /\ body.faces = F
  BY <1>3, Zenon DEF Has
<1>5. /\ D \in Seq(Coedge) /\ F \in Seq(Face) /\ E \in Seq(Edge)
      /\ \E P : V \in Seq([pos : P, outgoing : Nat])
  BY <1>3, Zenon DEF Whole
<1>6. DOMAIN E = 1..12 /\ DOMAIN EdgesOf = 1..12
  BY <1>2 DEF SameEnds, EdgesOf
<1>7. DOMAIN V = 1..8
  BY <1>1 DEF OutgoingSet, CornersOf
<1>8. Len(V) = 8 /\ Len(E) = 12 /\ DOMAIN F = 1..6
  <2>1. Len(E) = 12
    BY <1>5, <1>6
  <2>2. Len(V) = 8
    BY <1>5, <1>7
  <2> QED BY <1>3, <1>5, <2>1, <2>2
<1>9. Paired(E, D, AlongBox, AgainstBox)
  <2>1. UsedAs(D, BoxCoedges, BoxAlong, 24)
    BY <1>2, <1>4
  <2>2. 24 \in Nat /\ 12 \in Nat
    OBVIOUS
  <2> QED BY ONLY <1>6, <2>1, <2>2, BoxBothWays, PairedBy
<1>10. ASSUME NEW f \in 1..6 PROVE RingFit(E, U[f], N[f])
  <2>1. PICK uses, k : uses = U[f] /\ k = N[f]
    OBVIOUS
  <2>2. uses \in UsesUpTo(12, 4) /\ Meets(EdgesOf, uses)
    BY <1>1, <2>1, BoxUsesFit, BoxMeets
  <2>3. k \in Nat
    BY <1>1, <2>1 DEF BoxCounts
  <2>4. 12 \in Nat /\ 4 \in 1..4
    OBVIOUS
  <2>5. Meets(E, uses)
    BY ONLY <1>2, <1>6, <2>2, <2>4, MeetsSame, ZenonT(60)
  <2>6. RingFit(E, uses, k)
    BY ONLY <2>2, <2>3, <2>4, <2>5, RingOfUses
  <2> QED BY ONLY <2>1, <2>6
<1>11. /\ Paired(body.edges, body.coedges, AlongBox, AgainstBox)
       /\ body.coedges \in Seq(Coedge)
       /\ Len(body.vertices) + Len(body.faces) = Len(body.edges) + 2
  <2>1. Len(body.vertices) = 8 /\ Len(body.faces) = 6 /\ Len(body.edges) = 12
    BY ONLY <1>3, <1>4, <1>8
  <2>2. Paired(body.edges, body.coedges, AlongBox, AgainstBox)
    BY ONLY <1>4, <1>9
  <2>3. body.coedges \in Seq(Coedge)
    BY ONLY <1>4, <1>5
  <2>4. 8 + 6 = 12 + 2
    OBVIOUS
  <2> QED BY ONLY <2>1, <2>2, <2>3, <2>4, Zenon
<1>12. RingsFit(body, U, N, 6)
  BY ONLY <1>3, <1>4, <1>8, <1>10 DEF RingsFit
<1> QED BY ONLY <1>11, <1>12, BoundaryOf

\* In a box every coedge, edge and vertex is linked to the others.
LEMMA BoxLinked ==
  ASSUME NEW c, NEW C, BoxDone(body, c, C)
  PROVE  BoxMated
<1>1. PICK V, W, E, G, D, A, Z, O :
        /\ V = CornersOf(c.at, c.size) /\ E = EdgesOf
        /\ A = EarlierUse /\ Z = LaterUse /\ O = BoxOutgoing
        /\ W = OutgoingSet(V, O, 24) /\ G = EdgesMated(E, A, Z, 24)
        /\ D = CoedgesMated(C, A, Z, 24)
  OBVIOUS
<1>2. /\ body.vertices = W /\ body.edges = G /\ body.coedges = D
      /\ C \in Seq(Coedge) /\ Twins(E, C, A, Z)
      /\ UsedAs(D, BoxCoedges, BoxAlong, 24)
      /\ \A v \in 1..8 : O[v] \in 1..24 /\ From(body, O[v]) = v
  BY <1>1 DEF BoxDone
<1>3. DOMAIN D = DOMAIN C /\ \A x \in DOMAIN C : D[x].edge = C[x].edge
  BY ONLY <1>1, <1>2, MatedCoedges DEF SameUses
<1>4. DOMAIN D = 1..24
  BY ONLY <1>2 DEF UsedAs
<1>5. ASSUME NEW e \in DOMAIN E PROVE UsesOf(e) = {A[e], Z[e]}
  <2>1. UsesOf(e) = {x \in DOMAIN C : C[x].edge = e}
    BY ONLY <1>2, <1>3 DEF UsesOf
  <2>2. /\ A[e] \in DOMAIN C /\ C[A[e]].edge = e /\ Z[e] \in DOMAIN C /\ C[Z[e]].edge = e
        /\ \A x \in DOMAIN C : C[x].edge = e => x \in {A[e], Z[e]}
    BY ONLY <1>2, e \in DOMAIN E DEF Twins
  <2> QED BY ONLY <2>1, <2>2
<1>6. ASSUME NEW e \in DOMAIN E PROVE A[e] <= 24
  <2>1. A[e] \in 1..24
    BY ONLY <1>2, <1>3, <1>4, e \in DOMAIN E DEF Twins
  <2> QED BY <2>1
<1>7. ASSUME NEW x \in DOMAIN D
      PROVE  UsesOf(D[x].edge) = {x, D[x].partner}
  <2>1. PICK e, y : e = C[x].edge /\ y = C[x]
    OBVIOUS
  <2>2. e \in DOMAIN E /\ x \in {A[e], Z[e]} /\ x \in DOMAIN C /\ D[x].edge = e
    BY ONLY <1>2, <1>3, <2>1, x \in DOMAIN D DEF Twins
  <2>3. D[x] = [y EXCEPT !.partner = TwinOf(A, Z, e, x)]
    BY ONLY <1>1, <1>6, <2>1, <2>2 DEF CoedgesMated
  <2>4. y \in Coedge
    BY ONLY <1>2, <2>1, <2>2
  <2>5. D[x].partner = TwinOf(A, Z, e, x)
    BY ONLY <2>3, <2>4 DEF Coedge
  <2>6. UsesOf(e) = {A[e], Z[e]}
    BY ONLY <1>5, <2>2
  <2> QED BY ONLY <2>2, <2>5, <2>6 DEF TwinOf
<1>8. DOMAIN G = DOMAIN E
  BY ONLY <1>1 DEF EdgesMated
<1>9. ASSUME NEW e \in DOMAIN G
      PROVE  {G[e].coedge_a, G[e].coedge_b} = UsesOf(e)
  <2>1. PICK y : y = EdgesOf[e]
    OBVIOUS
  <2>2. G[e] = [y EXCEPT !.coedge_a = A[e], !.coedge_b = Z[e]]
    BY ONLY <1>1, <1>6, <1>8, <2>1, e \in DOMAIN G DEF EdgesMated
  <2>3. \E p, q, r : y = EdgeOf(p, q, r)
    BY ONLY <1>1, <1>8, <2>1, e \in DOMAIN G DEF EdgesOf
  <2>4. G[e].coedge_a = A[e] /\ G[e].coedge_b = Z[e]
    BY ONLY <2>2, <2>3 DEF EdgeOf
  <2> QED BY ONLY <1>5, <1>8, <2>4, e \in DOMAIN G
<1>10. ASSUME NEW v \in DOMAIN W PROVE From(body, W[v].outgoing) = v
  <2>1. v \in 1..8
    BY ONLY <1>1, v \in DOMAIN W DEF OutgoingSet, CornersOf
  <2>2. O[v] \in 1..24 /\ From(body, O[v]) = v
    BY ONLY <1>2, <2>1
  <2>3. PICK y, o : y = V[v] /\ o = O[v]
    OBVIOUS
  <2>4. W[v] = [y EXCEPT !.outgoing = o]
    <3>1. o <= 24 /\ v \in DOMAIN V
      BY ONLY <1>1, <2>1, <2>2, <2>3 DEF CornersOf
    <3> QED BY ONLY <1>1, <2>3, <3>1 DEF OutgoingSet
  <2>5. \E p : y = VertexOf(p, 0)
    BY ONLY <1>1, <2>1, <2>3 DEF CornersOf
  <2>6. W[v].outgoing = o
    BY ONLY <2>4, <2>5 DEF VertexOf
  <2> QED BY ONLY <2>2, <2>3, <2>6
<1> QED BY ONLY <1>2, <1>7, <1>9, <1>10 DEF BoxMated

\* A sphere or a torus validates clean, and its copy is the same body.
LEMMA RoundSound ==
  ASSUME NEW lo, NEW hi, NEW b, b = Round(lo, hi)
  PROVE  Validate(b) = {} /\ Clone(b) = b
<1>1. PICK V, L, F, S, none, one :
        /\ V = <<VertexOf(lo, 0), VertexOf(hi, 0)>> /\ L = <<LoopOf(1, 0)>>
        /\ F = <<FaceOf(1, 1, 1)>> /\ S = <<<<1>>>> /\ none = <<>> /\ one = <<1>>
  OBVIOUS
<1>2. Has(b, 0, 1, V, none, none, L, F, S, one)
  BY <1>1, RoundHas, Zenon
<1>3. Whole(0, 1, V, none, none, L, F, S, one)
  BY <1>1, RoundWhole, Zenon
<1>4. 0 \in Nat /\ 1 \in Nat
  OBVIOUS
<1> QED BY ONLY <1>2, <1>3, <1>4, WholeSound, WholeCopied

\* A sphere or a torus has no edges, and its face no coedges.
LEMMA RoundBoundary ==
  ASSUME NEW lo, NEW hi, body = Round(lo, hi)
  PROVE  SolidBoundary
<1>1. PICK V, L, F, S, none, one :
        /\ V = <<VertexOf(lo, 0), VertexOf(hi, 0)>> /\ L = <<LoopOf(1, 0)>>
        /\ F = <<FaceOf(1, 1, 1)>> /\ S = <<<<1>>>> /\ none = <<>> /\ one = <<1>>
  OBVIOUS
<1>2. Has(body, 0, 1, V, none, none, L, F, S, one)
  BY <1>1, RoundHas, Zenon
<1>3. body.edges = none /\ body.loops = L /\ body.faces = F
  BY <1>2, Zenon DEF Has
<1>4. DOMAIN F = {1} /\ F[1].outer = 1 /\ L[1].first = 0
  BY <1>1 DEF FaceOf, LoopOf
<1>5. ASSUME NEW f \in DOMAIN body.faces PROVE Ring(body, f) = <<>>
  <2>1. body.loops[body.faces[f].outer].first = 0
    BY <1>3, <1>4
  <2> QED BY <2>1, NoRing
<1>6. DOMAIN body.edges = {} /\ body.edges = <<>>
  BY <1>1, <1>3
<1> QED BY ONLY <1>5, <1>6 DEF SolidBoundary

\* The bounding box of a sphere or a torus is that of its two vertices.
LEMMA RoundBBox ==
  ASSUME NEW lo, NEW hi, NEW b, b = Round(lo, hi)
  PROVE  BBox(b) = {lo, hi}
<1>1. PICK x, y, V, L, F, S, none, one :
        /\ x = VertexOf(lo, 0) /\ y = VertexOf(hi, 0)
        /\ V = <<x, y>> /\ L = <<LoopOf(1, 0)>>
        /\ F = <<FaceOf(1, 1, 1)>> /\ S = <<<<1>>>> /\ none = <<>> /\ one = <<1>>
  OBVIOUS
<1>2. Has(b, 0, 1, V, none, none, L, F, S, one)
  BY <1>1, RoundHas, Zenon
<1>3. b.vertices = V /\ b.bbox_dirty = TRUE
  BY <1>2, Zenon DEF Has
<1>4. DOMAIN V = {1, 2} /\ V[1] = x /\ V[2] = y
  BY <1>1
<1>5. x.pos = lo /\ y.pos = hi
  BY <1>1 DEF VertexOf
<1> QED BY ONLY <1>3, <1>4, <1>5 DEF BBox, Box

\* That of a box holds its corners.
LEMMA BoxBBox ==
  ASSUME NEW c, NEW C, NEW b, BoxDone(b, c, C)
  PROVE  BBox(b) = {Corner(c.at, c.size, i) : i \in 0..7}
<1>1. PICK V, W, O : /\ V = CornersOf(c.at, c.size) /\ O = BoxOutgoing
                     /\ W = OutgoingSet(V, O, 24)
  OBVIOUS
<1>2. b.vertices = W /\ b.bbox_dirty = TRUE
  <2>1. PICK E : Finished(b, 12, 6, W, E, BoxUses, BoxCounts, 6)
    BY <1>1 DEF BoxDone
  <2>2. PICK D, L, F, S : Has(b, 12, 6, W, E, D, L, F, S, <<1>>)
    BY <2>1, Zenon DEF Finished
  <2> QED BY <2>2, Zenon DEF Has
<1>3. DOMAIN V = 1..8 /\ DOMAIN W = 1..8
  BY <1>1 DEF OutgoingSet, CornersOf
<1>4. ASSUME NEW v \in 1..8 PROVE W[v].pos = Corner(c.at, c.size, v - 1)
  <2>1. PICK p : p = Corner(c.at, c.size, v - 1)
    OBVIOUS
  <2>2. V[v] = VertexOf(p, 0)
    BY ONLY <1>1, <2>1, v \in 1..8 DEF CornersOf
  <2>3. W[v] = IF O[v] <= 24 THEN [V[v] EXCEPT !.outgoing = O[v]] ELSE V[v]
    BY ONLY <1>1, <1>3, v \in 1..8 DEF OutgoingSet
  <2> QED BY ONLY <2>1, <2>2, <2>3 DEF VertexOf
<1>5. Box(b) = {W[v].pos : v \in 1..8}
  BY ONLY <1>2, <1>3 DEF Box
<1>6. {W[v].pos : v \in 1..8} = {Corner(c.at, c.size, v - 1) : v \in 1..8}
  BY ONLY <1>4
<1>7. {Corner(c.at, c.size, v - 1) : v \in 1..8} = {Corner(c.at, c.size, i) : i \in 0..7}
  <2>1. \A v \in 1..8 : v - 1 \in 0..7
    OBVIOUS
  <2>2. \A i \in 0..7 : i + 1 \in 1..8 /\ (i + 1) - 1 = i
    OBVIOUS
  <2> QED BY ONLY <2>1, <2>2
<1> QED BY ONLY <1>2, <1>5, <1>6, <1>7 DEF BBox

\* The least and the greatest of a set of integers
LEMMA Extremes ==
  ASSUME NEW S, NEW lo \in S, NEW hi \in S, S \subseteq Int,
         \A x \in S : lo <= x /\ x <= hi
  PROVE  Min(S) = lo /\ Max(S) = hi
<1>1. Min(S) = lo
  <2>1. Min(S) \in S /\ \A y \in S : Min(S) <= y
    BY DEF Min
  <2>2. PICK m : m = Min(S)
    OBVIOUS
  <2>3. m \in Int /\ lo \in Int /\ m <= lo /\ lo <= m
    BY <2>1, <2>2
  <2>4. m = lo
    BY ONLY <2>3
  <2> QED BY <2>2, <2>4
<1>2. Max(S) = hi
  <2>1. Max(S) \in S /\ \A y \in S : Max(S) >= y
    BY DEF Max
  <2>2. PICK m : m = Max(S)
    OBVIOUS
  <2>3. m \in Int /\ hi \in Int /\ m >= hi /\ hi >= m
    BY <2>1, <2>2
  <2>4. m = hi
    BY ONLY <2>3
  <2> QED BY <2>2, <2>4
<1> QED BY <1>1, <1>2

\* Corner 0 is the least and corner 7 the greatest along each axis.
LEMMA CornersAround ==
  ASSUME NEW c \in Triples, NEW h \in Triples, NEW a \in Axes, h[a] > 0
  PROVE  /\ c[a] \in Int /\ h[a] \in Int
         /\ Corner(c, h, 0)[a] = c[a] - h[a] /\ Corner(c, h, 7)[a] = c[a] + h[a]
         /\ \A i \in 0..7 : Corner(c, h, i)[a] \in {c[a] - h[a], c[a] + h[a]}
<1>1. c[a] \in Int /\ h[a] \in Int
  BY DEF Triples, Axes
<1>2. 0 % 2 = 0 /\ 0 \div 2 = 0 /\ 0 \div 4 = 0
  OBVIOUS
<1>3. 7 % 2 = 1 /\ (7 \div 2) % 2 = 1 /\ 7 \div 4 = 1
  OBVIOUS
<1>4. Corner(c, h, 0)[a] = c[a] - h[a]
  <2>1. Corner(c, h, 0)[a] = c[a] + (0 - h[a])
    BY <1>2 DEF Corner, Axes
  <2> QED BY ONLY <1>1, <2>1
<1>5. Corner(c, h, 7)[a] = c[a] + h[a]
  BY <1>3 DEF Corner, Axes
<1>6. ASSUME NEW i \in 0..7
      PROVE  Corner(c, h, i)[a] \in {c[a] - h[a], c[a] + h[a]}
  <2>1. Corner(c, h, i)[a] \in {c[a] + (0 - h[a]), c[a] + h[a]}
    BY DEF Corner, Axes
  <2> QED BY ONLY <1>1, <2>1
<1> QED BY <1>1, <1>4, <1>5, <1>6

\* What the bounding box spans
LEMMA Spans ==
  ASSUME NEW S, BBox(body) = S, NEW a, NEW lo \in S, NEW hi \in S,
         \A p \in S : p[a] \in Int /\ lo[a] <= p[a] /\ p[a] <= hi[a]
  PROVE  Min(Coordinates(a)) = lo[a] /\ Max(Coordinates(a)) = hi[a]
<1>1. PICK T : T = Coordinates(a)
  OBVIOUS
<1>2. T = {p[a] : p \in S}
  BY <1>1 DEF Coordinates
<1>3. lo[a] \in T /\ hi[a] \in T
  BY ONLY <1>2, lo \in S, hi \in S
<1>4. T \subseteq Int /\ \A x \in T : lo[a] <= x /\ x <= hi[a]
  BY <1>2
<1> QED BY ONLY <1>1, <1>3, <1>4, Extremes

\* The constructor a call goes to
LEMMA BuiltBy ==
  ASSUME NEW c
  PROVE  /\ c.shape = "box" => Built(c) = MakeBox(c)
         /\ c.shape = "sphere" => Built(c) = MakeSphere(c)
         /\ c.shape = "cylinder" => Built(c) = MakeCylinder(c)
         /\ c.shape = "cone" => Built(c) = MakeCone(c)
         /\ c.shape = "torus" => Built(c) = MakeTorus(c)
  BY DEF Built

\* A constructor that is done returns its body.
LEMMA Returned ==
  ASSUME NEW x, NEW b, NEW e, x = Fail(e, "DegenerateInput") \/ x = Done(b),
         x.status = "Ok"
  PROVE  x.body = b
  BY DEF Done, Fail

\* What a sphere that is made is made of
LEMMA SphereBuilt ==
  ASSUME NEW c, c.r \in Int, c.at \in Triples, MakeSphere(c).status = "Ok"
  PROVE  /\ c.r > 0
         /\ \E lo, hi : /\ MakeSphere(c).body = Round(lo, hi)
                        /\ \A a \in Axes : lo[a] = c.at[a] - c.r /\ hi[a] = c.at[a] + c.r
<1>1. PICK lo, hi, e : /\ lo = [a \in Axes |-> c.at[a] + (0 - c.r)]
                       /\ hi = [a \in Axes |-> c.at[a] + c.r] /\ e = EmptyBody
  OBVIOUS
<1>2. MakeSphere(c) = IF c.r <= 0 THEN Fail(e, "DegenerateInput") ELSE Done(Round(lo, hi))
  BY ONLY <1>1, Zenon DEF MakeSphere
<1>3. ~(c.r <= 0)
  BY ONLY <1>2, MakeSphere(c).status = "Ok" DEF Fail
<1>4. MakeSphere(c).body = Round(lo, hi)
  BY ONLY <1>2, <1>3 DEF Done
<1>5. \A a \in Axes : lo[a] = c.at[a] - c.r /\ hi[a] = c.at[a] + c.r
  <2>1. \A a \in Axes : c.at[a] \in Int
    BY DEF Triples, Axes
  <2>2. \A a \in Axes : c.at[a] + (0 - c.r) = c.at[a] - c.r
    BY ONLY <2>1, c.r \in Int
  <2> QED BY ONLY <1>1, <2>2
<1> QED BY <1>3, <1>4, <1>5

\* What a torus that is made is made of
LEMMA TorusBuilt ==
  ASSUME NEW c, c.major \in Int, c.minor \in Int, c.at \in Triples,
         MakeTorus(c).status = "Ok"
  PROVE  /\ c.minor > 0 /\ c.major > c.minor
         /\ \E lo, hi :
              /\ MakeTorus(c).body = Round(lo, hi)
              /\ \A a \in Axes :
                   LET r == IF a = "z" THEN c.minor ELSE c.major + c.minor
                   IN  lo[a] = c.at[a] - r /\ hi[a] = c.at[a] + r
<1> DEFINE outer == c.major + c.minor
           moved(s) == [x |-> c.at.x + s * outer, y |-> c.at.y + s * outer,
                        z |-> c.at.z + s * c.minor]
           none == \/ c.minor <= 0 \/ c.major <= c.minor \/ c.axis = "none"
<1>1. PICK lo, hi, e : lo = moved(0 - 1) /\ hi = moved(1) /\ e = EmptyBody
  OBVIOUS
<1>2. MakeTorus(c) = IF none THEN Fail(e, "DegenerateInput") ELSE Done(Round(lo, hi))
  BY ONLY <1>1, Zenon DEF MakeTorus
<1>3. ~none
  <2> HIDE DEF none
  <2> QED BY ONLY <1>2, MakeTorus(c).status = "Ok" DEF Fail
<1>4. MakeTorus(c).body = Round(lo, hi)
  <2> HIDE DEF none
  <2> QED BY ONLY <1>2, <1>3 DEF Done
<1>5. ASSUME NEW a \in Axes, NEW r, r = IF a = "z" THEN c.minor ELSE outer
      PROVE  lo[a] = c.at[a] - r /\ hi[a] = c.at[a] + r
  <2>1. PICK x, y, z, o, m : /\ x = c.at.x /\ y = c.at.y /\ z = c.at.z
                             /\ o = outer /\ m = c.minor
    OBVIOUS
  <2>2. x \in Int /\ y \in Int /\ z \in Int /\ o \in Int /\ m \in Int
    BY <2>1 DEF Triples
  <2>3. /\ lo = [x |-> x + (0 - 1) * o, y |-> y + (0 - 1) * o, z |-> z + (0 - 1) * m]
        /\ hi = [x |-> x + 1 * o, y |-> y + 1 * o, z |-> z + 1 * m]
    BY <1>1, <2>1
  <2>4. /\ lo.x = x - o /\ lo.y = y - o /\ lo.z = z - m
        /\ hi.x = x + o /\ hi.y = y + o /\ hi.z = z + m
    BY ONLY <2>2, <2>3
  <2>5. a = "x" \/ a = "y" \/ a = "z"
    BY DEF Axes
  <2>6. \/ a = "x" /\ c.at[a] = x /\ r = o
        \/ a = "y" /\ c.at[a] = y /\ r = o
        \/ a = "z" /\ c.at[a] = z /\ r = m
    BY ONLY <2>1, <2>5, r = IF a = "z" THEN c.minor ELSE outer
  <2> QED BY ONLY <2>4, <2>6
<1>6. c.minor > 0 /\ c.major > c.minor
  BY <1>3
<1> QED BY <1>4, <1>5, <1>6

\* What a cylinder that is made is made of
LEMMA CylinderBuilt ==
  ASSUME NEW c, MakeCylinder(c).status = "Ok"
  PROVE  \E p, q : \E bottom, top \in BOOLEAN :
           MakeCylinder(c).body = Revolve(p, q, bottom, top)
<1>1. PICK p, q, e : /\ p = Shift(c.at, Across(c.axis), c.r)
                     /\ q = Shift(p, c.axis, c.height) /\ e = EmptyBody
  OBVIOUS
<1>2. \/ MakeCylinder(c) = Fail(e, "DegenerateInput")
      \/ MakeCylinder(c) = Done(Revolve(p, q, TRUE, TRUE))
  BY ONLY <1>1 DEF MakeCylinder
<1>3. MakeCylinder(c).body = Revolve(p, q, TRUE, TRUE)
  <2>1. PICK x, b : x = MakeCylinder(c) /\ b = Revolve(p, q, TRUE, TRUE)
    OBVIOUS
  <2> QED BY ONLY <1>2, <2>1, MakeCylinder(c).status = "Ok", Returned
<1> QED BY <1>3

\* What a cone that is made is made of
LEMMA ConeBuilt ==
  ASSUME NEW c, MakeCone(c).status = "Ok"
  PROVE  \E p, q : \E bottom, top \in BOOLEAN :
           MakeCone(c).body = Revolve(p, q, bottom, top)
<1> DEFINE rounded(p) == [a \in Axes |-> ToDouble(p[a])]
           base == rounded(c.at)
           peak == rounded(Shift(base, c.axis, c.height))
<1>1. PICK p, q, e : /\ p = rounded(Shift(base, Across(c.axis), c.r_base))
                     /\ q = rounded(Shift(peak, Across(c.axis), c.r_top))
                     /\ e = EmptyBody
  OBVIOUS
<1>2. PICK bottom \in BOOLEAN, top \in BOOLEAN :
        bottom = (c.r_base > 0) /\ top = (c.r_top > 0)
  <2>1. (c.r_base > 0) \in BOOLEAN /\ (c.r_top > 0) \in BOOLEAN
    OBVIOUS
  <2> QED BY ONLY <2>1, Zenon
<1>3. \/ MakeCone(c) = Fail(e, "DegenerateInput")
      \/ MakeCone(c) = Done(Revolve(p, q, c.r_base > 0, c.r_top > 0))
  BY ONLY <1>1, Zenon DEF MakeCone
<1>4. Revolve(p, q, c.r_base > 0, c.r_top > 0) = Revolve(p, q, bottom, top)
  BY ONLY <1>2, Zenon
<1>5. MakeCone(c).body = Revolve(p, q, bottom, top)
  <2>1. PICK x, b : x = MakeCone(c) /\ b = Revolve(p, q, bottom, top)
    OBVIOUS
  <2>2. x = Fail(e, "DegenerateInput") \/ x = Done(b)
    BY ONLY <1>3, <1>4, <2>1, Zenon
  <2> QED BY ONLY <2>1, <2>2, MakeCone(c).status = "Ok", Returned
<1> QED BY <1>5

\* The kinds of body the calls make: a box, one face, a side with its caps
LEMMA Kinds ==
  ASSUME NEW c \in Requests, Built(c).status = "Ok", NEW b, b = Built(c).body
  PROVE  \/ c.shape = "box" /\ \E C : BoxDone(b, c, C)
         \/ /\ c.shape # "box"
            /\ \E lo, hi : b = Round(lo, hi)
         \/ /\ c.shape # "box"
            /\ \E p, q : \E bottom, top \in BOOLEAN : b = Revolve(p, q, bottom, top)
<1>1. CASE c.shape = "box"
  <2>1. Built(c) = MakeBox(c)
    BY <1>1, BuiltBy
  <2> QED BY <1>1, <2>1, BoxBuilt
<1>2. CASE c.shape = "sphere"
  <2>1. Built(c) = MakeSphere(c)
    BY <1>2, BuiltBy
  <2>2. c.r \in Int /\ c.at \in Triples
    BY <1>2 DEF Requests
  <2> QED BY <1>2, <2>1, <2>2, SphereBuilt
<1>3. CASE c.shape = "cylinder"
  <2>1. Built(c) = MakeCylinder(c)
    BY <1>3, BuiltBy
  <2> QED BY <1>3, <2>1, CylinderBuilt
<1>4. CASE c.shape = "cone"
  <2>1. Built(c) = MakeCone(c)
    BY <1>4, BuiltBy
  <2> QED BY <1>4, <2>1, ConeBuilt
<1>5. CASE c.shape = "torus"
  <2>1. Built(c) = MakeTorus(c)
    BY <1>5, BuiltBy
  <2>2. c.major \in Int /\ c.minor \in Int /\ c.at \in Triples
    BY <1>5 DEF Requests
  <2>3. \E lo, hi : MakeTorus(c).body = Round(lo, hi)
    BY ONLY <2>1, <2>2, Built(c).status = "Ok", TorusBuilt
  <2> QED BY <1>5, <2>1, <2>3
<1>6. c.shape \in {"box", "sphere", "cylinder", "cone", "torus"}
  BY DEF Requests
<1> QED BY <1>1, <1>2, <1>3, <1>4, <1>5, <1>6

\* The bounding box of a box is tight.
LEMMA BoxTight ==
  ASSUME NEW c \in Requests, c.shape = "box", c = call, Built(c).status = "Ok",
         body = Built(c).body, NEW a \in Axes
  PROVE  Min(Coordinates(a)) = Extent(a)[1] /\ Max(Coordinates(a)) = Extent(a)[2]
<1>1. PICK at, h : at = c.at /\ h = c.size
  OBVIOUS
<1>2. at \in Triples /\ h \in Triples
  BY <1>1 DEF Requests
<1>3. Built(c) = MakeBox(c)
  BY BuiltBy
<1>4. h[a] > 0
  <2>1. ~(\E x \in Axes : c.size[x] <= 0)
    <3>1. (\E x \in Axes : c.size[x] <= 0) => MakeBox(c) = Fail(EmptyBody, "DegenerateInput")
      BY ONLY Zenon DEF MakeBox
    <3>2. Fail(EmptyBody, "DegenerateInput").status # "Ok"
      BY DEF Fail
    <3> QED BY ONLY <1>3, <3>1, <3>2, Built(c).status = "Ok"
  <2>2. h[a] \in Int
    BY <1>2 DEF Triples, Axes
  <2> QED BY ONLY <1>1, <2>1, <2>2, a \in Axes
<1>5. PICK C : BoxDone(body, c, C)
  BY <1>3, BoxBuilt
<1>6. BBox(body) = {Corner(at, h, i) : i \in 0..7}
  BY ONLY <1>1, <1>5, BoxBBox
<1>7. PICK S, lo, hi : /\ S = {Corner(at, h, i) : i \in 0..7}
                       /\ lo = Corner(at, h, 0) /\ hi = Corner(at, h, 7)
  OBVIOUS
<1>8. /\ at[a] \in Int /\ h[a] \in Int
      /\ lo[a] = at[a] - h[a] /\ hi[a] = at[a] + h[a]
      /\ \A i \in 0..7 : Corner(at, h, i)[a] \in {at[a] - h[a], at[a] + h[a]}
  BY ONLY <1>2, <1>4, <1>7, a \in Axes, CornersAround
<1>9. lo \in S /\ hi \in S
  <2>1. 0 \in 0..7 /\ 7 \in 0..7
    OBVIOUS
  <2> QED BY ONLY <1>7, <2>1
<1>10. \A p \in S : p[a] \in Int /\ lo[a] <= p[a] /\ p[a] <= hi[a]
  <2>1. \A p \in S : p[a] \in {at[a] - h[a], at[a] + h[a]}
    BY ONLY <1>7, <1>8
  <2> QED BY ONLY <1>4, <1>8, <2>1
<1>11. Min(Coordinates(a)) = lo[a] /\ Max(Coordinates(a)) = hi[a]
  <2>1. BBox(body) = S
    BY <1>6, <1>7
  <2> QED BY ONLY <1>9, <1>10, <2>1, Spans
<1>12. Extent(a) = <<at[a] + (0 - h[a]), at[a] + h[a]>>
  BY ONLY <1>1, c = call, c.shape = "box" DEF Extent
<1> QED BY ONLY <1>8, <1>11, <1>12

\* So is that of a sphere or a torus.
LEMMA RoundTight ==
  ASSUME NEW lo, NEW hi, body = Round(lo, hi), NEW a, NEW u \in Int, NEW w \in Int, u <= w,
         lo[a] = u, hi[a] = w
  PROVE  Min(Coordinates(a)) = u /\ Max(Coordinates(a)) = w
<1>1. PICK S : S = {lo, hi}
  OBVIOUS
<1>2. BBox(body) = S
  BY <1>1, RoundBBox
<1>3. lo \in S /\ hi \in S /\ \A p \in S : p[a] \in Int /\ lo[a] <= p[a] /\ p[a] <= hi[a]
  BY <1>1
<1>4. Min(Coordinates(a)) = lo[a] /\ Max(Coordinates(a)) = hi[a]
  BY ONLY <1>2, <1>3, Spans
<1> QED BY <1>4

\* That of a sphere
LEMMA SphereTight ==
  ASSUME NEW c \in Requests, c.shape = "sphere", c = call, Built(c).status = "Ok",
         body = Built(c).body, NEW a \in Axes
  PROVE  Min(Coordinates(a)) = Extent(a)[1] /\ Max(Coordinates(a)) = Extent(a)[2]
<1>1. c.r \in Int /\ c.at \in Triples
  BY DEF Requests
<1>2. Built(c) = MakeSphere(c)
  BY BuiltBy
<1>3. PICK lo, hi : /\ c.r > 0 /\ body = Round(lo, hi)
                    /\ \A d \in Axes : lo[d] = c.at[d] - c.r /\ hi[d] = c.at[d] + c.r
  BY ONLY <1>1, <1>2, SphereBuilt, Built(c).status = "Ok", body = Built(c).body
<1>4. PICK x, r : x = c.at[a] /\ r = c.r
  OBVIOUS
<1>5. x \in Int /\ r \in Int /\ r >= 0
  BY <1>1, <1>3, <1>4 DEF Triples, Axes
<1>6. Min(Coordinates(a)) = x - r /\ Max(Coordinates(a)) = x + r
  <2>1. lo[a] = x - r /\ hi[a] = x + r
    BY <1>3, <1>4
  <2>2. body = Round(lo, hi)
    BY <1>3
  <2>3. PICK u, w : u = x - r /\ w = x + r
    OBVIOUS
  <2>4. u \in Int /\ w \in Int /\ u <= w
    BY ONLY <1>5, <2>3
  <2>5. lo[a] = u /\ hi[a] = w
    BY ONLY <2>1, <2>3
  <2> QED BY ONLY <2>2, <2>3, <2>4, <2>5, RoundTight
<1>7. Extent(a) = <<x + (0 - r), x + r>>
  BY ONLY <1>4, c = call, c.shape = "sphere" DEF Extent
<1> QED BY ONLY <1>5, <1>6, <1>7

\* That of a torus about z
LEMMA TorusTight ==
  ASSUME NEW c \in Requests, c.shape = "torus", c.axis = "z", c = call,
         Built(c).status = "Ok", body = Built(c).body, NEW a \in Axes
  PROVE  Min(Coordinates(a)) = Extent(a)[1] /\ Max(Coordinates(a)) = Extent(a)[2]
<1>1. c.major \in Int /\ c.minor \in Int /\ c.at \in Triples
  BY DEF Requests
<1>2. Built(c) = MakeTorus(c)
  BY BuiltBy
<1>3. PICK lo, hi :
        /\ c.minor > 0 /\ c.major > c.minor /\ body = Round(lo, hi)
        /\ \A d \in Axes : LET r == IF d = "z" THEN c.minor ELSE c.major + c.minor
                           IN  lo[d] = c.at[d] - r /\ hi[d] = c.at[d] + r
  <2>1. MakeTorus(c).status = "Ok" /\ body = MakeTorus(c).body
    BY <1>2
  <2> QED BY ONLY <1>1, <2>1, TorusBuilt
<1>4. PICK x, r : x = c.at[a] /\ r = IF a = "z" THEN c.minor ELSE c.major + c.minor
  OBVIOUS
<1>5. x \in Int /\ r \in Int /\ r >= 0
  BY <1>1, <1>3, <1>4 DEF Triples, Axes
<1>6. Min(Coordinates(a)) = x - r /\ Max(Coordinates(a)) = x + r
  <2>1. lo[a] = x - r /\ hi[a] = x + r
    BY <1>3, <1>4
  <2>2. body = Round(lo, hi)
    BY <1>3
  <2>3. PICK u, w : u = x - r /\ w = x + r
    OBVIOUS
  <2>4. u \in Int /\ w \in Int /\ u <= w
    BY ONLY <1>5, <2>3
  <2>5. lo[a] = u /\ hi[a] = w
    BY ONLY <2>1, <2>3
  <2> QED BY ONLY <2>2, <2>3, <2>4, <2>5, RoundTight
<1>7. Extent(a) = <<x + (0 - r), x + r>>
  BY ONLY <1>4, c = call, c.shape = "torus", c.axis = "z" DEF Extent
<1> QED BY ONLY <1>5, <1>6, <1>7
------------------------------------------------------------------------------
(* The client's calls *)

\* The inductive invariant: while a call is answered with Ok, the body is the
\* one that call builds.  The call is remembered for this alone: a body that is
\* not empty refuses every other call, and those leave it as it is.
Answered ==
  status = "Ok" =>
    /\ call \in Requests /\ Built(call).status = "Ok"
    /\ body = Built(call).body

\* It holds at first and after every call.
LEMMA AnsweredKept ==
  /\ Init => Answered
  /\ Answered /\ [Next]_vars => Answered'
<1>1. Init => Answered
  BY DEF Init, Answered
<1>2. ASSUME Answered, [Next]_vars PROVE Answered'
  <2>1. ASSUME NEW c \in Calls, Make(c) PROVE Answered'
    <3>1. c \in Requests
      BY CallsAssumption
    <3>2. CASE status' = "InvalidState"
      BY <3>2 DEF Answered
    <3>3. CASE /\ body' = Built(c).body
               /\ status' = Built(c).status
               /\ call' = IF Built(c).status = "Ok" THEN c ELSE call
      <4>1. ASSUME status' = "Ok" PROVE call' = c /\ Built(c).status = "Ok"
        BY <3>3, <4>1
      <4> QED BY ONLY <3>1, <3>3, <4>1 DEF Answered
    <3> QED BY <2>1, <3>2, <3>3 DEF Make
  <2>2. CASE NewBody
    BY <2>2 DEF NewBody, Answered
  <2>3. CASE UNCHANGED vars
    BY <2>3, Answered DEF Answered, vars
  <2> QED BY <1>2, <2>1, <2>2, <2>3 DEF Next
<1> QED BY <1>1, <1>2

\* primitives.cpp: whatever the calls and their parameters, an answer of Ok
\* leaves the body of the last call that was answered so.
THEOREM AlwaysAnswered == Spec => []Answered
<1>1. Init => Answered
  BY AnsweredKept
<1>2. Answered /\ [Next]_vars => Answered'
  BY AnsweredKept
<1> QED BY <1>1, <1>2, PTL DEF Spec

\* For every position and size, the faces of a primitive close up to the
\* boundary of a solid.
THEOREM PrimitivesClose == Spec => []SolidBoundary
<1>1. Answered => SolidBoundary
  <2>1. CASE status # "Ok"
    BY <2>1 DEF SolidBoundary
  <2>2. ASSUME Answered, status = "Ok" PROVE SolidBoundary
    <3>1. /\ call \in Requests /\ Built(call).status = "Ok"
          /\ body = Built(call).body
      BY <2>2 DEF Answered
    <3> QED BY <3>1, Kinds, BoxBoundary, RoundBoundary, RevolveBoundary
  <2> QED BY <2>1, <2>2
<1> QED BY <1>1, AlwaysAnswered, PTL

\* For every position and size of a box, each coedge has the other coedge of
\* its edge as partner, the edge knows both, and every vertex a coedge that
\* starts there.
THEOREM BoxesMated == Spec => []BoxMated
<1>1. Answered => BoxMated
  <2>1. CASE ~(status = "Ok" /\ call.shape = "box")
    BY <2>1 DEF BoxMated
  <2>2. ASSUME Answered, status = "Ok", call.shape = "box" PROVE BoxMated
    <3>1. /\ call \in Requests /\ Built(call).status = "Ok"
          /\ body = Built(call).body
      BY <2>2 DEF Answered
    <3> QED BY <2>2, <3>1, Kinds, BoxLinked
  <2> QED BY <2>1, <2>2
<1> QED BY <1>1, AlwaysAnswered, PTL

\* For every position and size, validate() finds nothing wrong with a primitive,
\* and clone() copies it slot by slot.
THEOREM PrimitivesSound == Spec => []SoundAndCopied
<1>1. Answered => SoundAndCopied
  <2>1. CASE status # "Ok"
    BY <2>1 DEF SoundAndCopied
  <2>2. ASSUME Answered, status = "Ok" PROVE SoundAndCopied
    <3>1. /\ call \in Requests /\ Built(call).status = "Ok"
          /\ body = Built(call).body
      BY <2>2 DEF Answered
    <3>2. ASSUME NEW p, NEW q, NEW bottom \in BOOLEAN, NEW top \in BOOLEAN,
                 body = Revolve(p, q, bottom, top)
          PROVE  Validate(body) = {} /\ Clone(body) = body
      <4>1. PICK n : n = Caps(bottom, top) + 1
        OBVIOUS
      <4>2. n \in Nat
        BY <4>1 DEF Caps
      <4>3. PICK V, E, U, N : Finished(body, n, n, V, E, U, N, n)
        BY <3>2, <4>1, RevolveFinished
      <4> QED BY ONLY <4>2, <4>3, FinishedSound
    <3>3. Validate(body) = {} /\ Clone(body) = body
      BY <3>1, <3>2, Kinds, BoxSound, RoundSound
    <3> QED BY <3>3 DEF SoundAndCopied
  <2> QED BY <2>1, <2>2
<1> QED BY <1>1, AlwaysAnswered, PTL

\* For every position and size, the bounding box of a box, of a sphere and of a
\* torus about z is as long along each axis as the solid.
THEOREM BoundsTight == Spec => []TightBBox
<1>1. Answered => TightBBox
  <2>1. ASSUME Answered, status = "Ok",
               \/ call.shape \in {"box", "sphere"}
               \/ call.shape = "torus" /\ call.axis = "z",
               NEW a \in Axes
        PROVE  Min(Coordinates(a)) = Extent(a)[1] /\ Max(Coordinates(a)) = Extent(a)[2]
    <3>1. /\ call \in Requests /\ Built(call).status = "Ok"
          /\ body = Built(call).body
      BY <2>1 DEF Answered
    <3> QED BY <2>1, <3>1, BoxTight, SphereTight, TorusTight
  <2> QED BY <2>1 DEF TightBBox
<1> QED BY <1>1, AlwaysAnswered, PTL

------------------------------------------------------------------------------
(* Sums of lengths *)

\* sat_add's and sat_sub's clamp returns the nearest length of the range.
LEMMA ClampNearest ==
  ASSUME Int64Max \in Nat, NEW x \in Int
  PROVE  NearestLegal(clamp_length(x), x)
<1>1. LENGTH_MAX \in Nat /\ LENGTH_MIN = 0 - LENGTH_MAX
  BY DEF LENGTH_MAX, LENGTH_MIN
<1>2. QED BY <1>1 DEF NearestLegal, Legal, clamp_length, Distance

\* The bit of headroom: no sum of two lengths of the range leaves int64_t.
LEMMA Headroom ==
  ASSUME Int64Max \in Nat, NEW a \in Legal, NEW b \in Legal
  PROVE  /\ a \in Int /\ b \in Int
         /\ a + b \in int64_t /\ a - b \in int64_t
<1>1. LENGTH_MAX \in Nat /\ 2 * LENGTH_MAX <= Int64Max
  BY DEF LENGTH_MAX
<1>2. QED BY <1>1 DEF Legal, LENGTH_MIN, int64_t

\* units.hpp:99-103: the helpers never run into undefined behaviour.  For an
\* int64_t of any width and lengths in the working range, a sum and a difference
\* have one value each, the length of the range nearest to the exact one; so
\* the results may be added up in turn.
THEOREM SumsSaturate ==
  ASSUME Int64Max \in Nat, NEW a \in Legal, NEW b \in Legal
  PROVE  /\ \E r : sat_add(a, b) = {r} /\ NearestLegal(r, a + b)
         /\ \E r : sat_sub(a, b) = {r} /\ NearestLegal(r, a - b)
<1>1. a + b \in Int /\ a - b \in Int /\ a + b \in int64_t /\ a - b \in int64_t
  BY Headroom
<1>2. sat_add(a, b) = {clamp_length(a + b)} /\ sat_sub(a, b) = {clamp_length(a - b)}
  BY <1>1 DEF sat_add, sat_sub, Computed
<1>3. QED BY <1>1, <1>2, ClampNearest

\* The bit is needed: with lengths one past the range, which the conversions
\* from metres may return (units.hpp:66-71 clamp nothing), the sum of two
\* equal positive lengths may come out as any length of the range, the smallest
\* included.
THEOREM PastTheRange ==
  ASSUME Int64Max \in Nat, Int64Max % 2 = 1, NEW l \in Legal
  PROVE  /\ LENGTH_MAX + 1 \in int64_t
         /\ l \in sat_add(LENGTH_MAX + 1, LENGTH_MAX + 1)
<1>1. /\ LENGTH_MAX \in Nat /\ 2 * LENGTH_MAX + 1 = Int64Max
  BY DEF LENGTH_MAX
<1>2. /\ LENGTH_MAX + 1 \in int64_t
      /\ (LENGTH_MAX + 1) + (LENGTH_MAX + 1) \notin int64_t
  BY <1>1 DEF int64_t
<1>3. l \in int64_t /\ clamp_length(l) = l
  BY <1>1 DEF Legal, LENGTH_MIN, int64_t, clamp_length
<1>4. QED BY <1>2, <1>3 DEF sat_add, Computed

==============================================================================
