----------------------------- MODULE Tessellator ------------------------------
(***************************************************************************)
(* src/tess/tessellator.cpp on the bodies of module Primitives: the mesh   *)
(* tessellate() makes of a body and flatten() makes of the mesh.           *)
(*                                                                         *)
(* A point is named, not computed: what the code samples at an angle, a    *)
(* radius and a height is [turn, r, h], with the angle as a fraction of a  *)
(* turn in lowest terms and lengths in parts of a step of the wall; points *)
(* that differ only by rounding have one name.  Normals are left out.      *)
(***************************************************************************)
EXTENDS Primitives

CONSTANT Options  \* [min, max, fine]: min_segments, max_segments, and for each
                  \* radius how many chords of chord_tolerance_m make a circle

Segments(n, o) == IF n < o.min THEN o.min ELSE IF n > o.max THEN o.max ELSE n

\* circle_segments_for_tol(), for a whole turn
CircleSegments(r, o) == Segments(o.fine[r], o)

\* ... and for the half turn of a sphere's meridian
MeridianSegments(r, o) == Segments((o.fine[r] + 1) \div 2, o)

\* The planes of a box, by face: the axis it is across and on which side, and
\* the axes it is sampled along (FACES)
BoxPlanes == << <<"x", 0 - 1, "y", "z">>, <<"x", 1, "z", "y">>,
                <<"y", 0 - 1, "z", "x">>, <<"y", 1, "x", "z">>,
                <<"z", 0 - 1, "x", "y">>, <<"z", 1, "y", "x">> >>

\* The kind of surface s of a body; a box's are its planes, and a solid of
\* revolution has its wall first.
SurfaceKind(c, s) ==
  IF c.shape = "box" \/ s > 1 THEN "Plane" ELSE c.shape

\* Plane s of a solid of revolution is its bottom, which looks against the axis.
IsBottom(c, s) == s = 2 /\ (c.shape = "cylinder" \/ c.r_base > 0)

Radius(c, top) ==
  IF c.shape = "cylinder" THEN c.r ELSE IF top THEN c.r_top ELSE c.r_base

\* Curve k of a body is a circle: the rims come before the seam.
IsCircle(b, c, k) == c.shape \in {"cylinder", "cone"} /\ k < b.curves

\* estimate_segments(), for u and v
GridSize(c, s, o) ==
  LET kind == SurfaceKind(c, s)
  IN  CASE kind = "Plane" -> <<Segments(1, o), Segments(1, o)>>
        [] kind = "sphere" -> <<CircleSegments(c.r, o), MeridianSegments(c.r, o)>>
        [] kind = "cylinder" -> <<CircleSegments(c.r, o), Segments(1, o)>>
        [] kind = "cone" -> <<Segments(24, o), Segments(2, o)>>
        [] kind = "torus" -> <<Segments(32, o), Segments(32, o)>>

------------------------------------------------------------------------------
(* Disks *)

\* face_disk_boundary(): the outer loop is one coedge on a circle.
IsDisk(b, c, f) ==
  LET face == b.faces[f]
      first == b.loops[face.outer].first
  IN  /\ SurfaceKind(c, face.surface) = "Plane"
      /\ face.inner = <<>>
      /\ first # 0
      /\ b.coedges[first].next = first
      /\ IsCircle(b, c, b.edges[b.coedges[first].edge].curve)

\* i of n parts of a turn, in lowest terms
Turn(i, n) ==
  LET gcd == CHOOSE d \in 1..n : /\ (i % n) % d = 0 /\ n % d = 0
                                /\ \A e \in d + 1 .. n : (i % n) % e # 0 \/ n % e # 0
  IN  <<(i % n) \div gcd, n \div gcd>>

\* The points on the axis have no angle.
OnRing(i, n, r, h) == [turn |-> IF r = 0 THEN <<0, 1>> ELSE Turn(i, n), r |-> r, h |-> h]

\* Mutant of Fan: the fan of every disk turns with its circle.
FanUnflipped(k, top) == <<1, k + 1, k + 2>>

\* Triangle k of a fan turns about the normal: with the circle on a top only.
Fan(k, top) == IF top THEN <<1, k + 1, k + 2>> ELSE <<1, k + 2, k + 1>>

\* tessellate_disk(): a fan from the centre
Disk(c, s, o) ==
  LET top == ~IsBottom(c, s)
      r == Radius(c, top)
      n == CircleSegments(r, o)
      nv == GridSize(c, 1, o)[2]
      h == IF top THEN nv * c.height ELSE 0
  IN  [positions |-> [k \in 1 .. n + 2 |->
                        IF k = 1 THEN OnRing(0, n, 0, h) ELSE OnRing(k - 2, n, nv * r, h)],
       triangles |-> [k \in 1..n |-> Fan(k, top)]]

------------------------------------------------------------------------------
(* Grids *)

\* PlaneSurface::point(): in parts of a step too
PlanePoint(c, s, i, j, nu, nv) ==
  LET plane == BoxPlanes[s]
  IN  [a \in Axes |->
         nu * c.at[a] +
         CASE a = plane[1] -> plane[2] * nu * c.size[a]
           [] a = plane[3] -> (2 * i - nu) * c.size[a]
           [] a = plane[4] -> (2 * j - nv) * c.size[a]]

\* SphereSurface::point(), from pole to pole
SpherePoint(i, j, nu, nv) == OnRing(i, nu, IF j \in {0, nv} THEN 0 ELSE 1, j)

\* TorusSurface::point(): round in u and in v
TorusPoint(i, j, nu, nv) == OnRing(i, nu, 1, j % nv)

\* ConeSurface::point(), and of a cylinder, which is a cone with one radius
WallPoint(c, i, j, nu, nv) ==
  LET base == Radius(c, FALSE)
  IN  OnRing(i, nu, base * nv + (Radius(c, TRUE) - base) * j, c.height * j)

\* The point a surface has at step i of nu in u and step j of nv in v
Sample(c, s, i, j, nu, nv) ==
  CASE SurfaceKind(c, s) = "Plane" -> PlanePoint(c, s, i, j, nu, nv)
    [] SurfaceKind(c, s) = "sphere" -> SpherePoint(i, j, nu, nv)
    [] SurfaceKind(c, s) = "torus" -> TorusPoint(i, j, nu, nv)
    [] OTHER -> WallPoint(c, i, j, nu, nv)

\* Two triangles to a cell, turned round on a box: its planes look inwards.
Grid(c, s, o) ==
  LET nu == GridSize(c, s, o)[1]
      nv == GridSize(c, s, o)[2]
      Index(i, j) == j * (nu + 1) + i + 1
      Triangle(i, j, second) ==
        LET p == Index(i, j)
            q == IF second THEN Index(i + 1, j + 1) ELSE Index(i + 1, j)
            r == IF second THEN Index(i, j + 1) ELSE Index(i + 1, j + 1)
        IN  IF c.shape = "box" THEN <<p, r, q>> ELSE <<p, q, r>>
  IN  [positions |-> [k \in 1 .. (nu + 1) * (nv + 1) |->
                        Sample(c, s, (k - 1) % (nu + 1), (k - 1) \div (nu + 1), nu, nv)],
       triangles |-> [k \in 1 .. 2 * nu * nv |->
                        LET cell == (k - 1) \div 2
                        IN  Triangle(cell % nu, cell \div nu, k % 2 = 0)]]

------------------------------------------------------------------------------
(* The mesh *)

\* tessellate(), by face
Tessellate(b, c, o) ==
  [f \in DOMAIN b.faces |->
     IF IsDisk(b, c, f) THEN Disk(c, b.faces[f].surface, o)
     ELSE Grid(c, b.faces[f].surface, o)]

\* flatten(): the indices of a face move past the positions before it.
Flatten(faces) ==
  Iterate(LAMBDA mesh, m :
            [positions |-> mesh.positions \o m.positions,
             triangles |-> mesh.triangles \o
               [k \in DOMAIN m.triangles |->
                  [i \in 1..3 |-> Len(mesh.positions) + m.triangles[k][i]]]],
          [positions |-> <<>>, triangles |-> <<>>], faces)

\* Every edge of a triangle is the edge of one other, in the other direction;
\* triangles that are only a line do not count.
IsClosed(mesh) ==
  LET Place(t, i) == mesh.positions[mesh.triangles[t][(i % 3) + 1]]
      uses == {t \in DOMAIN mesh.triangles :
                 Cardinality({Place(t, i) : i \in 0..2}) = 3} \X (0..2)
      edges == {<<Place(u[1], u[2]), Place(u[1], u[2] + 1)>> : u \in uses}
  IN  /\ Cardinality(edges) = Cardinality(uses)
      /\ {<<e[2], e[1]>> : e \in edges} = edges

\* The rims of a cone meet its wall: they have as many segments.
RimsMeetWall(c, o) ==
  \A r \in {c.r_base, c.r_top} \ {0} : CircleSegments(r, o) = Segments(24, o)

\* tessellator.cpp:174-177: "the resulting solid is fully closed".  The flat
\* mesh of every primitive is a closed surface with one side, poles, seams and
\* rims included; of a cone, exactly when the chord tolerance happens to give
\* its rims the fixed number of segments of its wall.
Watertight ==
  status = "Ok" =>
    \A o \in Options :
      IsClosed(Flatten(Tessellate(body, call, o))) <=>
        (call.shape = "cone" => RimsMeetWall(call, o))
==============================================================================
