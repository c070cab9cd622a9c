---------------------------- MODULE MCPrimitives -----------------------------
EXTENDS Tessellator

MCPoints == [x : Int, y : Int, z : Int]
MCPlaces == {[x |-> 0, y |-> 0, z |-> 0], [x |-> 8, y |-> 0 - 3, z |-> 0],
           [x |-> 0, y |-> 8, z |-> 5]}
Sizes == 0 .. 2
MCCalls ==
  [shape : {"box"}, at : MCPlaces, size : [x : Sizes, y : Sizes, z : Sizes]] \cup
  [shape : {"sphere"}, at : MCPlaces, r : Sizes] \cup
  [shape : {"cylinder"}, at : MCPlaces, axis : Directions, r : Sizes,
   height : Sizes] \cup
  [shape : {"cone"}, at : MCPlaces, axis : Directions, r_base : Sizes,
   r_top : Sizes, height : Sizes] \cup
  [shape : {"torus"}, at : MCPlaces, axis : Directions, major : Sizes,
   minor : Sizes]

\* Coarse, where every size is a few segments, and with the code's own sizes,
\* where a circle of radius 1 happens to get the 24 of a cone's wall
MCOptions == {[min |-> 3, max |-> 4, fine |-> <<2, 4>>],
              [min |-> 3, max |-> 256, fine |-> <<24, 5>>]}
==============================================================================
