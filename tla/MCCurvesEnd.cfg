SPECIFICATION SplineSpec
CONSTANTS
  Curves <- MCTestCurve
  Surfaces <- NoSurfaces
  Parameters <- MCParameters
  Orders <- MCOrders
  MaxLast = 5
INVARIANT ShapePreserved
