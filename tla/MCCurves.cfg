SPECIFICATION SplineSpec
CONSTANTS
  Curves <- MCCurves
  Surfaces <- MCSurfaces
  Parameters <- MCParameters
  MaxLast = 5
  Orders <- MCOrders
INVARIANTS
  KnotsSound
  AnswersExact
  InsertKeepsCurve
  SurfaceExact
PROPERTIES
  SearchEnds
