SPECIFICATION Spec
CONSTANTS
  Points = {1, 2}
  Starts <- MCStarts
  Dead = {9}
  RingLength = 3
  MaxCreations = 1
  MaxEdits = 2
INVARIANTS
  TypeOK
  BBoxFresh
  ReferencesLive
  RingVerdictExact
  CloneKeepsVerdict
  HalfLinkNoticed
CHECK_DEADLOCK FALSE
