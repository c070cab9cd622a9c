SPECIFICATION Spec
CONSTANTS
  Points <- MCPoints
  Calls <- MCCalls
  Exact = 4
  Options <- MCOptions
INVARIANTS
  SolidBoundary
  BoxMated
  SoundAndCopied
  TightBBox
  Watertight
