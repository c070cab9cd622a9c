SPECIFICATION Spec
CONSTANTS
  Points <- MCPoints
  Calls <- MCCalls
  Exact = 4
  Options <- MCOptions
INVARIANT FailureLeavesEmpty
