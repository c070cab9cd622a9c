\* One allocation more per slot than its generation can tell apart.
CONSTANTS
  HalfGens = 2
  MaxSlots = 3
  MaxObjects = 5
  MaxBirths = 3
  MaxClears = 0
SPECIFICATION Spec
INVARIANTS
  StaleHandleDetected
