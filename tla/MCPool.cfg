\* Four generation values, so each slot may be born twice.
CONSTANTS
  HalfGens = 2
  MaxSlots = 3
  MaxObjects = 5
  MaxBirths = 2
  MaxClears = 1
SPECIFICATION Spec
INVARIANTS
  TypeOK
  GenerationCounts
  FreeListExact
  LookupExact
PROPERTY RefinesStore
