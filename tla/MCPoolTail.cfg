\* Two slots, each born twice: a link read back wrong can name the other slot.
CONSTANTS
  HalfGens = 2
  MaxSlots = 2
  MaxObjects = 4
  MaxBirths = 2
  MaxClears = 0
SPECIFICATION Spec
PROPERTY AllocTakesFree
