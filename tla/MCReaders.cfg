SPECIFICATION Spec
CONSTANTS
  Precision = 2
  IntMax = 127
  Names = {"w", "d", "mm", "cm", "in", "foot", "meter", "width", "depth", "height", "radius", "radius_base", "radius_top", "major_radius", "minor_radius"}
  LengthPerMm = 20
  Drafts <- MCDrafts
  Fragments <- MCFragments
  Keys <- MCKeys
  MaxSource = 130
  MaxEdits = 1
  Extras <- MCExtras
  Slips <- MCSlips
INVARIANTS
  LexExact
  NothingLost
  BuiltAsMeant
  JsonExact
PROPERTIES
  BlameExact
