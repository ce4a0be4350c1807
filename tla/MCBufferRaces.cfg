SPECIFICATION FairSpec
CONSTANTS
  Contexts = {c, d}
  Storages = {s1, s2}
  None = none
  Parts = {p, q}
  Ranges <- OnePart
  InTurn = FALSE
  MaxRetired = 1
  MaxCalls = 3
PROPERTIES
  MappingLasts
  CallsReturn
