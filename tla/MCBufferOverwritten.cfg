SPECIFICATION Spec
CONSTANTS
  Contexts = {c, d}
  Storages = {s1, s2, s3}
  None = none
  Parts = {p, q}
  Ranges <- AllRanges
  InTurn = FALSE
  MaxRetired = 1
  MaxCalls = 4
SYMMETRY Symmetry
INVARIANTS
  ReadsCurrent
