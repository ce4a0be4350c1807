SPECIFICATION MCSpec
CONSTANTS
  Nothing = Nothing
  NSlots = 3
  MaxFrames = 4
  Tops = {"t", "u"}
  Holes = {"h"}
  MaxMade = 2
  MaxQueue = 2
  MaxTimers = 2
INVARIANTS
  PlacedIsTrue
  IInv
  PresentsIntact
  ShownInOrder
  FreedUnused
PROPERTIES
  WaitsEnd
  ViewFollows
  GoneStaysOff
  Settles
CHECK_DEADLOCK FALSE
