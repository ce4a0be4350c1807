SPECIFICATION MCSpec
CONSTANTS
  Nothing = Nothing
  ChunkSize = 3
  Sizes = {1, 2, 4}
  Alignments = {2}
  MaxSerial = 4
  MaxChunks = 3
  Queries = {"q", "r"}
  Targets = {"samples", "any"}
  NoQuery = Nothing
  NSlots = 3
  Cap = 3
  DrawSizes = {1, 2}
  MaxCalls = 6
  Draws = {"d1", "d2"}
  Queues = {"q1"}
  ProgramSet = {"p1", "p2"}
  States = {"s1", "s2"}
  Creatable <- MCCreatable
  MaxStates = 2
  MaxPredicted = 2
  Unset = Nothing
INVARIANTS
  RegionsDisjoint
  ResultExact
  PipelinesServed
  FormatsSound
  ConversionsSound
  BlocksSound
PROPERTIES
  Answered
