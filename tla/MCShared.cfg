SPECIFICATION MCSpec
CONSTANTS
  one = one
  two = two
  Textures = {"t", "u"}
  Targets = {"x", "y"}
  Attachments <- MCAttachments
  NoTarget = NoTarget
  Mipmapped = {"u"}
  MaxCalls = 4
  Contexts = {one, two}
  Shaders = {"s1"}
  ProgramSet = {"p1", "p2"}
  Sources = {"good", "bad"}
  Accepted = {"good"}
  Es = TRUE
  None = None
  Threads = {one, two}
  Windows = {"w"}
  Slots = {1, 2}
  MaxMade = 2
  CheckEvery = 1
  ForgetMost = 1
  Processes = {"p1", "p2"}
  Linkers = {"l1", "l2", one, two}
  ProcessOf <- MCProcessOf
  BuildOf <- MCBuildOf
  Keys = {"k1", "k2", "k3"}
  Failing = {"k3"}
  PathOf <- MCPathOf
  BytesOf <- MCBytesOf
  MaxBytes = 3
  KeepBytes = 2
  kEntries = 2
  NoFile = NoFile
  Loggers = {one, two}
  kSlots = 2
  MaxFile = 1
  MaxReports = 2
  MaxEvents = 3
  Nobody = Nobody
  Arguments = {"global", "own"}
  Global = "global"
  Glues = {"sdl3", "glfw"}
  Absent = Absent
  Binaries = {"openmw", "osg"}
  TopWindows = {"v", "w"}
  Lookers = {one, two}
  Procs = {"p", "q"}
  RealWidth = 6
  DesktopWidth = 4
  Widths = {4, 6}
  Lefts = {0, 1}
  TableSize = 1
  Modules = {"m", "n", "o", "w"}
  Builtin = {"w"}
  Bases = {1, 2, 3}
  PatchedSize = 2
  Callers = {"t"}
  CallContexts = {1, 2}
  Kinds <- MCKinds
  MaxIssued = 5
  BatchBytes = 4
  MaxQueued = 1
  ChunkPages = 3
  PageUnits = 2
  Sizes = {1, 3, 5}
  Room = 3
  MaxPieces = 3
  StringSources = {1}
  Texts <- MCTexts
  MaxCopies = 2
  SyncCallers = {one, two}
  Addresses = {1, 2}
  MaxSyncs = 4
SYMMETRY Sym
INVARIANTS
  RunsInOrder
  FenceCovers
  LinkSound
  ProgramsSound
  LogSound
  GamesKept
  UpscaleSound
  BatchesSound
  Wow64Sound
  ContextsSound
PROPERTIES
  TrimBounds
CHECK_DEADLOCK FALSE
