SPECIFICATION FairSpec
CONSTANTS
  Threads = {t1, t2}
  MaxSerial = 3
  MaxBuffers = 2
INVARIANTS
  IInv
  SignaledIsDone
  DestroyedUntouched
PROPERTIES
  CompletionIsFinal
  WaitsReturn
  ImplementsContract
