SPECIFICATION FairSpec
CONSTANTS
  Threads = {t1, t2}
  Contexts = {a, b}
  None = none
  MaxSerial = 2
INVARIANTS
  SyncsSound
PROPERTIES
  OwnWaitReturns
