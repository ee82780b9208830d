SPECIFICATION FairSpec
CONSTANTS
  Uris = {a, b}
  Capacity = 1
  MayPanic = TRUE
  MaxBatches = 2
INVARIANTS
  NoLostWakeup
  TokensTellTheTruth
PROPERTIES
  ImplementsMailbox
  LatestGetsAnalysed
  ThreadsEnd
CHECK_DEADLOCK FALSE
