SPECIFICATION FairSpec
CONSTANTS
  NumThreads = 3
  N = 2
  A1 = A1
  A2 = A2
  A3 = A3
  A4 = A4
  Activities = {A1, A2}
  Affinity <- Spread
  Dependency <- Free
  Stealable = {A1}
  Throwing = {}
  None = None
  StallFree = TRUE
  Destroyed = TRUE
INVARIANTS
  StoppedHasPermit
PROPERTIES
  StoredIsRun
  ShutDownReturns
CHECK_DEADLOCK FALSE
