SPECIFICATION Spec
CONSTANTS
  NumThreads = 2
  N = 4
  A1 = A1
  A2 = A2
  A3 = A3
  A4 = A4
  Activities = {A1, A2}
  Affinity <- AllOnZero
  Dependency <- Free
  Stealable = {}
  Throwing = {}
  None = None
  StallFree = TRUE
  Destroyed = FALSE
INVARIANTS
  NeverLost
CHECK_DEADLOCK FALSE
