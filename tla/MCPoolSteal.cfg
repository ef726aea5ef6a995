SPECIFICATION Spec
CONSTANTS
  NumThreads = 3
  N = 2
  A1 = A1
  A2 = A2
  A3 = A3
  A4 = A4
  Activities = {A1, A2, A3, A4}
  Affinity <- TrioOnZero
  Dependency <- CreatedOnZero
  Stealable = {A1, A3}
  Throwing = {A2}
  None = None
  StallFree = TRUE
  Destroyed = FALSE
INVARIANTS
  TypeOK
  NoLostWakeup
  BodyExclusive
  StoredIsSafe
  NeighbourNeverRobbed
PROPERTIES
  ImplementsService
CHECK_DEADLOCK FALSE
