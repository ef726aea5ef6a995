SPECIFICATION FairSpec
CONSTANTS
  A1 = A1  A2 = A2  A3 = A3
  NumThreads = 3
  Activities = {A1, A2, A3}
  Trivial <- Numbers
  Homes = {0, 1, 2}
  Modes = {"Async", "Sync"}
  StartIndices = {0, 1}
  MaxSize = 2
  MaxPermits = 2
  RunActivity = RunActivity
  None = None
  Moved = Moved
INVARIANTS
  TypeOK
  NoStragglers
  RoundComplete
  OthersAreServed
PROPERTY
  RunEnds
CHECK_DEADLOCK FALSE
