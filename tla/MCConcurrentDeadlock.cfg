SPECIFICATION FairSpec
CONSTANTS
  A1 = A1  A2 = A2  A3 = A3
  NumThreads = 2
  Activities = {A1, A2, A3}
  Trivial <- Numbers
  Homes = {0}
  Modes = {"Async"}
  StartIndices = {0}
  MaxSize = 2
  MaxPermits = 2
  RunActivity = RunActivity
  None = None
  Moved = Moved
PROPERTY RunReturns
CHECK_DEADLOCK FALSE
