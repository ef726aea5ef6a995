SPECIFICATION FairSpec
CONSTANTS
  C1 = C1
  C2 = C2
  NumThreads = 3
  Tasks = {C1, C2}
  MayBeLazy = {C1}
  Home <- OneInside
  Outside = Outside
  None = None
INVARIANT
  AwaitIsSafe
PROPERTY
  GetReturns
CHECK_DEADLOCK FALSE
