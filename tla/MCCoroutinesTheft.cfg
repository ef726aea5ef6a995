SPECIFICATION Spec
CONSTANTS
  C1 = C1
  C2 = C2
  NumThreads = 3
  Tasks = {C1, C2}
  MayBeLazy = {}
  Home <- AllOutside
  Outside = Outside
  None = None
INVARIANT
  HelpersAreServed
CHECK_DEADLOCK FALSE
