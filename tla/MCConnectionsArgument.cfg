SPECIFICATION Spec
CONSTANTS
  O1 = O1
  O2 = O2
  Objects = {O1, O2}
  Pairs <- OnePair
  T1 = T1
  T2 = T2
  T3 = T3
  K1 = K1
  K2 = K2
  Threads = {T1, T2, T3}
  Callers = {K1, K2}
  Home <- Homes
  Outside = Outside
  Types = {"Auto", "Queued"}
  Victims <- Ring
  MaxCalls = 3
  MaxOthers = 1
  None = None
INVARIANT
  ArgumentsOwn
CONSTRAINT Placed
CHECK_DEADLOCK FALSE
