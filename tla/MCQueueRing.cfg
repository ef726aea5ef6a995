SPECIFICATION Spec
CONSTANTS
  N = 3
  Pushers = {p1, p2}
  Poppers = {c1, c2}
  Watchers = {w}
  Null = Null
  MaxCalls = 2
  StallFree = TRUE
SYMMETRY Symmetry
INVARIANTS
  TypeOK
  Occupancy
  StoredUntilClaimed
  ReadBack
  FalseMeansEmpty
PROPERTIES
  ClaimsAreFifo
CHECK_DEADLOCK FALSE
