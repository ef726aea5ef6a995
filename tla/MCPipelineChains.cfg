SPECIFICATION FairHolderSpec
CONSTANTS
  Activities = {a1, a2, a3}
  Throwing = {a3}
  Kinds = {"auto", "manual", "steps", "key"}
  Indices = {1}
  StepCounts <- SomeSteps
  Width = 4
  None = None
  MaxQueue = 2
  RunPosted = RunPosted
INVARIANTS
  TypeOK
  ResultsAreOwn
  InOrder
  CallAdvances
  ReadyIsComplete
  LastHeard
  ReadyOnce
PROPERTY
  BusyEnds
CHECK_DEADLOCK FALSE
