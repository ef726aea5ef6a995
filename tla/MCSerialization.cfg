SPECIFICATION Spec
CONSTANTS
  Classes <- SomeClasses
  Fields <- SomeFields
  Bases <- SomeBases
  Objects <- SomeObjects
  MaxObjects = 2
  BufferSizes = {8, 13}
  Versions = {1, 2}
  Pieces = {3}
  Garbage = Garbage
INVARIANTS
  NothingLost
  ReadsAreOwn
  ObjectsRestored
  CompleteWhenWhole
CHECK_DEADLOCK FALSE
