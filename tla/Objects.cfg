CONSTANTS
  MaxArrays = 2
  MaxLeaves = 1
  MaxParts = 2
  MaxLost = 1
  MaxParents = 1
  MaxObjects = 8
SPECIFICATION Spec
INVARIANTS
  CountsAccounted
  NothingFreedUsed
\* The program stops where C does not define what it does.
CHECK_DEADLOCK FALSE
