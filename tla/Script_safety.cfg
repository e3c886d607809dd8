SPECIFICATION Spec
CONSTANTS
  Vectors <- SomeVectors
  Stacks <- SomeStacks
  Operations <- AllOperations
  MaxRead = 3
  MaxOps = 4
  MaxStack = 7
  MaxAt = 12
VIEW NotLast
INVARIANTS TypeOK OwnedOnce BlocksBalance
PROPERTIES ValuesFollow
CHECK_DEADLOCK FALSE
