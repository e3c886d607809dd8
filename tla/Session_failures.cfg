SPECIFICATION Spec
CONSTANTS
  QueueMax = 3
  OldVersions = FALSE
  Sharing = {}
  Knowing = {}
  PingsMax = 0
  RequestsMax = 1
  RelaysMax = 1
  RelayEarly = TRUE
  SocketsFail = TRUE
  RemovesAll = FALSE
INVARIANTS Agreement WritingWhileQueued
PROPERTY QueuesInOrder
CHECK_DEADLOCK FALSE
