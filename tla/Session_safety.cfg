SPECIFICATION Spec
CONSTANTS
  QueueMax = 5
  OldVersions = FALSE
  Sharing = {"client", "server"}
  Knowing = {"client", "server"}
  PingsMax = 1
  RequestsMax = 0
  RelaysMax = 0
  RelayEarly = FALSE
  SocketsFail = FALSE
  RemovesAll = TRUE
INVARIANTS TypeOK HonestStayConnected WritingWhileQueued QuietMeansIdle NeverStalls
CHECK_DEADLOCK FALSE
