SPECIFICATION Spec
CONSTANTS
  o1 = o1
  o2 = o2
  o3 = o3
  NoAddr = NoAddr
  Objs = {o1, o2, o3}
  Addrs <- TwoAddrs
  OwnAddr <- OwnPort
  Bucket <- BucketOf
  Above <- AboveOne
  Offsets = {0}
  MaxConnections = 2
  MaxIncoming = 1
  MaxMedian = 1
  CounterMax = 7
  VersionMayFail = FALSE
INVARIANT StopClosesConnections
CHECK_DEADLOCK FALSE
