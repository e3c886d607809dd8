SPECIFICATION Spec
CONSTANTS
  o1 = o1
  o2 = o2
  o3 = o3
  NoAddr = NoAddr
  Objs = {o1, o2}
  Addrs <- ThreeAddrs
  OwnAddr <- UsualPort
  Bucket <- BucketOf
  Above <- AboveOne
  Offsets = {0}
  MaxConnections = 1
  MaxIncoming = 1
  MaxMedian = 1
  CounterMax = 7
  VersionMayFail = TRUE
INVARIANT CountersMatch
SYMMETRY ObjSymmetry
CONSTRAINT PeersBound
CHECK_DEADLOCK FALSE
