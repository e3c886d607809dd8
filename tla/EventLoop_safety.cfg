SPECIFICATION FairSpec
CONSTANTS
  e1 = e1
  e2 = e2
  o1 = o1
  r1 = r1
  NULL = NULL
  Events = {e1, e2, o1, r1}
  Receivers = {r1}
  Outputs = {o1}
  Socket <- SocketOf
  Cells = {c1, c2, c3, c4}
  CallsMax = 2
INVARIANTS TypeOK ListsIntact
PROPERTIES RegistrySpec EndsUnlessBlocked
CHECK_DEADLOCK FALSE
