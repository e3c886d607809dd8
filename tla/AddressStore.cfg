SPECIFICATION Spec
CONSTANTS
  BucketCount = 2
  Keys = {2, 3, 5}
  Port <- MCPort
  BucketOf <- MCBucketOf
  Times = {1, 2}
  Objs = {o1, o2, o3, o4}
  MaxSizes = {0, 3}
  CountMax = 3
  MaxNum = 4
  MaxRefs = 2
SYMMETRY Symmetry
INVARIANTS StoreSound Selection
CHECK_DEADLOCK FALSE
