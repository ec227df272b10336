CONSTANTS
  Keys <- FourKeys
  Values = {u, w}
  CapacityInputs <- SomeCapacities
  MAX_CAPACITY = 3
  BucketOf <- TwoBuckets
  Nodes = {n1, n2, n3, n4}
  MayFail = TRUE
  NULL = NULL
SYMMETRY Symmetry
SPECIFICATION CacheSpec
INVARIANTS
  CacheOK
PROPERTIES
  RefinesPolicy
CHECK_DEADLOCK FALSE
