CONSTANTS
  Sessions = {s1, s2, s3}
  Arrays <- SomeArrays
  JUNK = JUNK
  NONE = NONE
SPECIFICATION FairSpec
INVARIANTS
  ArraysOK
PROPERTIES
  EndsUnlessAborted
CHECK_DEADLOCK FALSE
