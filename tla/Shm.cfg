CONSTANTS
  Sessions = {s1, s2, s3}
  Arrays <- SomeArrays
  NONE = NONE
SYMMETRY Symmetry
SPECIFICATION Spec
INVARIANTS
  SegmentsOK
CHECK_DEADLOCK FALSE
