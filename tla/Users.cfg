CONSTANTS
  Ids = {1, 2, 3}
  Data = {x, y}
  MAX_OPEN = 3
  MayFail = TRUE
  ABSENT = ABSENT
SPECIFICATION Spec
INVARIANTS
  RecordsOK
PROPERTIES
  RefinesDirectory
