CONSTANTS
  Arrays <- PipeArrays
  PIPE_CAPACITY = 3
  Sessions = {s1, s2}
  FileArrays <- SessionArrays
  ABSENT = ABSENT
  EMPTY = EMPTY
  GARBAGE = GARBAGE
  NONE = NONE
SPECIFICATION MCSpec
INVARIANTS
  StreamsOK
  FileShownOK
PROPERTIES
  ProgramsEnd
  RefinesService
CHECK_DEADLOCK FALSE
