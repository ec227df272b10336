CONSTANTS
  Names = {a, b, up}
  DOTDOT = up
  Texts = {text, more}
  NoData = NoData
  Blocks <- TwoBlocks
  Nodes = {r, n1, n2, n3}
  root = r
  MallocMayFail = TRUE
  NULL = NULL
SYMMETRY Symmetry
SPECIFICATION VfsSpec
INVARIANTS
  StructureOK
PROPERTIES
  RefinesTree
CHECK_DEADLOCK FALSE
