CONSTANTS
  c1 = c1
  c2 = c2
  ABSENT = ABSENT
  EMPTY = EMPTY
  NOBODY = NOBODY
  NONE = NONE
  NAN = NAN
  INF = INF
  Clients <- TwoClients
  GarbageBalances <- MCGarbage
  TypedAmounts <- MCAmounts
  InitialFiles <- MCFiles
  FileMayFail = FALSE
  FileMayBeLocked = TRUE
  ThreadMayFail = TRUE
  MaxCrashes = 0
  MaxRequests = 2
  ClientMayDie = TRUE
SYMMETRY Symmetry
SPECIFICATION Spec
INVARIANTS
  Consistent
  NeverOverdrawn
PROPERTIES
  RefinesAccount
CHECK_DEADLOCK FALSE
