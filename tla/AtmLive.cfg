CONSTANTS
  c1 = c1
  c2 = c2
  ABSENT = ABSENT
  EMPTY = EMPTY
  NOBODY = NOBODY
  NONE = NONE
  NAN = NAN
  INF = INF
  Clients <- TwoClients
  GarbageBalances <- MCGarbage
  TypedAmounts <- MCOneAmount
  InitialFiles <- MCStoredFile
  FileMayFail = TRUE
  FileMayBeLocked = FALSE
  ThreadMayFail = TRUE
  MaxCrashes = 1
  MaxRequests = 1
  ClientMayDie = TRUE
SPECIFICATION FairSpec
PROPERTIES
  AnswerArrives
  SessionsEnd
CHECK_DEADLOCK FALSE
