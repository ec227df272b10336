CONSTANTS
  MAX_PLAYERS_PER_TEAM = 4
  TeamNames <- FourTeams
  Data <- SomePlayers
  NewPlayers <- TypedPlayers
  MaxPlayers = 11
  NOBODY = NOBODY
SPECIFICATION FairSpec
INVARIANTS
  
  MergeOK
PROPERTIES
  ListingEnds
CHECK_DEADLOCK FALSE
