CONSTANTS
  ProcessLines <- SomeLines
  KillLines <- SomeKills
  MaxProcesses = 3
  MaxKillEvents = 2
  MaxTick = 12
  AllocationMayFail = TRUE
  IntHalf = 8
SPECIFICATION FairSpec
INVARIANTS
  QueuesConsistent
  WorkAccounted
  CpuAccounted
  KillsObeyed
  ReportIsConsistent
PROPERTIES
  OutcomeIsFinal
  NoOvertaking
  EndsIfAllCanEnd
  RefinesLifecycle
CHECK_DEADLOCK FALSE
