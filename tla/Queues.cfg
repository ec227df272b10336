CONSTANTS
  Processes <- FourProcesses
  PidOf <- SharedPids
  NoProcess = NoProcess
SPECIFICATION FairSpec
INVARIANTS
  PointersOK
PROPERTIES
  RefinesFifo
  LoopsEnd
