SPECIFICATION FairSpec
CONSTANTS
  NumRegs = 3
  MemWords = 2
  Programs <- AllPrograms
  InitStates <- MCInitStates
  Bundles <- MCBundles
  Recovery <- MCRecovery
  Interval = 8
  MissLatency = 9
  InFlightCap = 8
  MaxCycles = 120
INVARIANTS
  TypeOK
  Interlocks
  ScoreboardExact
PROPERTIES
  ImplementsSeqISA
  Completes
CHECK_DEADLOCK FALSE
