SPECIFICATION Spec
CONSTANTS
  NumRegs = 3
  MemWords = 2
  Programs <- OverlappingWrites
  InitStates <- MCInitStates
  Bundles <- MCBundles
  Recovery <- MCRecovery
  Interval = 8
  MissLatency = 20
  InFlightCap = 8
  MaxCycles = 80
PROPERTIES
  ImplementsSeqISA
CHECK_DEADLOCK FALSE
