SPECIFICATION FairSpec
CONSTANTS
  NumRegs = 3
  MemWords = 2
  SignBit = 16
  Setups <- AllSetups
  Recovery <- MCRecovery
  Cfg <- MCCfg
  LineWords = 4
  CompactAt = 3
  Interval = 8
  MaxCycles = 300
INVARIANTS
  RegistersAccounted
  WindowConsistent
PROPERTIES
  ImplementsSeqVmarch
  Completes
CHECK_DEADLOCK FALSE
