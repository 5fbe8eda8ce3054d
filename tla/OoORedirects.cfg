SPECIFICATION Spec
CONSTANTS
  NumRegs = 3
  MemWords = 2
  SignBit = 16
  Setups <- RedirectedSetups
  Recovery <- MCRecovery
  Cfg <- TightCfg
  LineWords = 4
  CompactAt = 3
  Interval = 8
  MaxCycles = 300
INVARIANTS NoneInUseIsFree
CHECK_DEADLOCK FALSE
