SPECIFICATION Spec
CONSTANTS
  w1 = w1
  w2 = w2
  Writers <- MCWriters
  Logs = {"decisions", "unified"}
  MaxRecords = 4
  MaxFaults = 2
SYMMETRY Symmetry
INVARIANTS ChainConsistent AloneIntact DamagePinpointed
CHECK_DEADLOCK FALSE
