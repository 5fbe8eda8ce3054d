SPECIFICATION FairSpec
CONSTANTS
  cubic = cubic
  upperCubic = upperCubic
  reno = reno
  vegas = vegas
  NoAction = none
  Algorithms <- MCAlgorithms
  Lower <- MCLower
  Allowlist = {cubic, reno}
  Initial <- MCInitial
  Observations <- Days
  Policies = {"heuristic", "joint", "other"}
  Proposals <- MCProposals
  Admin <- OneOwner
  Faults = {"observe", "policy", "write", "rollback", "skip", "crash"}
  MaxFailures = 2
CHECK_DEADLOCK FALSE
INVARIANTS TypeOK
PROPERTIES ReachesOnlyValidated ImplementsAtomicTuning TightModeFollows NoFlapping
