SPECIFICATION FairSpec
CONSTANTS
  cubic = cubic
  upperCubic = upperCubic
  reno = reno
  vegas = vegas
  NoAction = none
  Algorithms <- MCAlgorithms
  Lower <- MCLower
  Allowlist = {cubic, reno}
  Initial <- MCInitial
  Observations <- Busy
  Policies = {"heuristic"}
  Proposals <- NoProposals
  Admin <- Nobody
  Faults = {"write"}
  MaxFailures = 1
CHECK_DEADLOCK FALSE
PROPERTIES TightModeEngages
