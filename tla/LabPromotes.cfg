SPECIFICATION Spec
CONSTANTS
  Policies <- MCPolicies
  Runs = 3
  Warmups = 1
  Trials = 2
  Margin = 1
  MaxLabs = 1
  MaxTrouble = 2
INVARIANTS LabConsistent PromotedIsSound EvidenceTellsArtifact
CHECK_DEADLOCK FALSE
