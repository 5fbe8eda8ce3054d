SPECIFICATION FairSpec
CONSTANTS
  orig = orig
  untested = untested
  dirty = dirty
  sound = sound
  edit = edit
  none = none
  Original = orig
  Revisions = {untested, dirty, sound}
  Edits = {edit}
  Good <- GoodTexts
  Configs <- AllConfigs
  MaxAttempts = 3
  Faults = {"exception", "interrupt", "revert", "crash"}
  NoFile = none
CHECK_DEADLOCK FALSE
INVARIANTS TypeOK NothingLeftBehind FailureLeavesSource OriginalRecoverable
  OnlyGatedInstalled AcceptedBinaryVerified
PROPERTIES ImplementsSourceUpdate Returns
