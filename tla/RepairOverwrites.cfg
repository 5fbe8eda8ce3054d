SPECIFICATION Spec
CONSTANTS
  orig = orig
  untested = untested
  dirty = dirty
  sound = sound
  edit = edit
  none = none
  Original = orig
  Revisions = {untested, dirty, sound}
  Edits = {edit}
  Good <- GoodTexts
  Configs <- AllConfigs
  MaxAttempts = 1
  Faults = {}
  NoFile = none
CHECK_DEADLOCK FALSE
PROPERTIES EditsSurvive
