SPECIFICATION Spec
CONSTANTS
  NItems = 2
  Cleanup = {}
  Batch = 2
  Sonic = FALSE
  MaxErrStreak = 2
  MaxTries = 1
  Clickers = {}
  Limits <- LimitsHandoff
INVARIANTS
  RowHeld
CHECK_DEADLOCK FALSE
