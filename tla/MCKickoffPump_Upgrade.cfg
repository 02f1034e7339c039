SPECIFICATION FairSpec
CONSTANTS
  NItems = 1
  Cleanup = {}
  Batch = 1
  Sonic = TRUE
  MaxErrStreak = 1
  MaxTries = 2
  Clickers = {u1}
  Limits <- LimitsUpgrade
INVARIANTS
  TypeOK
  UpgradeSeenByFinish
  PromiseKept
PROPERTIES
  UpgradeSticks
  ManualRunEnds
CHECK_DEADLOCK FALSE
