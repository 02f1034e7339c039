SPECIFICATION Spec
CONSTANTS
  NItems = 3
  Cleanup = {2}
  Batch = 2
  Sonic = TRUE
  MaxErrStreak = 2
  MaxTries = 1
  Clickers = {}
  Limits <- LimitsSweep
INVARIANTS
  DrainedMeansOffered
  OneWaveAtATime
CHECK_DEADLOCK FALSE
