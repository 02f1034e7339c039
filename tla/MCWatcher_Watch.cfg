SPECIFICATION FairSpec
CONSTANTS
  Media = {film}
  Sidecars = {nfo}
  Dirs = {}
  Scans = {s1}
  MaxGen = 3
  MaxQueue = 1
  MaxPaused = 1
  Limits <- LimitsWatch
INVARIANTS
  TypeOK
  ChangeTracked
  NothingLate
CHECK_DEADLOCK FALSE
PROPERTIES
  ChangesAreScanned
  WatchConverges
