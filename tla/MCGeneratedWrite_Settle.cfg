SPECIFICATION FairSpec
CONSTANTS
  Writers = {w1}
  Janitors = {j1}
  Scanners = {}
  User = {u1}
  Heya = {h1, h2}
  None = None
  Limits <- LimitsSettle
PROPERTIES
  IntentSettles
  Returned
CHECK_DEADLOCK FALSE
