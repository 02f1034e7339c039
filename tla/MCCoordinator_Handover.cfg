SPECIFICATION FairSpec
CONSTANTS
  Workers = {w1, w2}
  Drainers = {d1}
  Jobs = {j1}
  NoOne = NoOne
  Limits <- LimitsHandover
INVARIANTS
  TypeOK
  OverlapNeedsLoss
  FiredMeansFenced
PROPERTIES
  RescueSparesHealthy
  CoordinatorEnds
  JobsSettle
CHECK_DEADLOCK FALSE
