SPECIFICATION Spec
CONSTANTS
  Total = 3
  SeekThreshold = 1
  LeadCap = 1
  Clients = {c1, c2}
  Heads = {h1, h2, h3}
  NoHead = NoHead
  Limits <- LimitsRace
SYMMETRY SlotsAreAlike
INVARIANTS
  TypeOK
  OneEncoder
  ReadyWasMade
  WaiterHoldsLatch
  StatusFollowsHead
CHECK_DEADLOCK FALSE
