SPECIFICATION FairSpec
CONSTANTS
  Total = 2
  SeekThreshold = 1
  LeadCap = 2
  Clients = {c1}
  Heads = {h1, h2}
  NoHead = NoHead
  Limits <- LimitsLive
PROPERTIES
  RequestsEnd
CHECK_DEADLOCK FALSE
