SPECIFICATION FairSpec
CONSTANTS
  Attempts <- AttemptsScan
  Slots <- SlotsScan
  Alone <- AloneScan
  Limits <- LimitsScan
INVARIANTS
  TypeOK
  AppliedFannedOut
PROPERTIES
  StaleNeverWrites
  ScanConverges
CHECK_DEADLOCK FALSE
