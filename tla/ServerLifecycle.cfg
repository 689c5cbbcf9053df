SPECIFICATION FairSpec
CONSTANTS
  MaxCancels = 3
INVARIANTS
  OrderlyExit
  OutcomeReported
PROPERTIES
  NotServedAfterStop
  StopEnds
CHECK_DEADLOCK FALSE
