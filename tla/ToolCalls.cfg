SPECIFICATION FairSpec
CONSTANTS
  c1 = c1  c2 = c2
  Call = {c1, c2}
  Bodies <- Tools
  Menu <- MCMenu
INVARIANTS
  ToolCallsInv
  AdviceSafe
  CompletionTruthful
  ActionEventsObserved
  ReleasedUnderLock
PROPERTIES
  CallsEnd
CHECK_DEADLOCK FALSE
