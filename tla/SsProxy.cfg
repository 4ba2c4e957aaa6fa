CONSTANTS
  Ids = {1}
  MaxConnects = 2
  MaxData = 2
  MaxReplies = 1
  MaxFaults = 2
SPECIFICATION Spec
INVARIANT CloserClosedOnce
CHECK_DEADLOCK FALSE
