CONSTANTS
  RecvListLen = 1
  WriterListLen = 1
  MaxReads = 3
  MaxSends = 2
  Faults = {"bad", "panic"}
SPECIFICATION Spec
CHECK_DEADLOCK FALSE
INVARIANT TypeOK
PROPERTY ClosedSessionReports
