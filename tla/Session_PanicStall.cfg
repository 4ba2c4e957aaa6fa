CONSTANTS
  RecvListLen = 1
  WriterListLen = 1
  MaxReads = 3
  MaxSends = 2
  Faults = {"panic"}
SPECIFICATION Spec
CHECK_DEADLOCK FALSE


PROPERTY CloseEventuallyReported
