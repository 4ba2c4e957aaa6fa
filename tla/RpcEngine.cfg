CONSTANTS
  Callers = {c1, c2}
  TimeOut = 1
  TicksPerSec = 2
SPECIFICATION Spec
INVARIANTS
  TypeOK
  NoCallbackWithException
  ResponsesCorrelated
  SyncReturnLeavesNoRecord
PROPERTIES
  ImplementsRpcCalls
