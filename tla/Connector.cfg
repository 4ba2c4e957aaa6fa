CONSTANTS
  ReconnCap = 30
  ReconnReset = 10
  MaxCalls = 2
SPECIFICATION Spec
CHECK_DEADLOCK FALSE
INVARIANT TypeOK RestartOnClosedSession
PROPERTY NoAdoptAfterClose  RedialsWhileOpen
