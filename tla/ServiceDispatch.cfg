CONSTANTS
  ProcessorThreadsNum = 2
  Home = 0
  Sessions = {1}
  HashOf <- MC_HashOf
  MsgsPerSession = 2
  AppPushes = 1
  QueueCap = 2
  MaxPanics = 1
SPECIFICATION Spec
CHECK_DEADLOCK FALSE
INVARIANT TypeOK 
 
