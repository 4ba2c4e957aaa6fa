CONSTANTS
  Srv = {s1}
  NumRecords = 5
  LogLvls = {0, 1}
  SetLvls = {1}
  InitLvl = 0
  MaxSize = 2
  MaxBackup = 3
  Dailies = {FALSE, TRUE}
  RecvCap = 2
  FlushEvery = 2
  MaxDay = 1
  MonthLen = 31
SPECIFICATION Spec
INVARIANTS
  TypeOK
  LogFilesAreRecentHistory
  RotationBoundsFile
  CloseFlushesAll
PROPERTIES
  CloseReturns
  BufferedRecordFlushed
