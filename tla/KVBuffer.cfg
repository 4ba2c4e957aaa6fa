CONSTANTS
  ChunkSize = 32
  DataLens = {2, 3, 4}
  Keys <- MC_Keys
  Vals <- MC_Vals
  OpenLru = TRUE
  MaxOps = 5
  MaxCrashes = 2
SPECIFICATION Spec
INVARIANTS
  TypeOK
  ChunksPartitioned
  RecoveryMatchesMemory
PROPERTIES
  ImplementsKVCache
