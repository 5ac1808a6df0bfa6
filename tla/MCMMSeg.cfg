CONSTANTS
  CHUNKSIZE <- MC_CHUNKSIZE
  NSETS <- MC_NSETS
  MAX_HEAP <- MC_MAX_HEAP
  Objs <- MC_Objs
  Requests <- MC_Requests
SPECIFICATION SpecH
INVARIANT TypeOK HeapWellFormed FreeListsExact ClientDataIntact NoAbort
PROPERTY HeapGrowsOnlyWhenNoFit
VIEW LiveView
CHECK_DEADLOCK FALSE
