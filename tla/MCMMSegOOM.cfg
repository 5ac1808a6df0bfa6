CONSTANTS
  CHUNKSIZE <- MC_CHUNKSIZE
  NSETS <- MC_NSETS
  MAX_HEAP <- MC_MAX_HEAP
  Objs <- MC_Objs
  Requests <- MC_Requests
SPECIFICATION Spec
INVARIANT NoCrash
CHECK_DEADLOCK FALSE
VIEW LiveView
