CONSTANTS
  CHUNKSIZE <- MC_CHUNKSIZE
  MAX_HEAP <- MC_MAX_HEAP
  Objs <- MC_Objs
  Requests <- MC_Requests
  SIZE_T_BYTES = 8
SPECIFICATION Spec
INVARIANT HeapWellFormed
VIEW LiveView
