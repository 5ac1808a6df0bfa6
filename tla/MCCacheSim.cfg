CONSTANTS
  S_BITS = 1
  B_BITS = 1
  E = 2
  Addrs <- MC_Addrs
  MaxLines = 5
  Garbage = FALSE
  JunkTags <- MC_JunkTags
SPECIFICATION Spec
INVARIANT TypeOK CountersPermute
PROPERTY LRURefinement
CHECK_DEADLOCK FALSE
