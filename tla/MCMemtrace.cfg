CONSTANTS
  Sizes <- MC_Sizes
  Counts <- MC_Counts
  MaxCalls = 3
SPECIFICATION Spec
INVARIANT FiniStatistics
\* the traced program exits after fini: nothing runs after that.
CHECK_DEADLOCK FALSE
