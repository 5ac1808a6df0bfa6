CONSTANTS
  j1 = j1
  j2 = j2
  j3 = j3
  Jobs <- MC_Jobs
  HAS_FG = TRUE
  FORK_FAILS = FALSE
SYMMETRY Perms
SPECIFICATION Spec
INVARIANT WaitMatchesChildren
\* main returns once every child has been reaped: the program stops.
CHECK_DEADLOCK FALSE
