CONSTANTS
  Threads = {t1, t2, t3}
  URIs = {u1, u2, u3}
  Lens = {0, 1, 2}
  NNODES = 3
  MAX_CACHE_SIZE = 3
  MAX_OBJECT_SIZE = 2
  StrictClock = TRUE
  Sequential = TRUE
SPECIFICATION Spec
INVARIANT NoUninitVictim
