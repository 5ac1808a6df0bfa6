\* Four connections served one after another: a hit can refresh a block
\* before a later request evicts.  No liveness property is checked here, so
\* symmetry over the connections and the URIs is sound.
CONSTANTS
  t1 = t1  t2 = t2  t3 = t3  t4 = t4  u1 = u1  u2 = u2  u3 = u3
  Threads <- MC_Threads4
  URIs <- MC_URIs
  Lens = {0, 1, 2}
  NNODES = 4
  MAX_CACHE_SIZE = 3
  MAX_OBJECT_SIZE = 2
  StrictClock = TRUE
  Sequential = TRUE
SPECIFICATION Spec
SYMMETRY Sym
INVARIANT TypeOK CacheBounded VictimIsLRU
