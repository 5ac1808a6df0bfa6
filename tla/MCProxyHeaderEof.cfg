\* Connections served one after another, with the thread scheduler's weak
\* fairness of Spec; a client may close its end at any point of its request.
CONSTANTS
  t1 = t1  t2 = t2  t3 = t3  t4 = t4  u1 = u1  u2 = u2  u3 = u3
  Threads <- MC_Threads3
  URIs <- MC_URIs
  Lens = {0, 1, 2}
  NNODES = 3
  MAX_CACHE_SIZE = 3
  MAX_OBJECT_SIZE = 2
  StrictClock = TRUE
  Sequential = TRUE
SPECIFICATION Spec
PROPERTY ConnectionsClosed
