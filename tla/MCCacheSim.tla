----------------------------- MODULE MCCacheSim -----------------------------
(* A 2-set, 2-way cache with 2-byte blocks (s = 1, b = 1, E = 2).  The      *)
(* addresses put three tags into set 0, so a full set must evict, and one   *)
(* tag into set 1.                                                          *)
EXTENDS CacheSim

MC_Addrs == {0, 2, 4, 8}
MC_JunkTags == {0, 1}
====
