------------------------------- MODULE MCMMSeg -------------------------------
(* Instantiates MMSeg for TLC: the code's NSETS, a heap extension scaled   *)
(* from 4096 to 32 bytes, room for a few extensions, and request sizes     *)
(* that fall into the first two size classes and need one or several      *)
(* 16-byte units.                                                          *)
EXTENDS MMSeg

MC_CHUNKSIZE == 32
MC_NSETS == 15
MC_MAX_HEAP == 176
MC_Objs == {1, 2}
MC_Requests == {0, 8, 24, 40}
=============================================================================
