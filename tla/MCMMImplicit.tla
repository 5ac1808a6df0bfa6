----------------------------- MODULE MCMMImplicit -----------------------------
(* Instantiates MMImplicit for TLC: a heap extension scaled from 4096 to   *)
(* 32 bytes, room for a few extensions, two client objects and requests   *)
(* that need the minimum block, a larger one, or nothing (size 0).        *)
EXTENDS MMImplicit

MC_CHUNKSIZE == 32
MC_MAX_HEAP == 112
MC_Objs == {1, 2}
MC_Requests == {0, 8, 24}
=============================================================================
