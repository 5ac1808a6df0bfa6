--------------------------- MODULE MCMMSegHistory ---------------------------
(* MMSegHistory under the bounds of MCMMSeg.                                *)
EXTENDS MMSegHistory

MC_CHUNKSIZE == 32
MC_NSETS == 15
MC_MAX_HEAP == 176
MC_Objs == {1, 2}
MC_Requests == {0, 8, 24, 40}
=============================================================================
