----------------------------- MODULE MCMemtrace -----------------------------
(* Up to 3 calls with sizes 8 and 24, and calloc counts 1 and 4.           *)
EXTENDS Memtrace

MC_Sizes == {8, 24}
MC_Counts == {1, 4}

====
