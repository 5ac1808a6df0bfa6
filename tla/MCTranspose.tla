----------------------------- MODULE MCTranspose -----------------------------
(* The calls the cache lab driver makes: transpose_submit and trans on     *)
(* each of the three graded sizes.                                         *)
EXTENDS Transpose

MC_Cases ==
  {[f |-> f, M |-> d[1], N |-> d[2]] : f \in {"submit", "trans"},
                                       d \in {<<32, 32>>, <<64, 64>>, <<61, 67>>}}
=============================================================================
