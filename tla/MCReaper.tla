------------------------------ MODULE MCReaper ------------------------------
(* foreground.c: N = 3 background jobs and one foreground job.              *)
EXTENDS Reaper, TLC

CONSTANTS j1, j2, j3

MC_Jobs == {j1, j2, j3}

Perms == Permutations(MC_Jobs)

====
