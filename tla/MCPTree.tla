------------------------------- MODULE MCPTree -------------------------------
(* A process tree 1 <- 2 <- 3 (systemd, bash, cat) and pid 9 with no task. *)
EXTENDS PTree, TLC

CONSTANTS u1, u2

MC_Tasks == {1, 2, 3}
MC_Parent == (1 :> 0) @@ (2 :> 1) @@ (3 :> 2)
MC_LineLen == (1 :> 12) @@ (2 :> 9) @@ (3 :> 14)
MC_Inputs == {2, 3, 9}
MC_OneUser == {u1}
MC_TwoUsers == {u1, u2}
Perms == Permutations(MC_TwoUsers)

====
