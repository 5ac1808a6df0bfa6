-------------------------------- MODULE PTree --------------------------------
(***************************************************************************)
(* The debugfs module src/lab06_kernel/ptree/dbfs_ptree.c.  Writing a pid  *)
(* to it walks the task's parent chain up to pid 0, formats one line per   *)
(* task, adds each line's length to output_size, and rebuilds the output   *)
(* buffer: krealloc(output, output_size), memset, then strcat of every     *)
(* line, root first.  Reading copies output_size bytes of output out with  *)
(* simple_read_from_buffer and then frees output with krealloc(output, 0).*)
(*                                                                         *)
(* curr, output and output_size are globals shared by every process that   *)
(* uses the file, with no lock.  A handler step is one statement of the    *)
(* code (one loop iteration of the walk or of the strcat loop); krealloc   *)
(* and the memset right after it are one step.  A line is abstracted to    *)
(* its task and its length; output holds a string of lines (str) inside    *)
(* an allocation of cap bytes, NULL before the first use, and              *)
(* ZERO_SIZE_PTR ("zero") after krealloc to size 0.  A reader is `cat`:    *)
(* it calls read at position 0 and again at the position the last call    *)
(* returned, until a call returns 0 or an error.                           *)
(***************************************************************************)
EXTENDS Integers, Sequences, FiniteSets

CONSTANTS
  Users,     \* processes using the debugfs files
  Tasks,     \* pids that have a task (pid 0, the idle task, excluded)
  Parent,    \* Parent[p]: the pid of p's parent, 0 for the root
  LineLen,   \* LineLen[p]: strlen of "<comm> (<pid>)\n" for task p
  Inputs,    \* the pids a user writes, a pid without a task included
  MaxOps     \* bound on the writes and reads started

ASSUME Parent \in [Tasks -> Tasks \cup {0}] /\ LineLen \in [Tasks -> 1 .. 31]

NoTask == -1        \* curr = NULL: pid_task found no task

VARIABLES
  curr,         \* the global struct task_struct *curr
  output,       \* [st |-> "null" | "zero" | "live", cap |-> bytes allocated]
  str,          \* the lines of the string held in output, in order
  output_size,  \* the global ssize_t output_size
  u,            \* u[w]: [pc, pid, list, k, pos, ret] of process w
  ops,          \* writes and reads started
  wpid,         \* pid of the last write that returned (0: none yet)
  access        \* the last access through a pointer: [what, ok]

vars == <<curr, output, str, output_size, u, ops, wpid, access>>

(* The length of a string of lines.                                        *)
RECURSIVE Bytes(_)
Bytes(s) == IF s = <<>> THEN 0 ELSE LineLen[Head(s)] + Bytes(Tail(s))

(* Reference: the ancestry of task p, root first, as the module means to   *)
(* print it (pid 0 not included).                                          *)
RECURSIVE Ancestry(_)
Ancestry(p) == IF p = 0 THEN <<>> ELSE Ancestry(Parent[p]) \o <<p>>

Idle == [pc |-> "idle", pid |-> 0, list |-> <<>>, k |-> 0, pos |-> 0, ret |-> 0]

NoAccess == [what |-> "none", ok |-> TRUE]

Init ==
  /\ curr = NoTask
  /\ output = [st |-> "null", cap |-> 0]
  /\ str = <<>>
  /\ output_size = 0
  /\ u = [w \in Users |-> Idle]
  /\ ops = 0
  /\ wpid = 0
  /\ access = NoAccess

(* ---------------------------------------------------------------------- *)
(* write_pid_to_input (lines 29-73).                                       *)
(* ---------------------------------------------------------------------- *)

(* sscanf and pid_task: curr is set, or the call returns -ESRCH.           *)
WriteStart(w, p) ==
  /\ u[w].pc = "idle" /\ ops < MaxOps
  /\ curr' = IF p \in Tasks THEN p ELSE NoTask
  /\ u' = [u EXCEPT ![w] = IF p \in Tasks
                            THEN [Idle EXCEPT !.pc = "walk", !.pid = p]
                            ELSE Idle]
  /\ ops' = ops + 1
  /\ access' = NoAccess
  /\ UNCHANGED <<output, str, output_size, wpid>>

\* Mutant: the node is given the parent's pid (curr moved before the sprintf).
WalkStepParentFirst(w) ==
  /\ u[w].pc = "walk" /\ curr \notin {0}
  /\ IF curr = NoTask
       THEN /\ access' = [what |-> "curr", ok |-> FALSE]
            /\ UNCHANGED <<curr, output_size, u>>
       ELSE /\ output_size' = output_size + LineLen[curr]
            /\ u' = [u EXCEPT ![w].list = <<Parent[curr]>> \o @]
            /\ curr' = Parent[curr]
            /\ access' = NoAccess
  /\ UNCHANGED <<output, str, ops, wpid>>

\* Mutant: list_add_tail instead of list_add.
WalkStepTail(w) ==
  /\ u[w].pc = "walk" /\ curr \notin {0}
  /\ IF curr = NoTask
       THEN /\ access' = [what |-> "curr", ok |-> FALSE]
            /\ UNCHANGED <<curr, output_size, u>>
       ELSE /\ output_size' = output_size + LineLen[curr]
            /\ u' = [u EXCEPT ![w].list = @ \o <<curr>>]
            /\ curr' = Parent[curr]
            /\ access' = NoAccess
  /\ UNCHANGED <<output, str, ops, wpid>>

(* One iteration of while (curr->pid != 0): a node for curr's line is put  *)
(* at the head of the local list, its length added to output_size, and    *)
(* curr moves to its parent.  curr = NULL (another call's failed lookup)   *)
(* is dereferenced.                                                        *)
WalkStep(w) ==
  /\ u[w].pc = "walk" /\ curr \notin {0}
  /\ IF curr = NoTask
       THEN /\ access' = [what |-> "curr", ok |-> FALSE]
            /\ UNCHANGED <<curr, output_size, u>>
       ELSE /\ output_size' = output_size + LineLen[curr]
            /\ u' = [u EXCEPT ![w].list = <<curr>> \o @]
            /\ curr' = Parent[curr]
            /\ access' = NoAccess
  /\ UNCHANGED <<output, str, ops, wpid>>

(* krealloc(output, output_size) and memset(output, 0, output_size).       *)
Rebuild(w) ==
  /\ u[w].pc = "walk" /\ curr = 0
  /\ output' = IF output_size = 0 THEN [st |-> "zero", cap |-> 0]
               ELSE [st |-> "live", cap |-> output_size]
  /\ str' = <<>>
  /\ u' = [u EXCEPT ![w].pc = "fill", ![w].k = 1]
  /\ access' = NoAccess
  /\ UNCHANGED <<curr, output_size, ops, wpid>>

(* One iteration of list_for_each_safe: strcat(output, nd->info) writes    *)
(* the line and its terminating NUL after the string already there.       *)
Strcat(w) ==
  /\ u[w].pc = "fill" /\ u[w].k <= Len(u[w].list)
  /\ LET t == u[w].list[u[w].k]
     IN  /\ access' = [what |-> "strcat",
                       ok |-> output.st = "live"
                              /\ Bytes(str) + LineLen[t] + 1 <= output.cap]
         /\ str' = Append(str, t)
  /\ u' = [u EXCEPT ![w].k = @ + 1]
  /\ UNCHANGED <<curr, output, output_size, ops, wpid>>

(* return output_size.                                                     *)
WriteReturn(w) ==
  /\ u[w].pc = "fill" /\ u[w].k > Len(u[w].list)
  /\ u' = [u EXCEPT ![w] = Idle]
  /\ wpid' = u[w].pid
  /\ access' = NoAccess
  /\ UNCHANGED <<curr, output, str, output_size, ops>>

(* ---------------------------------------------------------------------- *)
(* read_from_ptree (lines 75-84), called by cat.                           *)
(* ---------------------------------------------------------------------- *)

ReadStart(w) ==
  /\ u[w].pc = "idle" /\ ops < MaxOps
  /\ u' = [u EXCEPT ![w] = [Idle EXCEPT !.pc = "copy"]]
  /\ ops' = ops + 1
  /\ access' = NoAccess
  /\ UNCHANGED <<curr, output, str, output_size, wpid>>

(* simple_read_from_buffer(user_buffer, length, position, output,          *)
(* output_size): nothing when pos >= output_size, else the bytes           *)
(* [pos, output_size) of output; a copy from NULL or ZERO_SIZE_PTR fails   *)
(* with -EFAULT.                                                           *)
SimpleRead(w) ==
  LET pos == u[w].pos
      n   == output_size - pos
  IN  IF pos >= output_size
        THEN /\ u' = [u EXCEPT ![w].pc = "free", ![w].ret = 0]
             /\ access' = NoAccess
        ELSE /\ access' = [what |-> "read",
                           ok |-> output.st = "live" /\ output_size <= output.cap]
             /\ u' = [u EXCEPT ![w].pc = "free",
                               ![w].ret = IF output.st = "live" THEN n ELSE -1,
                               ![w].pos = IF output.st = "live" THEN pos + n ELSE pos]

ReadCopy(w) ==
  /\ u[w].pc = "copy"
  /\ SimpleRead(w)
  /\ UNCHANGED <<curr, output, str, output_size, ops, wpid>>

(* output = krealloc(output, 0): output is freed and becomes               *)
(* ZERO_SIZE_PTR; cat calls read again after a positive return.            *)
ReadFree(w) ==
  /\ u[w].pc = "free"
  /\ output' = [st |-> "zero", cap |-> 0]
  /\ str' = <<>>
  /\ u' = [u EXCEPT ![w].pc = IF u[w].ret > 0 THEN "copy" ELSE "idle"]
  /\ access' = NoAccess
  /\ UNCHANGED <<curr, output_size, ops, wpid>>

(* Every process has finished its calls.                                   *)
Done ==
  /\ ops = MaxOps /\ \A w \in Users : u[w].pc = "idle"
  /\ UNCHANGED vars

Next ==
  \/ \E w \in Users :
       \/ \E p \in Inputs : WriteStart(w, p)
       \/ WalkStep(w) \/ Rebuild(w) \/ Strcat(w) \/ WriteReturn(w)
       \/ ReadStart(w) \/ ReadCopy(w) \/ ReadFree(w)
  \/ Done

Spec == Init /\ [][Next]_vars

(* ---------------------------------------------------------------------- *)
(* Properties.                                                             *)
(* ---------------------------------------------------------------------- *)
Pids == Tasks \cup {0}

TypeOK ==
  /\ curr \in Pids \cup {NoTask}
  /\ output.st \in {"null", "zero", "live"} /\ output.cap \in Nat
  /\ str \in Seq(Tasks) /\ output_size \in Nat
  /\ \A w \in Users :
       /\ u[w].pc \in {"idle", "walk", "fill", "copy", "free"}
       /\ u[w].list \in Seq(Tasks) /\ u[w].pos \in 0 .. output_size
  /\ ops \in 0 .. MaxOps /\ wpid \in Pids

(* Whenever no call is in progress and output holds a buffer, its string  *)
(* is the ancestry of the pid last written, root first and each task once: *)
(* the walk stops at pid 0, list_add puts each parent before its child,    *)
(* and the memset drops whatever an earlier write left.                   *)
OutputIsAncestry ==
  (\A w \in Users : u[w].pc = "idle") /\ output.st = "live"
    => str = Ancestry(wpid)

(* Every access the handlers make through a pointer is to live memory and *)
(* inside it: the walk never dereferences a NULL curr, strcat writes the   *)
(* line and its NUL inside output's allocation, and a read copies          *)
(* output_size bytes from a buffer that holds them.                        *)
MemorySafe == access.ok

====
