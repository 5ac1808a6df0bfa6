------------------------------ MODULE Memtrace ------------------------------
(***************************************************************************)
(* The LD_PRELOAD shim src/lab01_link/part1/memtrace.c.  Its malloc,       *)
(* calloc, realloc and free look up libc's function with dlsym on first    *)
(* use, call it, log the call and count it; the constructor init runs when *)
(* the library is loaded and the destructor fini when the traced program   *)
(* exits, logging the total bytes allocated and the average per call.      *)
(*                                                                         *)
(* The traced program is a single thread making at most MaxCalls calls     *)
(* with sizes from small sets.  Logging (memlog.h) is output only, and the *)
(* memlist list is created and freed but never used in part 1: both are    *)
(* left out.  A pointer is not needed by any counter and is not modelled.  *)
(* bytes is the ghost total the trace really requested.                    *)
(***************************************************************************)
EXTENDS Naturals

CONSTANTS
  Sizes,     \* the size arguments the program passes
  Counts,    \* the count arguments of calloc
  MaxCalls   \* bound on the program's calls

VARIABLES
  resolved,  \* resolved[f]: the static pointer f (mallocp, ...) is set
  n_malloc, n_calloc, n_realloc, n_allocb,
  pc,        \* "loaded", "running" (after init), "exited" (after fini)
  calls,     \* calls the program has made
  bytes,     \* ghost: bytes the program's allocation calls requested
  logged     \* what fini logs [allocb, avg], or trap = TRUE if it died of SIGFPE

vars == <<resolved, n_malloc, n_calloc, n_realloc, n_allocb, pc, calls, bytes, logged>>

Fns == {"malloc", "free", "calloc", "realloc"}

Init ==
  /\ resolved = [f \in Fns |-> FALSE]
  /\ n_malloc = 0 /\ n_calloc = 0 /\ n_realloc = 0 /\ n_allocb = 0
  /\ pc = "loaded"
  /\ calls = 0 /\ bytes = 0
  /\ logged = [trap |-> FALSE, allocb |-> 0, avg |-> 0]

(* The constructor: LOG_START and new_list.                                *)
init ==
  /\ pc = "loaded"
  /\ pc' = "running"
  /\ UNCHANGED <<resolved, n_malloc, n_calloc, n_realloc, n_allocb, calls, bytes, logged>>

(* if (!fp) fp = dlsym(RTLD_NEXT, f); then the call is forwarded.          *)
Call(f) ==
  /\ pc = "running" /\ calls < MaxCalls
  /\ resolved' = [resolved EXCEPT ![f] = TRUE]
  /\ calls' = calls + 1

malloc(size) ==
  /\ Call("malloc")
  /\ n_malloc' = n_malloc + 1
  /\ n_allocb' = n_allocb + size
  /\ bytes' = bytes + size
  /\ UNCHANGED <<n_calloc, n_realloc, pc, logged>>

free ==
  /\ Call("free")
  /\ UNCHANGED <<n_malloc, n_calloc, n_realloc, n_allocb, pc, bytes, logged>>

calloc(count, size) ==
  /\ Call("calloc")
  /\ n_calloc' = n_calloc + 1
  /\ n_allocb' = n_allocb + size
  /\ bytes' = bytes + count * size
  /\ UNCHANGED <<n_malloc, n_realloc, pc, logged>>

realloc(size) ==
  /\ Call("realloc")
  /\ n_realloc' = n_realloc + 1
  /\ n_allocb' = n_allocb + size
  /\ bytes' = bytes + size
  /\ UNCHANGED <<n_malloc, n_calloc, pc, logged>>

(* The destructor: avg_allocb = n_allocb / n_alloc_total, which traps      *)
(* (SIGFPE) when the program made no allocation call.                      *)
fini ==
  /\ pc = "running"
  /\ pc' = "exited"
  /\ LET n_alloc_total == n_malloc + n_calloc + n_realloc
     IN  logged' = IF n_alloc_total = 0
                   THEN [logged EXCEPT !.trap = TRUE]
                   ELSE [trap |-> FALSE, allocb |-> n_allocb,
                         avg |-> n_allocb \div n_alloc_total]
  /\ UNCHANGED <<resolved, n_malloc, n_calloc, n_realloc, n_allocb, calls, bytes>>

Next ==
  \/ init \/ fini \/ free
  \/ \E s \in Sizes : malloc(s) \/ realloc(s) \/ \E c \in Counts : calloc(c, s)

Spec == Init /\ [][Next]_vars

(* When the traced program exits, fini logs the bytes the program's        *)
(* allocation calls requested and their average per call, and does not    *)
(* trap: a program that never allocates gets an average of 0, and a        *)
(* calloc counts count * size bytes.                                       *)
FiniStatistics ==
  pc = "exited" =>
    LET total == n_malloc + n_calloc + n_realloc
    IN  logged = [trap |-> FALSE, allocb |-> bytes,
                  avg |-> IF total = 0 THEN 0 ELSE bytes \div total]

====
