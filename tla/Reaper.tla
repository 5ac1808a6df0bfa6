------------------------------- MODULE Reaper -------------------------------
(***************************************************************************)
(* The SIGCHLD experiments of src/lab02_shell/tests: reap.c and           *)
(* foreground.c.  main sets count to the number of background jobs,       *)
(* installs ch_handler, forks them (and, in foreground.c, one foreground  *)
(* job it polls with waitpid(fgpid, WNOHANG)), and then sleeps in         *)
(* while (count > 0) pause();  ch_handler reaps every zombie with         *)
(* waitpid(-1, WNOHANG) and decrements count once per child reaped.       *)
(*                                                                         *)
(* The handler runs on main's stack, so main takes no step while it runs.  *)
(* signal() has BSD semantics on Linux: SIGCHLD is blocked while the       *)
(* handler runs and at most one instance is pending (signals do not        *)
(* queue).  A pending signal is delivered at some later return to user     *)
(* mode, which may fall between main's test of count and its pause().      *)
(* Init is the state after the fork loop: a child that exits during the    *)
(* loop is the same as one that exits right after it, since main reads     *)
(* count only afterwards.                                                  *)
(***************************************************************************)
EXTENDS Integers, FiniteSets

CONSTANTS
  Jobs,        \* the background children (N of them)
  HAS_FG,      \* TRUE for foreground.c, FALSE for reap.c
  FORK_FAILS   \* whether a fork() may return -1 (resources exhausted)

ASSUME HAS_FG \in BOOLEAN /\ FORK_FAILS \in BOOLEAN /\ IsFiniteSet(Jobs)

VARIABLES
  bg,       \* bg[j]: "run", "zombie", "reaped", or "nofork" when fork failed
  fg,       \* the foreground child, the same states, or "none" in reap.c
  count,    \* the static int count
  pending,  \* SIGCHLD is pending
  inh,      \* ch_handler is running
  pc        \* main: "fgwait", "test", "pause", "paused", "done"

vars == <<bg, fg, count, pending, inh, pc>>

Forked == IF FORK_FAILS THEN {"run", "nofork"} ELSE {"run"}

(* Children of main that waitpid(-1, ...) can still return.                *)
Zombies == {j \in Jobs : bg[j] = "zombie"} \cup (IF fg = "zombie" THEN {"fg"} ELSE {})
Running == {j \in Jobs : bg[j] = "run"} \cup (IF fg = "run" THEN {"fg"} ELSE {})

Reap(c) ==
  IF c = "fg" THEN fg' = "reaped" /\ UNCHANGED bg
  ELSE bg' = [bg EXCEPT ![c] = "reaped"] /\ UNCHANGED fg

(* count = N; signal(SIGCHLD, ch_handler); the fork loops.                 *)
Init ==
  /\ bg \in [Jobs -> Forked]
  /\ fg \in IF HAS_FG THEN Forked ELSE {"none"}
  /\ count = Cardinality(Jobs)
  /\ pending = FALSE
  /\ inh = FALSE
  /\ pc = IF HAS_FG THEN "fgwait" ELSE "test"

(* A child's sleep and exit(0): it becomes a zombie and SIGCHLD is raised. *)
ChildExit ==
  /\ \E c \in Running :
       IF c = "fg" THEN fg' = "zombie" /\ UNCHANGED bg
       ELSE bg' = [bg EXCEPT ![c] = "zombie"] /\ UNCHANGED fg
  /\ pending' = TRUE
  /\ UNCHANGED <<count, inh, pc>>

(* The kernel delivers the pending SIGCHLD and main enters ch_handler; a   *)
(* pause() in progress is interrupted and returns once the handler has.    *)
Deliver ==
  /\ pending /\ ~inh /\ pc # "done"
  /\ pending' = FALSE
  /\ inh' = TRUE
  /\ pc' = IF pc = "paused" THEN "test" ELSE pc
  /\ UNCHANGED <<bg, fg, count>>

(* One iteration of the handler's loop: waitpid(-1) returns a zombie.      *)
HandlerReap ==
  /\ inh
  /\ \E c \in Zombies : Reap(c)
  /\ count' = count - 1
  /\ UNCHANGED <<pending, inh, pc>>

(* waitpid returns 0 (children still running) or -1: the handler returns.  *)
HandlerReturn ==
  /\ inh /\ Zombies = {}
  /\ inh' = FALSE
  /\ UNCHANGED <<bg, fg, count, pending, pc>>

(* foreground.c: while (waitpid(fgpid, NULL, WNOHANG) >= 0).  With fgpid   *)
(* = -1 (fork failed) the call waits for any child.  A result of 0 (the    *)
(* child still runs) changes nothing; the loop is left on -1 (ECHILD).     *)
FgWait ==
  /\ ~inh /\ pc = "fgwait"
  /\ \/ /\ fg = "zombie"
        /\ fg' = "reaped"
        /\ UNCHANGED <<bg, pc>>
     \/ /\ fg = "nofork"
        /\ \E c \in Zombies : Reap(c)
        /\ UNCHANGED pc
     \/ /\ \/ fg = "reaped"
           \/ fg = "nofork" /\ Zombies = {} /\ Running = {}
        /\ pc' = "test"
        /\ UNCHANGED <<bg, fg>>
  /\ UNCHANGED <<count, pending, inh>>

(* while (count > 0): enter the body, or return 0.                         *)
Test ==
  /\ ~inh /\ pc = "test"
  /\ pc' = IF count > 0 THEN "pause" ELSE "done"
  /\ UNCHANGED <<bg, fg, count, pending, inh>>

(* pause(): main blocks until a signal is delivered.                       *)
Pause ==
  /\ ~inh /\ pc = "pause"
  /\ pc' = "paused"
  /\ UNCHANGED <<bg, fg, count, pending, inh>>

Next ==
  \/ ChildExit \/ Deliver \/ HandlerReap \/ HandlerReturn
  \/ FgWait \/ Test \/ Pause

Spec == Init /\ [][Next]_vars

(* ---------------------------------------------------------------------- *)
(* Properties.                                                             *)
(* ---------------------------------------------------------------------- *)

(* The reaping loop main ends with is right when main sleeps in pause()    *)
(* only while something can still wake it (a child still runs, or a        *)
(* SIGCHLD is pending), and returns ("All ended") only once every          *)
(* background job has ended.  A SIGCHLD handled between the test of count  *)
(* and pause() leaves main asleep for good; a handler that reaps the       *)
(* foreground child counts it as a background job.                         *)
WaitMatchesChildren ==
  /\ pc = "paused" => pending \/ Running # {}
  /\ pc = "done" => \A j \in Jobs : bg[j] # "run"

====
