------------------------------ MODULE CacheSim ------------------------------
(***************************************************************************)
(* The cache simulator of src/lab04_cache/csim.c.  The cache is NSETS sets *)
(* of E blocks; each block has the valid bit, tag and LRU counter of the   *)
(* C struct `block`.  One step is one line of the trace as main's loop     *)
(* handles it: parse_line, access (find_match / find_empty / find_victim  *)
(* and lru_count) and the hit/miss/eviction tallies.  Argument parsing,    *)
(* file reading and printing are left out; a trace line is given by its   *)
(* operation character and its address.                                    *)
(*                                                                         *)
(* The blocks come from malloc (line 76) and only their counters are       *)
(* initialised (init_counter); when Garbage is TRUE the valid bits and     *)
(* tags start with whatever the allocator left in that memory.             *)
(***************************************************************************)
EXTENDS Integers, FiniteSets, FiniteSetsExt, SequencesExt

CONSTANTS
  S_BITS,    \* s: number of set index bits
  B_BITS,    \* b: number of block offset bits
  E,         \* associativity
  Addrs,     \* addresses that appear in the trace
  MaxLines,  \* bound on the number of trace lines read
  Garbage,   \* TRUE: malloc'ed blocks hold leftover valid bits and tags
  JunkTags   \* values a leftover tag word may hold

ASSUME S_BITS \in Nat /\ B_BITS \in Nat /\ E \in Nat \ {0}
ASSUME Addrs \subseteq Nat /\ MaxLines \in Nat /\ Garbage \in BOOLEAN

VARIABLES
  valid, tag, counter,          \* the blocks of every set
  hits, misses, evictions,      \* main's tallies
  op, addr,                     \* main's last parsed line (no line yet: -1)
  lines,                        \* trace lines read so far
  fault                         \* "exit" once the simulator exited

vars == <<valid, tag, counter, hits, misses, evictions, op, addr, lines, fault>>

NSETS == 2^S_BITS                 \* nsets = 1 << s
Sets == 0 .. NSETS - 1
Ways == 0 .. E - 1
Ops == {"I", "L", "S", "M"}       \* first characters of a trace line

(* parse_line (lines 179-209): an instruction line is skipped; L, S and M  *)
(* become the opcodes ld, st and md.                                       *)
parse_line(c) == CASE c = "L" -> "ld" [] c = "S" -> "st" [] c = "M" -> "md"
                   [] OTHER -> "skip"

(* hash (lines 296-302) and the tag of access (line 240).                  *)
hash(a) == (a \div 2^B_BITS) % NSETS
TagOf(a) == a \div 2^(S_BITS + B_BITS)

Tags == {TagOf(a) : a \in Addrs}

(* The three searches (lines 328-357) return the lowest index that         *)
(* matches, or -1.                                                         *)
FirstWay(W) == IF W = {} THEN -1 ELSE Min(W)
find_match(s, t) == FirstWay({w \in Ways : valid[s][w] = 1 /\ tag[s][w] = t})
find_empty(s) == FirstWay({w \in Ways : valid[s][w] = 0})
find_victim(s) == FirstWay({w \in Ways : counter[s][w] = 0})

\* Mutant: the used block is given counter E, one past the top.
LruCountPastTop(c, target) ==
  [w \in Ways |-> CASE w = target         -> E
                    [] c[w] > c[target]   -> c[w] - 1
                    [] OTHER              -> c[w]]

(* lru_count (lines 307-322): the blocks used more recently than target    *)
(* move down one place and target becomes the most recent, E - 1.          *)
lru_count(c, target) ==
  [w \in Ways |-> CASE w = target         -> E - 1
                    [] c[w] > c[target]   -> c[w] - 1
                    [] OTHER              -> c[w]]

\* Mutant: the counters are numbered from 1.
InitCounterFromOne == [s \in Sets |-> [w \in Ways |-> w + 1]]

(* init_counter (lines 215-223): block j of every set gets counter j.      *)
init_counter == [s \in Sets |-> [w \in Ways |-> w]]

Init ==
  /\ valid \in IF Garbage THEN [Sets -> [Ways -> {0, 1}]]
                          ELSE {[s \in Sets |-> [w \in Ways |-> 0]]}
  /\ tag \in IF Garbage THEN [Sets -> [Ways -> JunkTags]]
                        ELSE {[s \in Sets |-> [w \in Ways |-> 0]]}
  /\ counter = init_counter
  /\ hits = 0 /\ misses = 0 /\ evictions = 0
  /\ op = "none" /\ addr = -1
  /\ lines = 0
  /\ fault = "none"

Bonus(dbl) == IF dbl THEN 1 ELSE 0   \* a modify line hits a second time

\* Mutant: a hit does not refresh the block's LRU position.
HitNoCount(s, t, dbl) ==
  /\ find_match(s, t) >= 0
  /\ hits' = hits + 1 + Bonus(dbl)
  /\ UNCHANGED <<valid, tag, counter, misses, evictions, fault>>

(* Case 1 of access (lines 248-257).                                       *)
Hit(s, t, dbl) ==
  /\ find_match(s, t) >= 0
  /\ counter' = [counter EXCEPT ![s] = lru_count(@, find_match(s, t))]
  /\ hits' = hits + 1 + Bonus(dbl)
  /\ UNCHANGED <<valid, tag, misses, evictions, fault>>

(* Case 2 (lines 260-272): the first invalid block is filled.              *)
Fill(s, t, dbl) ==
  LET idx == find_empty(s)
  IN  /\ find_match(s, t) < 0
      /\ idx >= 0
      /\ valid' = [valid EXCEPT ![s][idx] = 1]
      /\ tag' = [tag EXCEPT ![s][idx] = t]
      /\ counter' = [counter EXCEPT ![s] = lru_count(@, idx)]
      /\ hits' = hits + Bonus(dbl)
      /\ misses' = misses + 1
      /\ UNCHANGED <<evictions, fault>>

(* Case 3 (lines 275-290): the block with counter 0 is replaced; when      *)
(* there is none the simulator exits (line 278).                           *)
Evict(s, t, dbl) ==
  LET idx == find_victim(s)
  IN  /\ find_match(s, t) < 0
      /\ find_empty(s) < 0
      /\ IF idx < 0
           THEN /\ fault' = "exit"
                /\ UNCHANGED <<valid, tag, counter, hits, misses, evictions>>
           ELSE /\ tag' = [tag EXCEPT ![s][idx] = t]
                /\ counter' = [counter EXCEPT ![s] = lru_count(@, idx)]
                /\ hits' = hits + Bonus(dbl)
                /\ misses' = misses + 1
                /\ evictions' = evictions + 1
                /\ UNCHANGED <<valid, fault>>

(* One trace line with a memory access: main's loop (lines 88-121) calls   *)
(* access and tallies its result.                                          *)
AccessLine(c, a) ==
  LET s == hash(a)
      t == TagOf(a)
      dbl == parse_line(c) = "md"
  IN  /\ fault = "none"
      /\ lines < MaxLines
      /\ parse_line(c) # "skip"
      /\ lines' = lines + 1
      /\ op' = parse_line(c) /\ addr' = a
      /\ \/ Hit(s, t, dbl)
         \/ Fill(s, t, dbl)
         \/ Evict(s, t, dbl)

(* A line parse_line rejects: `continue` (line 91).                        *)
SkipLine(c) ==
  /\ fault = "none"
  /\ lines < MaxLines
  /\ parse_line(c) = "skip"
  /\ lines' = lines + 1
  /\ UNCHANGED <<valid, tag, counter, hits, misses, evictions, op, addr, fault>>

Next ==
  \E c \in Ops :
    \/ SkipLine(c)
    \/ \E a \in Addrs : AccessLine(c, a)

Spec == Init /\ [][Next]_vars

(* ---------------------------------------------------------------------- *)
(* Refinement: the valid blocks of a set, in increasing counter order,     *)
(* are the abstract recency sequence.                                      *)
(* ---------------------------------------------------------------------- *)
ByRecency(s) ==
  SetToSortSeq({w \in Ways : valid[s][w] = 1},
               LAMBDA a, b : counter[s][a] < counter[s][b])
LruOf == [s \in Sets |-> [i \in DOMAIN ByRecency(s) |-> tag[s][ByRecency(s)[i]]]]

ReqOf == IF addr = -1 THEN [set |-> -1, tag |-> -1]
                       ELSE [set |-> hash(addr), tag |-> TagOf(addr)]

Abs == INSTANCE AbsLRU WITH NSETS <- NSETS, E <- E, Tags <- Tags,
         lru <- LruOf, hits <- hits, misses <- misses, evictions <- evictions,
         req <- ReqOf

(* ---------------------------------------------------------------------- *)
(* Properties.                                                             *)
(* ---------------------------------------------------------------------- *)
TypeOK ==
  /\ valid \in [Sets -> [Ways -> {0, 1}]]
  /\ tag \in [Sets -> [Ways -> Tags \cup JunkTags \cup {0}]]
  /\ counter \in [Sets -> [Ways -> Ways]]
  /\ {hits, misses, evictions} \subseteq 0 .. 2 * MaxLines
  /\ op \in {"none", "ld", "st", "md"}
  /\ addr \in Addrs \cup {-1}
  /\ lines \in 0 .. MaxLines
  /\ fault \in {"none", "exit"}

(* lru_count keeps the counters of every set a permutation of 0..E-1, so   *)
(* find_victim always finds the block with counter 0 and the "Cannot find  *)
(* victim" exit (line 278) is never taken.                                 *)
CountersPermute ==
  \A s \in Sets : {counter[s][w] : w \in Ways} = Ways

(* The simulator behaves as an LRU cache that starts cold: every hit is on *)
(* a tag loaded since the start, every miss evicts the least recently used *)
(* tag once the set is full, and the three tallies count exactly that.     *)
LRURefinement == Abs!Spec

=============================================================================
