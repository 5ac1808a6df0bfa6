------------------------------- MODULE AbsLRU -------------------------------
(***************************************************************************)
(* What the cache simulator of src/lab04_cache/csim.c promises: a cold     *)
(* cache of NSETS sets, each holding at most E tags and evicting the least *)
(* recently used one, and the hit/miss/eviction counts printed at the end. *)
(* Each set is the sequence of its cached tags in order of last use, the   *)
(* most recent last.                                                       *)
(***************************************************************************)
EXTENDS Integers, Sequences, SequencesExt

CONSTANTS NSETS, E, Tags

VARIABLES lru, hits, misses, evictions, req  \* req: the last access

Sets == 0 .. NSETS - 1

NoReq == [set |-> -1, tag |-> -1]

Init ==
  /\ lru = [s \in Sets |-> <<>>]
  /\ hits = 0 /\ misses = 0 /\ evictions = 0
  /\ req = NoReq

(* One access to tag t of set s; dbl is a modify (M) line, which hits a    *)
(* second time.                                                            *)
Access(s, t, dbl) ==
  LET l == lru[s]
      bonus == IF dbl THEN 1 ELSE 0
  IN  /\ req' = [set |-> s, tag |-> t]
      /\ \/ /\ t \in ToSet(l)
            /\ lru' = [lru EXCEPT ![s] = Remove(l, t) \o <<t>>]
            /\ hits' = hits + 1 + bonus
            /\ UNCHANGED <<misses, evictions>>
         \/ /\ t \notin ToSet(l)
            /\ Len(l) < E
            /\ lru' = [lru EXCEPT ![s] = l \o <<t>>]
            /\ hits' = hits + bonus /\ misses' = misses + 1
            /\ UNCHANGED evictions
         \/ /\ t \notin ToSet(l)
            /\ Len(l) = E
            /\ lru' = [lru EXCEPT ![s] = Tail(l) \o <<t>>]
            /\ hits' = hits + bonus /\ misses' = misses + 1
            /\ evictions' = evictions + 1

Next == \E s \in Sets, t \in Tags, dbl \in BOOLEAN : Access(s, t, dbl)

Spec == Init /\ [][Next]_<<lru, hits, misses, evictions, req>>

=============================================================================
