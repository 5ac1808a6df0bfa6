---------------------------- MODULE MMSegHistory ----------------------------
(***************************************************************************)
(* MMSeg with a history variable recording the previous call, so that     *)
(* properties relating two consecutive calls can be stated as action      *)
(* properties.  `born` remembers, per client object, the byte count of    *)
(* the malloc that produced its pointer (0 once realloc has touched it).  *)
(***************************************************************************)
EXTENDS MMSeg

VARIABLES last, born

hvars == <<vars, last, born>>

NoCall == [op |-> "none", n |-> 0, addr |-> NULL]

InitH ==
  /\ Init
  /\ last = NoCall
  /\ born = [o \in Objs |-> 0]

NextH ==
  \E o \in Objs :
    \/ \E n \in Requests :
         /\ Malloc(o, n)
         /\ last' = [op |-> "malloc", n |-> n, addr |-> held'[o]]
         /\ born' = [born EXCEPT ![o] = n]
    \/ \E n \in Requests :
         /\ Realloc(o, n)
         /\ last' = [op |-> "realloc", n |-> n, addr |-> held'[o]]
         /\ born' = [born EXCEPT ![o] = 0]
    \/ /\ Free(o)
       /\ last' = [op |-> "free", n |-> born[o], addr |-> held[o]]
       /\ born' = [born EXCEPT ![o] = 0]

SpecH == InitH /\ [][NextH]_hvars

(* mm_malloc (and the malloc inside realloc) calls extend_heap only after  *)
(* find_fit has failed: whenever a call grows the heap, no free block that *)
(* existed before the call was large enough for the aligned request.  This *)
(* needs find_fit to scan every list from which_set(size) up and every     *)
(* block of each list, and the lists to hold every free block.  It reads   *)
(* only the `last` the step itself writes, so runs of it may fingerprint  *)
(* states by MMSeg's LiveView.                                             *)
HeapGrowsOnlyWhenNoFit ==
  [][ (last'.op \in {"malloc", "realloc"} /\ brk' > brk)
        => \A bp \in BlockSet :
             IsFree(bp) => SizeOf(bp) < ALIGN(last'.n + 2 * WSIZE) ]_hvars

=============================================================================
