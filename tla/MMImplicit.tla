------------------------------ MODULE MMImplicit ------------------------------
(***************************************************************************)
(* The implicit-list allocator of src/lab03_malloc/mm_implicit.c: boundary *)
(* tags, first fit over the whole heap, a split in place and immediate     *)
(* coalescing.  As in MMSeg, the heap is a map from word addresses to      *)
(* words, every C function is an operator on the machine state             *)
(*     [mem, brk, ret]                                                *)
(* built as a chain of stages in code order, and every address is         *)
(* computed from the memory as it is at that statement.                    *)
(*                                                                         *)
(* The caller is a set of client objects, each holding at most one         *)
(* pointer and the number of payload bytes it has defined, which hold the  *)
(* object's token.                                                         *)
(***************************************************************************)
EXTENDS Integers, Sequences, FiniteSets

CONSTANTS
  CHUNKSIZE,     \* bytes of a heap extension (1 << 12 in the code)
  MAX_HEAP,      \* bytes the heap driver (memlib) can hand out in total
  Objs,          \* client objects
  Requests,      \* byte counts passed to malloc and realloc
  SIZE_T_BYTES   \* sizeof(size_t) of the build: 4 or 8

ASSUME CHUNKSIZE % 8 = 0 /\ CHUNKSIZE >= 16 /\ MAX_HEAP % 8 = 0
ASSUME Objs \subseteq Nat \ {0} /\ Requests \subseteq Nat
ASSUME SIZE_T_BYTES \in {4, 8}

VARIABLES mem, brk, held, len

vars == <<mem, brk, held, len>>

(* Unit sizes and macros (lines 23-59).                                    *)
WSIZE == 4
DSIZE == 8
NULL == 0
FAIL == -1                          \* (void *)-1 from a failed mem_sbrk
SIZE_T_MOD == 2^30                  \* stands for 2^32 as in MMSeg
Addrs == {a \in 0 .. MAX_HEAP - 1 : a % WSIZE = 0}
Fuel == MAX_HEAP \div DSIZE         \* more than the number of blocks

ALIGN(size) == ((size + 7) \div 8) * 8
SIZE_T_SIZE == ALIGN(SIZE_T_BYTES)
PACK(size, alloc) == size + alloc
Get(m, p) == IF p \in DOMAIN m THEN m[p] ELSE 0
Put(m, p, val) == [m EXCEPT ![p] = val]
GET_SIZE(m, p) == Get(m, p) - (Get(m, p) % 8)
GET_ALLOC(m, p) == Get(m, p) % 2
HDRP(bp) == bp - WSIZE
FTRP(m, bp) == bp + GET_SIZE(m, HDRP(bp)) - DSIZE
NEXTBLKP(m, bp) == bp + GET_SIZE(m, HDRP(bp))
PREVFTRP(bp) == bp - DSIZE
PREVBLKP(m, bp) == bp - GET_SIZE(m, PREVFTRP(bp))
MaxOf(x, y) == IF x > y THEN x ELSE y
MinOf(x, y) == IF x < y THEN x ELSE y
USub(x, y) == IF x >= y THEN x - y ELSE (x - y) + SIZE_T_MOD

Ret(st, v) == [st EXCEPT !.ret = v]
WithMem(st, m) == [st EXCEPT !.mem = m]

(* The heap driver (memlib.c, not in the repository).                     *)
mem_sbrk(st, incr) ==
  IF st.brk + incr > MAX_HEAP
    THEN Ret(st, FAIL)
    ELSE Ret([st EXCEPT !.brk = st.brk + incr], st.brk)

(* Tag writes, each at the address the macro computes from memory m.       *)
PutHdr(m, bp, val) == Put(m, HDRP(bp), val)
PutFtr(m, bp, val) == Put(m, FTRP(m, bp), val)
PutPrevHdr(m, ptr, val) == Put(m, HDRP(PREVBLKP(m, ptr)), val)
PutNextHdr(m, ptr, val) == Put(m, HDRP(NEXTBLKP(m, ptr)), val)
PutNextFtr(m, ptr, val) == Put(m, FTRP(m, NEXTBLKP(m, ptr)), val)

(* ---------------------------------------------------------------------- *)
(* coalesce (lines 214-247).                                               *)
(* ---------------------------------------------------------------------- *)
RetPrev(s, ptr) == Ret(s, PREVBLKP(s.mem, ptr))

(* Case 2 (lines 225-230).                                                 *)
CoalescePrev(st, ptr, size) ==
  RetPrev(WithMem(st, PutPrevHdr(PutFtr(st.mem, ptr, size), ptr, size)), ptr)

(* Case 3 (lines 233-238): the header of ptr is rewritten first, so        *)
(* NEXTBLKP(ptr) on line 236 is computed from the merged size.             *)
CoalesceNext(st, ptr, size) ==
  Ret(WithMem(st, PutNextFtr(PutHdr(st.mem, ptr, size), ptr, size)), ptr)

(* Case 4 (lines 241-246).                                                 *)
CoalesceBoth(st, ptr, size) ==
  RetPrev(WithMem(st, PutNextFtr(PutPrevHdr(st.mem, ptr, size), ptr, size)), ptr)

coalesce(st, ptr) ==
  LET m == st.mem
      prev_alloc == GET_ALLOC(m, PREVFTRP(ptr))
      next_alloc == GET_ALLOC(m, HDRP(NEXTBLKP(m, ptr)))
      size == GET_SIZE(m, HDRP(ptr))
      prev_size == GET_SIZE(m, PREVFTRP(ptr))
      next_size == GET_SIZE(m, HDRP(NEXTBLKP(m, ptr)))
  IN  CASE prev_alloc = 1 /\ next_alloc = 1 -> Ret(st, ptr)
        [] prev_alloc = 0 /\ next_alloc = 1 -> CoalescePrev(st, ptr, size + prev_size)
        [] prev_alloc = 1 /\ next_alloc = 0 -> CoalesceNext(st, ptr, size + next_size)
        [] OTHER -> CoalesceBoth(st, ptr, size + prev_size + next_size)

(* ---------------------------------------------------------------------- *)
(* extend_heap (lines 190-209), find_fit (253-272), place (278-291).       *)
(* ---------------------------------------------------------------------- *)
ChunkTags(m, bp, size) ==
  PutNextHdr(PutFtr(PutHdr(m, bp, PACK(size, 0)), bp, PACK(size, 0)), bp, PACK(0, 1))

NewChunk(s1, size) ==
  IF s1.ret = FAIL THEN Ret(s1, NULL)
  ELSE coalesce(WithMem(s1, ChunkTags(s1.mem, s1.ret, size)), s1.ret)

extend_heap(st, words) ==
  NewChunk(mem_sbrk(st, IF words % 2 = 1 THEN (words + 1) * WSIZE
                                         ELSE words * WSIZE),
           IF words % 2 = 1 THEN (words + 1) * WSIZE ELSE words * WSIZE)

(* The walk from mem_heap_lo() + 2*WSIZE (the prologue) while the size in  *)
(* the header is positive.                                                 *)
RECURSIVE FitFrom(_, _, _, _)
FitFrom(m, bp, size, k) ==
  CASE GET_SIZE(m, HDRP(bp)) = 0 \/ k = 0                 -> NULL
    [] GET_ALLOC(m, HDRP(bp)) = 0 /\ GET_SIZE(m, HDRP(bp)) >= size -> bp
    [] OTHER                     -> FitFrom(m, NEXTBLKP(m, bp), size, k - 1)

find_fit(m, size) == FitFrom(m, 2 * WSIZE, size, Fuel)

\* The remainder's tags (lines 289-290); none when the fit is exact.
SplitRest(st, m, ptr, rest) ==
  IF rest = 0 THEN WithMem(st, m)
  ELSE WithMem(st, PutNextFtr(PutNextHdr(m, ptr, PACK(rest, 0)), ptr, PACK(rest, 0)))

place(st, ptr, size) ==
  SplitRest(st, PutFtr(PutHdr(st.mem, ptr, PACK(size, 1)), ptr, PACK(size, 1)), ptr,
            USub(GET_SIZE(st.mem, HDRP(ptr)), size))

(* ---------------------------------------------------------------------- *)
(* The public interface: mm_init (lines 74-98), mm_malloc (104-145),       *)
(* mm_free (152-163), mm_realloc (168-183).                                *)
(* ---------------------------------------------------------------------- *)
FirstBlock == 4 * WSIZE             \* the block after the prologue

\* The padding word, the prologue tags and the epilogue from heap_ptr on.
Prologue(m, hp) ==
  Put(Put(Put(Put(m, hp, 0), hp + WSIZE, PACK(8, 1)), hp + 2 * WSIZE, PACK(8, 1)),
      hp + 3 * WSIZE, PACK(0, 1))

InitDone(s2) == IF s2.ret = NULL THEN Ret(s2, -1) ELSE Ret(s2, 0)

InitHeap(s1) ==
  IF s1.ret = FAIL THEN Ret(s1, -1)
  ELSE InitDone(extend_heap(WithMem(s1, Prologue(s1.mem, s1.ret)),
                            CHUNKSIZE \div WSIZE))

mm_init(st) == InitHeap(mem_sbrk(st, 4 * WSIZE))

MallocExtended(ext, newsize) ==
  IF ext.ret = NULL THEN ext ELSE Ret(place(ext, ext.ret, newsize), ext.ret)

MallocFit(st, newsize, fit) ==
  IF fit # NULL THEN Ret(place(st, fit, newsize), fit)
  ELSE MallocExtended(extend_heap(st, MaxOf(newsize, CHUNKSIZE) \div WSIZE), newsize)

mm_malloc(st, size) ==
  LET newsize == IF size <= 2 * WSIZE THEN 4 * WSIZE ELSE ALIGN(size + 2 * WSIZE)
  IN  IF size = 0 THEN Ret(st, NULL)
      ELSE MallocFit(st, newsize, find_fit(st.mem, newsize))

mm_free(st, bp) ==
  LET size == GET_SIZE(st.mem, HDRP(bp))
  IN  coalesce(WithMem(st, PutFtr(PutHdr(st.mem, bp, PACK(size, 0)),
                                  bp, PACK(size, 0))), bp)

(* The size_t that line 177 reads at p.  With a 4-byte size_t it is the    *)
(* word at p; with an 8-byte one the word at p + 4 is its high half, so a  *)
(* non-zero word there makes it at least 2^32, more than any request.      *)
ReadSizeT(m, p) ==
  IF SIZE_T_BYTES = 4 \/ Get(m, p + WSIZE) = 0 THEN Get(m, p) ELSE SIZE_T_MOD

(* memcpy(dst, src, n) on the word memory, word by word.                   *)
memcpy(m, dst, src, n) ==
  [a \in DOMAIN m |-> IF dst <= a /\ a < dst + n THEN Get(m, src + (a - dst))
                                                  ELSE m[a]]

(* Lines 175-182 once mm_malloc returned s1.ret: copySize is read from     *)
(* the SIZE_T_SIZE bytes before oldptr, in the memory after the malloc.    *)
CopyAndFree(s1, oldptr, size) ==
  IF s1.ret = NULL THEN s1
  ELSE Ret(mm_free(WithMem(s1, memcpy(s1.mem, s1.ret, oldptr,
                   MinOf(size, ReadSizeT(s1.mem, oldptr - SIZE_T_SIZE)))), oldptr),
           s1.ret)

mm_realloc(st, ptr, size) == CopyAndFree(mm_malloc(st, size), ptr, size)

(* ---------------------------------------------------------------------- *)
(* The caller: one call of the interface per step, run to completion.     *)
(* ---------------------------------------------------------------------- *)
Boot == [mem |-> [a \in Addrs |-> 0], brk |-> 0, ret |-> NULL]
Booted == mm_init(Boot)
St == [mem |-> mem, brk |-> brk, ret |-> NULL]

Token(o) == 4096 * o + 3
Fill(m, p, n, v) == [a \in DOMAIN m |-> IF p <= a /\ a < p + n THEN v ELSE m[a]]

Init ==
  /\ Booted.ret = 0
  /\ mem = Booted.mem
  /\ brk = Booted.brk
    /\ held = [o \in Objs |-> NULL]
  /\ len = [o \in Objs |-> 0]

\* The client fills the n bytes it asked for.
MallocReturned(o, n, s) ==
  /\ mem' = IF s.ret # NULL THEN Fill(s.mem, s.ret, n, Token(o)) ELSE s.mem
  /\ brk' = s.brk
  /\ held' = [held EXCEPT ![o] = s.ret]
  /\ len' = [len EXCEPT ![o] = IF s.ret # NULL THEN n ELSE 0]

Malloc(o, n) ==
  /\ held[o] = NULL
  /\ MallocReturned(o, n, mm_malloc(St, n))

Free(o) ==
  /\ held[o] # NULL
  /\ mem' = mm_free(St, held[o]).mem
  /\ held' = [held EXCEPT ![o] = NULL]
  /\ len' = [len EXCEPT ![o] = 0]
  /\ UNCHANGED brk

(* realloc of a held pointer; the client expects the first min(len, n)     *)
(* bytes to survive.  A NULL result (n = 0, or no heap left) is stored,    *)
(* as p = realloc(p, n) does.                                              *)
ReallocReturned(o, n, s) ==
  /\ mem' = s.mem
  /\ brk' = s.brk
  /\ held' = [held EXCEPT ![o] = s.ret]
  /\ len' = [len EXCEPT ![o] = IF s.ret = NULL THEN 0 ELSE MinOf(n, len[o])]

Realloc(o, n) ==
  /\ held[o] # NULL
  /\ ReallocReturned(o, n, mm_realloc(St, held[o], n))

Next ==
  \E o \in Objs :
    \/ \E n \in Requests : Malloc(o, n)
    \/ \E n \in Requests : Realloc(o, n)
    \/ Free(o)

Spec == Init /\ [][Next]_vars

(* ---------------------------------------------------------------------- *)
(* Views of the heap used by the properties.                               *)
(* ---------------------------------------------------------------------- *)
RECURSIVE BlocksFrom(_, _, _)
BlocksFrom(m, bp, k) ==
  IF k = 0 \/ GET_SIZE(m, HDRP(bp)) = 0 THEN <<>>
  ELSE <<bp>> \o BlocksFrom(m, NEXTBLKP(m, bp), k - 1)

Blocks == BlocksFrom(mem, FirstBlock, Fuel)
BlockSet == {Blocks[i] : i \in DOMAIN Blocks}
IsFree(bp) == GET_ALLOC(mem, HDRP(bp)) = 0
SizeOf(bp) == GET_SIZE(mem, HDRP(bp))
HeapEnd == IF Blocks = <<>> THEN FirstBlock ELSE NEXTBLKP(mem, Blocks[Len(Blocks)])

(* ---------------------------------------------------------------------- *)
(* Properties.                                                             *)
(* ---------------------------------------------------------------------- *)
TypeOK ==
  /\ mem \in [Addrs -> Nat]
  /\ brk \in 0 .. MAX_HEAP
  /\ held \in [Objs -> {NULL} \cup Addrs]
  /\ len \in [Objs -> Requests \cup {0}]

(* The heap as mm_check_implicit walks it: the prologue tags are intact,   *)
(* NEXTBLKP from the first block reaches the epilogue header exactly at    *)
(* brk, and every block is 8-aligned, at least 8 bytes (a split can leave  *)
(* a free block of just its two tags) and has a footer equal to its        *)
(* header.  coalesce reads a neighbour's size and allocation bit from      *)
(* these footers, so a wrong footer goes on to misplace later merges.      *)
HeapWellFormed ==
  /\ Get(mem, WSIZE) = PACK(8, 1) /\ Get(mem, 2 * WSIZE) = PACK(8, 1)
  /\ HeapEnd = brk
  /\ Get(mem, HDRP(brk)) = PACK(0, 1)
  /\ \A bp \in BlockSet :
       /\ bp % DSIZE = 0
       /\ SizeOf(bp) >= DSIZE
       /\ Get(mem, HDRP(bp)) = Get(mem, FTRP(mem, bp))

(* Every pointer the client holds is the payload of an allocated block     *)
(* with room for the bytes it defined, and those bytes hold what it        *)
(* stored: live blocks never overlap, tags are never written into a live   *)
(* payload, and realloc keeps the first min(old, new) bytes.               *)
ClientDataIntact ==
  \A o \in Objs : held[o] # NULL =>
    /\ held[o] \in BlockSet
    /\ ~IsFree(held[o])
    /\ SizeOf(held[o]) - DSIZE >= len[o]
    /\ \A a \in Addrs : held[o] <= a /\ a < held[o] + len[o] => mem[a] = Token(o)

(* Immediate coalescing: no two blocks next to each other are both free.   *)
NoAdjacentFree ==
  \A i \in 1 .. Len(Blocks) - 1 : ~(IsFree(Blocks[i]) /\ IsFree(Blocks[i + 1]))

(* The words the allocator or the client can still read: the prologue,    *)
(* the epilogue, the tags of every block and the defined bytes of held     *)
(* blocks.  Stale payload is only ever overwritten or copied into other    *)
(* stale payload, except that realloc's copy may read past the old         *)
(* payload; words it reads that way are tags or stale payload, and none    *)
(* of the properties looks at stale payload.                               *)
LiveWords ==
  {WSIZE, 2 * WSIZE, HDRP(brk)}
  \cup UNION {{HDRP(bp), FTRP(mem, bp)} : bp \in BlockSet}
  \cup UNION {{a \in Addrs : held[o] <= a /\ a < held[o] + len[o]} : o \in Objs}

LiveView ==
  <<[a \in Addrs |-> IF a \in LiveWords THEN mem[a] ELSE 0], brk, held, len>>

====
