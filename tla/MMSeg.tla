-------------------------------- MODULE MMSeg --------------------------------
(***************************************************************************)
(* The segregated-free-list allocator of src/lab03_malloc/mm_2018-15515.c. *)
(*                                                                         *)
(* The heap is modelled at the granularity the code works at: a function   *)
(* `mem` from word addresses (offsets from mem_heap_lo()) to the unsigned  *)
(* word stored there.  Boundary tags, free-list links and the NSETS list   *)
(* roots all live in `mem`, exactly where the macros HDRP, FTRP, NEXTBLKP, *)
(* PREVBLKP, GETNEXT and SETNEXT put them, so a wrong address computed by  *)
(* the code corrupts the model's heap the way it corrupts the real one.    *)
(*                                                                         *)
(* Every C function is an operator from a machine state                    *)
(*     [mem, brk, fault, ret]                                              *)
(* to the machine state after it returns; `ret` is its return value and    *)
(* `fault` records that the process died: "exit" for the exit(1) calls in  *)
(* pop/pop_block/which_set, "hang" for a walk around a cyclic free list,   *)
(* "segv" for a store through NULL.  Statements are composed in the order  *)
(* the code runs them, every address computed from the memory as it is at  *)
(* that statement.                                                         *)
(*                                                                         *)
(* The caller (a trace-driven driver, not part of this repository) is a    *)
(* set of client objects Objs, each holding at most one pointer returned   *)
(* by the allocator.  After malloc the client fills the bytes it asked for *)
(* with its own token, so any write of the allocator into live payload,    *)
(* any overlap of two live blocks, and any loss of content by realloc      *)
(* shows up as a token that is no longer there.                            *)
(***************************************************************************)
EXTENDS Integers, Sequences, FiniteSets

CONSTANTS
  CHUNKSIZE,  \* bytes of a heap extension (1 << 12 in the code, scaled down)
  NSETS,      \* number of segregated lists (15 in the code)
  MAX_HEAP,   \* bytes the heap driver (memlib) can hand out in total
  Objs,       \* client objects: the caller's pointer variables
  Requests    \* byte counts the caller passes to malloc/realloc

ASSUME CHUNKSIZE \in Nat /\ CHUNKSIZE % 8 = 0 /\ CHUNKSIZE >= 16
ASSUME NSETS \in Nat \ {0}
ASSUME MAX_HEAP % 8 = 0 /\ MAX_HEAP >= (NSETS + 5) * 4 + CHUNKSIZE
ASSUME Objs \subseteq Nat \ {0} /\ Requests \subseteq Nat

VARIABLES
  mem,    \* word address -> stored word
  brk,    \* mem_brk of the heap driver: first byte not yet handed out
  fault,  \* "none" or how the process died
  held,   \* client object -> pointer it holds (NULL when none)
  len     \* client object -> number of payload bytes whose content it defined

vars == <<mem, brk, fault, held, len>>

(* ---------------------------------------------------------------------- *)
(* Unit sizes and macros (lines 17-56).                                    *)
(* ---------------------------------------------------------------------- *)
WSIZE == 4
DSIZE == 8
NULL == 0
FAIL == -1                         \* (void *)-1 returned by a failed mem_sbrk
HANG == -2                         \* a list walk that never reaches NULL
\* size_t wraps modulo 2^32; TLC integers stop below 2^31, and a wrapped
\* value only has to exceed every heap address, so 2^30 stands for 2^32.
SIZE_T_MOD == 2^30
Addrs == {a \in 0 .. MAX_HEAP - 1 : a % WSIZE = 0}
Fuel == MAX_HEAP \div (4 * WSIZE)  \* more than the number of blocks that fit

ALIGN(size) == ((size + 7) \div 8) * 8
PACK(size, alloc) == size + alloc
Get(m, p) == IF p \in DOMAIN m THEN m[p] ELSE 0
Put(m, p, val) == [m EXCEPT ![p] = val]
GET_SIZE(m, p) == Get(m, p) - (Get(m, p) % 8)
GET_ALLOC(m, p) == Get(m, p) % 2
GETNEXT(m, bp) == Get(m, bp)
SETNEXT(m, bp, next) == Put(m, bp, next)
HDRP(bp) == bp - WSIZE
FTRP(m, bp) == bp + GET_SIZE(m, HDRP(bp)) - DSIZE
NEXTBLKP(m, bp) == bp + GET_SIZE(m, HDRP(bp))
PREVFTRP(bp) == bp - DSIZE
PREVBLKP(m, bp) == bp - GET_SIZE(m, PREVFTRP(bp))
MaxOf(x, y) == IF x > y THEN x ELSE y
USub(x, y) == IF x >= y THEN x - y ELSE (x - y) + SIZE_T_MOD  \* size_t x - y

\* The root word of list setno: the setno-th word from mem_heap_lo().
Root(setno) == WSIZE * setno

(* Machine-state helpers.                                                  *)
Ret(st, v) == [st EXCEPT !.ret = v]
WithMem(st, m) == [st EXCEPT !.mem = m]
Abort(st) == [st EXCEPT !.fault = "exit"]

(* ---------------------------------------------------------------------- *)
(* The heap driver (memlib.c, not part of this repository).                *)
(* ---------------------------------------------------------------------- *)
mem_sbrk(st, incr) ==
  IF st.brk + incr > MAX_HEAP
    THEN Ret(st, FAIL)
    ELSE Ret([st EXCEPT !.brk = st.brk + incr], st.brk)

(* ---------------------------------------------------------------------- *)
(* Segregated list management (lines 409-503).                             *)
(* ---------------------------------------------------------------------- *)
RECURSIVE WhichSetFrom(_, _, _)
WhichSetFrom(size, setno, limit) ==
  IF setno < NSETS - 1 /\ size > limit
    THEN WhichSetFrom(size, setno + 1, 2 * limit)
    ELSE setno

which_set(size) == WhichSetFrom(size, 0, 32)

add(st, setno, block) ==
  LET first == Get(st.mem, Root(setno))
  IN  WithMem(st, Put(SETNEXT(st.mem, block, first), Root(setno), block))

add_block(st, block, size) ==
  IF size = 0 THEN Abort(st) ELSE add(st, which_set(size), block)

(* The loop of pop: the node whose link is `block`, NULL when the list     *)
(* ends first, HANG when it does not end within Fuel nodes.                *)
RECURSIVE PredOf(_, _, _, _)
PredOf(m, prev, block, k) ==
  CASE GETNEXT(m, prev) = block -> prev
    [] GETNEXT(m, prev) = NULL  -> NULL
    [] k = 0                    -> HANG
    [] OTHER                    -> PredOf(m, GETNEXT(m, prev), block, k - 1)

pop(st, setno, block) ==
  LET m    == st.mem
      prev == Get(m, Root(setno))
      pred == PredOf(m, prev, block, Fuel)
  IN  CASE prev = NULL  -> Abort(st)
        [] prev = block -> WithMem(st, Put(m, Root(setno), GETNEXT(m, prev)))
        [] pred = NULL  -> Abort(st)
        [] pred = HANG  -> [st EXCEPT !.fault = "hang"]
        [] OTHER        -> WithMem(st, SETNEXT(m, pred, GETNEXT(m, block)))

pop_block(st, block, size) ==
  IF size = 0 THEN Abort(st) ELSE pop(st, which_set(size), block)

(* ---------------------------------------------------------------------- *)
(* find_fit (lines 320-344): first fit in list which_set(size), then in    *)
(* each larger list.                                                       *)
(* ---------------------------------------------------------------------- *)
(* Mutant: only the head of each list is tried.                          *)
FitInHeadOnly(m, bp, size, k) ==
  IF bp # NULL /\ GET_SIZE(m, HDRP(bp)) >= size THEN bp ELSE NULL

RECURSIVE FitIn(_, _, _, _)
FitIn(m, bp, size, k) ==
  CASE bp = NULL \/ k = 0            -> NULL
    [] GET_SIZE(m, HDRP(bp)) >= size -> bp
    [] OTHER                         -> FitIn(m, GETNEXT(m, bp), size, k - 1)

RECURSIVE FitFrom(_, _, _)
FitFrom(m, setno, size) ==
  IF setno >= NSETS THEN NULL
  ELSE LET bp == FitIn(m, Get(m, Root(setno)), size, Fuel)
       IN  IF bp # NULL THEN bp ELSE FitFrom(m, setno + 1, size)

find_fit(m, size) == FitFrom(m, which_set(size), size)

(* ---------------------------------------------------------------------- *)
(* Tag writes.  Each writes a word at the address a macro computes from    *)
(* the memory being written, i.e. from the tags as they are at that        *)
(* statement.  The C functions below are chains of stages: every stage     *)
(* takes the state left by the one before as an argument, the statements  *)
(* of the code in the order they run.                                      *)
(* ---------------------------------------------------------------------- *)
PutHdr(m, bp, val) == Put(m, HDRP(bp), val)
PutFtr(m, bp, val) == Put(m, FTRP(m, bp), val)
PutPrevHdr(m, ptr, val) == Put(m, HDRP(PREVBLKP(m, ptr)), val)
PutNextHdr(m, ptr, val) == Put(m, HDRP(NEXTBLKP(m, ptr)), val)
PutNextFtr(m, ptr, val) == Put(m, FTRP(m, NEXTBLKP(m, ptr)), val)

(* ---------------------------------------------------------------------- *)
(* coalesce (lines 256-314): one operator per case; each returns the       *)
(* merged block in `ret`.                                                  *)
(* ---------------------------------------------------------------------- *)
\* The end of every case: ptr = ...; add_block(ptr, size); return ptr.
AddMerged(st, bp, size) == Ret(add_block(st, bp, size), bp)
AddMergedAtPrev(st, ptr, size) == AddMerged(st, PREVBLKP(st.mem, ptr), size)

CoalesceNone(st, ptr, size) == AddMerged(st, ptr, size)

\* Case 2 after the pop: footer at FTRP(ptr), then header at PREVBLKP(ptr).
PrevMerge(s1, ptr, size) ==
  AddMergedAtPrev(WithMem(s1, PutPrevHdr(PutFtr(s1.mem, ptr, PACK(size, 0)),
                                         ptr, PACK(size, 0))), ptr, size)

CoalescePrev(st, ptr, size) ==
  LET prev_size == GET_SIZE(st.mem, HDRP(PREVBLKP(st.mem, ptr)))
  IN  PrevMerge(pop_block(st, PREVBLKP(st.mem, ptr), prev_size),
                ptr, size + prev_size)

\* Mutant: the footer address is taken before the header is enlarged.
NextMergeStaleFooter(s1, ptr, size) ==
  AddMerged(WithMem(s1, Put(PutHdr(s1.mem, ptr, PACK(size, 0)),
                            FTRP(s1.mem, ptr), PACK(size, 0))), ptr, size)

\* Case 3 after the pop: header at HDRP(ptr), then footer at FTRP(ptr).
NextMerge(s1, ptr, size) ==
  AddMerged(WithMem(s1, PutFtr(PutHdr(s1.mem, ptr, PACK(size, 0)),
                               ptr, PACK(size, 0))), ptr, size)

CoalesceNext(st, ptr, size) ==
  LET next_size == GET_SIZE(st.mem, HDRP(NEXTBLKP(st.mem, ptr)))
  IN  NextMerge(pop_block(st, NEXTBLKP(st.mem, ptr), next_size),
                ptr, size + next_size)

\* Case 4 after both pops: header at PREVBLKP(ptr), footer at
\* FTRP(NEXTBLKP(ptr)) as computed after the header write.
BothMerge(s2, ptr, size) ==
  AddMergedAtPrev(WithMem(s2, PutNextFtr(PutPrevHdr(s2.mem, ptr, PACK(size, 0)),
                                         ptr, PACK(size, 0))), ptr, size)

\* Case 4 between the pops: the next block is found in the memory the
\* first pop left.
BothPopNext(s1, ptr, size) ==
  LET next_size == GET_SIZE(s1.mem, HDRP(NEXTBLKP(s1.mem, ptr)))
  IN  BothMerge(pop_block(s1, NEXTBLKP(s1.mem, ptr), next_size),
                ptr, size + next_size)

CoalesceBoth(st, ptr, size) ==
  LET prev_size == GET_SIZE(st.mem, PREVFTRP(ptr))
  IN  BothPopNext(pop_block(st, PREVBLKP(st.mem, ptr), prev_size),
                  ptr, size + prev_size)

coalesce(st, ptr) ==
  LET prev_alloc == GET_ALLOC(st.mem, PREVFTRP(ptr))
      next_alloc == GET_ALLOC(st.mem, HDRP(NEXTBLKP(st.mem, ptr)))
      size == GET_SIZE(st.mem, HDRP(ptr))
  IN  CASE prev_alloc = 1 /\ next_alloc = 1 -> CoalesceNone(st, ptr, size)
        [] prev_alloc = 0 /\ next_alloc = 1 -> CoalescePrev(st, ptr, size)
        [] prev_alloc = 1 /\ next_alloc = 0 -> CoalesceNext(st, ptr, size)
        [] OTHER                            -> CoalesceBoth(st, ptr, size)

(* ---------------------------------------------------------------------- *)
(* extend_heap (lines 234-254): the new chunk overwrites the old epilogue  *)
(* header, gets a new epilogue behind it and is coalesced.                 *)
(* ---------------------------------------------------------------------- *)
ChunkTags(m, bp, size) ==
  PutNextHdr(PutFtr(SETNEXT(PutHdr(m, bp, PACK(size, 0)), bp, NULL),
                    bp, PACK(size, 0)), bp, PACK(0, 1))

\* Mutant: the (void *)-1 result of a failed mem_sbrk is not checked.
NewChunkNoCheck(s1, size) ==
  coalesce(WithMem(s1, ChunkTags(s1.mem, s1.ret, size)), s1.ret)

\* extend_heap after mem_sbrk returned s1.ret.
NewChunk(s1, size) ==
  IF s1.ret = FAIL THEN Ret(s1, NULL)
  ELSE coalesce(WithMem(s1, ChunkTags(s1.mem, s1.ret, size)), s1.ret)

extend_heap(st, words) ==
  LET size == IF words % 2 = 1 THEN (words + 1) * WSIZE ELSE words * WSIZE
  IN  NewChunk(mem_sbrk(st, size), size)

(* ---------------------------------------------------------------------- *)
(* place and increase (lines 350-404).                                     *)
(* ---------------------------------------------------------------------- *)
\* The remaining block behind an allocated one: header, footer, add_block.
RestBlock(st, m, nb, rest) ==
  add_block(WithMem(st, PutFtr(PutHdr(m, nb, PACK(rest, 0)), nb, PACK(rest, 0))),
            nb, rest)

\* After the allocated block's tags are written to m: done if rest = 0.
SplitRest(st, m, ptr, rest) ==
  IF rest = 0 THEN WithMem(st, m) ELSE RestBlock(st, m, NEXTBLKP(m, ptr), rest)

(* The common tail of place and increase (lines 363-373, 394-404): mark    *)
(* `size` bytes at ptr allocated and, when rest > 0, make the bytes behind *)
(* them a free block and add it to its list.                               *)
Split(st, ptr, size, rest) ==
  SplitRest(st, PutFtr(PutHdr(st.mem, ptr, PACK(size, 1)), ptr, PACK(size, 1)),
            ptr, rest)

(* Mutant: a block taken from a free list is not popped from it.         *)
PlaceNoPop(st, ptr, size, was_free) ==
  LET blocksize == GET_SIZE(st.mem, HDRP(ptr))
      rest == USub(blocksize, size)
  IN  IF rest < 4 * WSIZE THEN Split(st, ptr, blocksize, 0)
                          ELSE Split(st, ptr, size, rest)

(* Mutant: the block is popped from the list of the requested size.       *)
PlacePopRequested(st, ptr, size, was_free) ==
  LET blocksize == GET_SIZE(st.mem, HDRP(ptr))
      rest == USub(blocksize, size)
      s1 == IF was_free THEN pop_block(st, ptr, size) ELSE st
  IN  IF rest < 4 * WSIZE THEN Split(s1, ptr, blocksize, 0)
                          ELSE Split(s1, ptr, size, rest)

place(st, ptr, size, was_free) ==
  LET blocksize == GET_SIZE(st.mem, HDRP(ptr))
      rest == USub(blocksize, size)
      s1 == IF was_free THEN pop_block(st, ptr, blocksize) ELSE st
  IN  IF rest < 4 * WSIZE THEN Split(s1, ptr, blocksize, 0)
                          ELSE Split(s1, ptr, size, rest)

increase(st, ptr, size) ==
  LET block_size == GET_SIZE(st.mem, HDRP(ptr))
      nextblock_size == GET_SIZE(st.mem, HDRP(NEXTBLKP(st.mem, ptr)))
      rest == USub(block_size + nextblock_size, size)
      s1 == pop_block(st, NEXTBLKP(st.mem, ptr), nextblock_size)
  IN  IF rest < 4 * WSIZE THEN Split(s1, ptr, block_size + nextblock_size, 0)
                          ELSE Split(s1, ptr, size, rest)

(* ---------------------------------------------------------------------- *)
(* The public interface (lines 84-227).                                    *)
(* ---------------------------------------------------------------------- *)
FirstBlock == (NSETS + 5) * WSIZE   \* payload address of the first block

\* The NSETS null roots, prologue header, payload, footer and epilogue
\* written from heappt = hp on.
Prologue(m, hp) ==
  LET pro == hp + NSETS * WSIZE
      roots == [a \in DOMAIN m |-> IF hp <= a /\ a < pro THEN 0 ELSE m[a]]
  IN  Put(Put(Put(Put(Put(roots, pro, PACK(16, 1)), pro + WSIZE, 0),
          pro + 2 * WSIZE, 0), pro + 3 * WSIZE, PACK(16, 1)),
          pro + 4 * WSIZE, PACK(0, 1))

InitDone(s2) == IF s2.ret = NULL THEN Ret(s2, -1) ELSE Ret(s2, 0)

InitHeap(s1) ==
  IF s1.ret = FAIL THEN Ret(s1, -1)
  ELSE InitDone(extend_heap(WithMem(s1, Prologue(s1.mem, s1.ret)),
                            CHUNKSIZE \div WSIZE))

mm_init(st) == InitHeap(mem_sbrk(st, (NSETS + 5) * WSIZE))

\* mm_malloc after the heap was extended for want of a fit.
MallocExtended(ext, newsize) ==
  IF ext.ret = NULL THEN Ret(ext, NULL)
  ELSE Ret(place(ext, ext.ret, newsize, TRUE), ext.ret)

\* mm_malloc after find_fit returned fit.
MallocFit(st, newsize, fit) ==
  IF fit # NULL THEN Ret(place(st, fit, newsize, TRUE), fit)
  ELSE MallocExtended(extend_heap(st, MaxOf(newsize, CHUNKSIZE) \div WSIZE),
                      newsize)

mm_malloc(st, size) ==
  LET newsize == ALIGN(size + 2 * WSIZE)
  IN  IF size = 0 THEN Ret(st, NULL)
      ELSE MallocFit(st, newsize, find_fit(st.mem, newsize))

mm_free(st, bp) ==
  LET size == GET_SIZE(st.mem, HDRP(bp))
  IN  coalesce(WithMem(st, PutFtr(PutHdr(st.mem, bp, PACK(size, 0)),
                                  bp, PACK(size, 0))), bp)

(* memmove(dst, src, n) on the word memory: each word of the destination   *)
(* range takes the word at the same offset of the source range, read from  *)
(* the memory before the copy.                                             *)
memmove(m, dst, src, n) ==
  [a \in DOMAIN m |-> IF dst <= a /\ a < dst + n THEN Get(m, src + (a - dst))
                                                  ELSE m[a]]

\* The copy into newptr as the last step.
CopyInto(s2, newptr, bp, size) ==
  Ret(WithMem(s2, memmove(s2.mem, newptr, bp, size)), newptr)

(* Mutant: the old block is freed before its content is copied.         *)
MoveToFreeFirst(s1, bp, size) ==
  IF s1.ret = NULL THEN [s1 EXCEPT !.fault = "segv"]
  ELSE CopyInto(mm_free(s1, bp), s1.ret, bp, size)

(* Case 3-2 of mm_realloc (lines 222-226) after mm_malloc returned         *)
(* s1.ret: it is used without checking it for NULL.                        *)
MoveTo(s1, bp, size) ==
  IF s1.ret = NULL THEN [s1 EXCEPT !.fault = "segv"]
  ELSE Ret(mm_free(WithMem(s1, memmove(s1.mem, s1.ret, bp, size)), bp), s1.ret)

ReallocMove(st, bp, size) == MoveTo(mm_malloc(st, size), bp, size)

mm_realloc(st, bp, size) ==
  LET orig_size == GET_SIZE(st.mem, HDRP(bp))
      newsize == ALIGN(size + 2 * WSIZE)
      nb == NEXTBLKP(st.mem, bp)
  IN  CASE bp = NULL                -> mm_malloc(st, size)
        [] size = 0                 -> Ret(mm_free(st, bp), NULL)
        [] newsize = orig_size      -> Ret(st, bp)
        [] newsize < orig_size      -> Ret(place(st, bp, newsize, FALSE), bp)
        [] GET_ALLOC(st.mem, HDRP(nb)) = 0
             /\ orig_size + GET_SIZE(st.mem, HDRP(nb)) >= newsize
                                    -> Ret(increase(st, bp, newsize), bp)
        [] OTHER                    -> ReallocMove(st, bp, size)

(* ---------------------------------------------------------------------- *)
(* The caller: one step is one call of the public interface, run to       *)
(* completion (the allocator is single-threaded).                          *)
(* ---------------------------------------------------------------------- *)
Boot == [mem |-> [a \in Addrs |-> 0], brk |-> 0, fault |-> "none", ret |-> NULL]
Booted == mm_init(Boot)
St == [mem |-> mem, brk |-> brk, fault |-> fault, ret |-> NULL]

(* The content the client stores in the payload of object o.               *)
Token(o) == 4096 * o + 3
Fill(m, p, n, v) == [a \in DOMAIN m |-> IF p <= a /\ a < p + n THEN v ELSE m[a]]

Init ==
  /\ Booted.ret = 0
  /\ mem = Booted.mem
  /\ brk = Booted.brk
  /\ fault = Booted.fault
  /\ held = [o \in Objs |-> NULL]
  /\ len = [o \in Objs |-> 0]

\* The caller's bookkeeping once mm_malloc returned state s: it fills the
\* n bytes it asked for.
MallocReturned(o, n, s) ==
  /\ mem' = IF s.ret # NULL THEN Fill(s.mem, s.ret, n, Token(o)) ELSE s.mem
  /\ brk' = s.brk
  /\ fault' = s.fault
  /\ held' = [held EXCEPT ![o] = s.ret]
  /\ len' = [len EXCEPT ![o] = IF s.ret # NULL THEN n ELSE 0]

Malloc(o, n) ==
  /\ fault = "none"
  /\ held[o] = NULL
  /\ MallocReturned(o, n, mm_malloc(St, n))

FreeReturned(o, s) ==
  /\ mem' = s.mem
  /\ brk' = s.brk
  /\ fault' = s.fault
  /\ held' = [held EXCEPT ![o] = NULL]
  /\ len' = [len EXCEPT ![o] = 0]

Free(o) ==
  /\ fault = "none"
  /\ held[o] # NULL
  /\ FreeReturned(o, mm_free(St, held[o]))

(* realloc of a held pointer keeps the first min(len, n) bytes defined;    *)
(* realloc of NULL is a malloc, after which the client fills the block.    *)
ReallocReturned(o, n, s) ==
  LET fresh == held[o] = NULL /\ s.ret # NULL
  IN  /\ mem' = IF fresh THEN Fill(s.mem, s.ret, n, Token(o)) ELSE s.mem
      /\ brk' = s.brk
      /\ fault' = s.fault
      /\ held' = [held EXCEPT ![o] = s.ret]
      /\ len' = [len EXCEPT ![o] = CASE fresh         -> n
                                     [] s.ret = NULL  -> 0
                                     [] OTHER         -> IF n < len[o] THEN n
                                                                       ELSE len[o]]

Realloc(o, n) ==
  /\ fault = "none"
  /\ ReallocReturned(o, n, mm_realloc(St, held[o], n))

Next ==
  \E o \in Objs :
    \/ \E n \in Requests : Malloc(o, n)
    \/ \E n \in Requests : Realloc(o, n)
    \/ Free(o)

Spec == Init /\ [][Next]_vars

(* ---------------------------------------------------------------------- *)
(* Views of the heap used by the properties.                               *)
(* ---------------------------------------------------------------------- *)
RECURSIVE BlocksFrom(_, _, _)
BlocksFrom(m, bp, k) ==
  IF k = 0 \/ GET_SIZE(m, HDRP(bp)) = 0 THEN <<>>
  ELSE <<bp>> \o BlocksFrom(m, NEXTBLKP(m, bp), k - 1)

RECURSIVE ListFrom(_, _, _)
ListFrom(m, bp, k) ==
  IF bp = NULL \/ k = 0 THEN <<>>
  ELSE <<bp>> \o ListFrom(m, GETNEXT(m, bp), k - 1)

Blocks == BlocksFrom(mem, FirstBlock, Fuel)
BlockSet == {Blocks[i] : i \in DOMAIN Blocks}
IsFree(bp) == GET_ALLOC(mem, HDRP(bp)) = 0
SizeOf(bp) == GET_SIZE(mem, HDRP(bp))
HeapEnd == IF Blocks = <<>> THEN FirstBlock ELSE NEXTBLKP(mem, Blocks[Len(Blocks)])
FreeList(i) == ListFrom(mem, Get(mem, Root(i)), Fuel + 1)
Nodes(l) == {l[j] : j \in DOMAIN l}

(* ---------------------------------------------------------------------- *)
(* Properties.                                                             *)
(* ---------------------------------------------------------------------- *)
TypeOK ==
  /\ mem \in [Addrs -> Nat]
  /\ brk \in 0 .. MAX_HEAP
  /\ fault \in {"none", "exit", "hang", "segv"}
  /\ held \in [Objs -> {NULL} \cup Addrs]
  /\ len \in [Objs -> Requests \cup {0}]

(* The heap walk of mm_check_heap: from the first block, NEXTBLKP reaches  *)
(* the epilogue header exactly at brk, the prologue tags are intact, and   *)
(* every block is 8-aligned, at least 16 bytes, and has a footer equal to  *)
(* its header.  Broken by any tag written at a wrong address or with a     *)
(* wrong size in coalesce, place, increase or extend_heap.                 *)
HeapWellFormed ==
  /\ Get(mem, FirstBlock - 5 * WSIZE) = PACK(16, 1)
  /\ Get(mem, FirstBlock - 2 * WSIZE) = PACK(16, 1)
  /\ HeapEnd = brk
  /\ Get(mem, HDRP(brk)) = PACK(0, 1)
  /\ \A bp \in BlockSet :
       /\ bp % DSIZE = 0
       /\ SizeOf(bp) >= 4 * WSIZE
       /\ Get(mem, HDRP(bp)) = Get(mem, FTRP(mem, bp))

(* Segregation: every list ends in NULL without revisiting a node, holds   *)
(* only free blocks of the heap whose size which_set maps to that list,    *)
(* and every free block of the heap is on its list.  This is what makes    *)
(* pop find every block that coalesce, place and increase remove, and      *)
(* find_fit see every free block.                                          *)
FreeListsExact ==
  /\ \A i \in 0 .. NSETS - 1 :
       LET l == FreeList(i)
       IN  /\ Len(l) <= Fuel
           /\ Cardinality(Nodes(l)) = Len(l)
           /\ \A bp \in Nodes(l) :
                bp \in BlockSet /\ IsFree(bp) /\ which_set(SizeOf(bp)) = i
  /\ \A bp \in BlockSet :
       IsFree(bp) => bp \in Nodes(FreeList(which_set(SizeOf(bp))))

(* Every pointer the client holds is the payload of an allocated block     *)
(* with room for the bytes the client defined, and those bytes still hold  *)
(* what the client stored: no two live blocks overlap, the allocator never *)
(* writes tags or links into a live payload, and realloc keeps the first   *)
(* min(old, new) bytes.                                                    *)
ClientDataIntact ==
  \A o \in Objs : held[o] # NULL =>
    /\ held[o] \in BlockSet
    /\ ~IsFree(held[o])
    /\ SizeOf(held[o]) - DSIZE >= len[o]
    /\ \A a \in Addrs : held[o] <= a /\ a < held[o] + len[o] => mem[a] = Token(o)

(* The fatal exits of pop, pop_block and which_set, which the code treats  *)
(* as internal corruption, are never reached, and no list walk spins.      *)
NoAbort == fault \notin {"exit", "hang"}

(* Spec 3: no two physically adjacent blocks are both free.                *)
NoAdjacentFree ==
  \A i \in 1 .. Len(Blocks) - 1 : ~(IsFree(Blocks[i]) /\ IsFree(Blocks[i + 1]))

(* Spec 7: running out of heap is reported as NULL, never a crash.         *)
NoCrash == fault = "none"

(* The words the allocator or the client can still read: list roots,       *)
(* prologue and epilogue, the tags of every block on the heap walk, the    *)
(* link word of every free block and the defined bytes of held blocks.     *)
(* Every other word is stale payload that the code only ever overwrites    *)
(* (or copies into other stale payload), so two states that agree on the   *)
(* live words have the same futures; the invariants above read only live  *)
(* words.  Used as the VIEW of the model-checking runs.                    *)
LiveWords ==
  {Root(i) : i \in 0 .. NSETS - 1}
  \cup {FirstBlock - 5 * WSIZE, FirstBlock - 2 * WSIZE, HDRP(brk)}
  \cup UNION {{HDRP(bp), FTRP(mem, bp)} \cup (IF IsFree(bp) THEN {bp} ELSE {})
              : bp \in BlockSet}
  \cup UNION {{a \in Addrs : held[o] <= a /\ a < held[o] + len[o]} : o \in Objs}

LiveView ==
  <<[a \in Addrs |-> IF a \in LiveWords THEN mem[a] ELSE 0], brk, fault, held, len>>

=============================================================================
