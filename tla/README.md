# TLA+ models of the system-programming labs

The repository has six labs. Most of them are small experiments: a
`malloc` tracing shim, fork/signal tests, a cache simulator with a matrix
transpose, a multithreaded web proxy with a cache, and a kernel debugfs
module. The largest one, and the one with the most state, is the
segregated-free-list allocator in `src/lab03_malloc/mm_2018-15515.c`. That
allocator is the core this project models and checks.

## Inventory

| Part | Source | State | Operations | Hard behaviour |
|---|---|---|---|---|
| Block layout | mm_2018-15515.c macros, mm_init | heap words: prologue, headers and footers, epilogue | (macros) | tags must tile the heap exactly; addresses are computed from tags that are being rewritten |
| Segregated index | which_set, add, pop, add_block, pop_block | NSETS root words at the bottom of the heap, plus a link word in each free block | add, pop | pop exits the process when a block is missing from its list |
| Coalescing | coalesce, extend_heap | the tags of neighbouring blocks | four merge cases, heap growth | order of tag writes; a merged block is anchored at its predecessor |
| Placement | find_fit, place, increase | free lists, tags | first-fit search by class, split with a 4-word threshold | unsigned remainder; the popped size must be the whole block |
| Facade | mm_init, mm_malloc, mm_free, mm_realloc | all of the above, plus brk | the public calls | realloc has six paths; one of them copies into an unchecked result |
| Heap driver | memlib `mem_sbrk` (not in the repository) | brk | sbrk | fails when the limit is passed |
| Implicit allocator | mm_implicit.c | heap tags | init/malloc/free/realloc | realloc reads its copy size from the wrong word; coalesce case 3 misplaces the footer |
| Cache simulator | lab04_cache/csim.c | per-set valid bits, tags, LRU counters | load/store/modify | counters must stay a permutation; valid bits are never initialised |
| Transpose | trans.c (mytest.c, test.c print around one swap) | the cells of B, and words past B | transpose_submit, transpose_32/64/6167, trans, swap | swaps inside B must undo a crossed copy; blocks are cut at the 61x67 edge; a stale temp is written past B |
| Proxy | lab05_proxy/proxy.c | a shared cache list, cache size, one worker per connection | find/insert/evict, request/response | detached threads use the list with no lock; find-then-use; eviction with uninitialised pointers |
| Shell tests | lab02_shell/tests/reap.c, foreground.c (the other tests are one-shot probes) | child states, count, pending SIGCHLD, main's loop | fork, child exit, handler, waitpid poll, pause | lost wakeup between the test of count and pause(); the handler counts the foreground job |
| ptree | lab06_kernel/ptree/dbfs_ptree.c | globals curr, output, output_size; each process's local list | write (walk, rebuild, strcat), read (copy, free) | unlocked globals shared by concurrent callers; strcat's NUL; output_size never reset |
| memtrace | lab01_link/part1/memtrace.c | the static function pointers and counters | init, malloc, calloc, realloc, free, fini | division by zero in fini; calloc counts size only |

`PROJECT.json` lists every one of these parts under "components", with the
status of each. It also lists every hazard at the line where it bites, with
the properties that cover it or a note saying why none does yet.

## Modules

### MMSeg.tla: the segregated allocator

The heap is a function `mem` from word addresses (multiples of 4 below
`MAX_HEAP`) to natural numbers. Address 0 is `mem_heap_lo()`, and it is also
the `NULL` that terminates the lists. This matches the code, where a link word
of 0 denotes the heap's lowest address and is used as NULL. The layout is the
code's: `NSETS` root words come first, then the alignment padding, then the
prologue header and footer, then the first block at `(NSETS+5)*4` and the
epilogue header. Every macro of the code (`GET_SIZE`, `HDRP`, `FTRP`,
`NEXTBLKP`, `PREVBLKP`, `GETNEXT`, `SETNEXT`, ...) is an operator over a
memory.

Each C function is an operator on a machine-state record
`[mem, brk, fault, ret]`. Its body is a chain of stages in code order:

- each call the function makes, and each group of tag writes, takes the state
  or memory left by the one before as an operator argument;
- every address is recomputed from the memory as it is when that statement
  runs, so when the code reads a tag it has just overwritten, the model reads
  that tag too.

One example is `coalesce`'s case 2, which runs as `CoalescePrev`, then the
pop, then `PrevMerge`, then `AddMergedAtPrev`. Intermediate states are passed
as arguments, not as LET definitions, because TLC evaluates an argument once,
while it re-evaluates a LET definition at every use when it collects the
coverage the runs are checked with.

`fault` records how a call ends abnormally:

- `"exit"`: the `exit(1)` in pop or pop_block;
- `"hang"`: a cyclic list walk in pop;
- `"segv"`: memmove to NULL in realloc.

A call that faults leaves the process stopped.

The client is part of the model. It has a few objects `Objs`, each holding
one pointer (`held`) and the number of payload bytes it has defined (`len`).
Its actions are `Malloc(o, n)`, `Realloc(o, n)` and `Free(o)`, where the size
`n` is taken from `Requests`. After each call the client writes a token
specific to the object into the payload it owns. `ClientDataIntact` then
checks that no allocator step has overwritten those bytes. `mm_init` is part
of the initial state: `Init` is the state `mm_init` leaves behind, and it
requires that call to have succeeded.

The `size_t` arithmetic is kept where it can wrap: `USub` is unsigned
subtraction modulo `2^30`, which is the width TLC can represent.

### MMSegHistory.tla: properties across calls

This module extends MMSeg with two ghost variables. `last` holds the call
just made: its operation, size and returned or freed address. `born` holds
the size each object was allocated with. Together they state action
properties that relate one call to the state before it.

### CacheSim.tla and AbsLRU.tla: the cache simulator

`CacheSim` models `src/lab04_cache/csim.c`. It has one function per field
of the C `block` struct, and each one maps a set and a way to a value:

- `valid`
- `tag`
- `counter`

It also has main's tallies (`hits`, `misses`, `evictions`) and the last
parsed line (`op`, `addr`).

One step is one trace line:

- `SkipLine` is a line that `parse_line` rejects.
- `AccessLine` calls `access` and tallies its result, through one of:
  - `Hit`: case 1, a matching block is found;
  - `Fill`: case 2, an empty block is filled;
  - `Evict`: case 3, the block with counter 0 is replaced. When no such
    block exists, this case takes the `exit` of line 278.

`hash`, `TagOf`, `find_match`, `find_empty`, `find_victim`, `lru_count` and
`init_counter` are the C functions. The searches return the lowest matching
index, or -1.

The sets come from `malloc`, and only their counters are initialised. The
constant `Garbage` chooses what the other fields start with:

- `FALSE`: the valid bits and tags start at 0.
- `TRUE`: they hold any leftover value.

With `TRUE`, `LRURefinement` fails at once: a leftover valid line with a
matching tag turns a first access into a hit. No run sets it. In a fresh
process these first small mallocs come from new, zero-filled heap pages,
so the fields the code reads are 0 in practice.

`AbsLRU` is what the simulator promises:

- each set is a cold cache, a sequence of at most `E` tags in order of last
  use;
- an access hits, fills, or evicts the head of the sequence;
- the three counts are tallied.

`CacheSim` implements it through `Abs == INSTANCE AbsLRU WITH ...`:

- `lru` is mapped to, for each set, the tags of its valid ways sorted by
  counter;
- `req` is mapped to the set and tag of the last address, which pins down
  which access the abstract step performs.

The run checks `Abs!Spec` as a property (`LRURefinement`).

### ProxyCache.tla: the proxy's shared cache and its threads

`ProxyCache` models `src/lab05_proxy/proxy.c`.

**Heap.** The heap holds the root block 0 and a pool `1..NNODES` of blocks.
Each block has the fields `next`, `uri`, `size` and `access`, and a flag
`alive`, which is true between `Malloc` and `Free`. The globals are
`cache_tail` and `cache_size`, and `clk` is the value `clock()` returns
next.

**Threads.** Each thread of `Threads` is one connection. Its program counter
`pc` steps through the statements of `proxy_thread` that touch shared state:

| Action | Code |
|---|---|
| `Accept` | main's loop starts the thread |
| `ReadRequest` | `read_request`: a whole request, an error (`error_response` or a reset longjmps to the cleanup), or EOF after a header |
| `HeaderLoop` | one more iteration of the header loop (lines 169-178) after EOF: `rio_readlineb` returns 0 and leaves the last header in `buf` |
| `FindStep` | one iteration of `find_cache` as `send_request` calls it |
| `Open` | the rest of `send_request` |
| `Recv` | `receive_response` relaying the response |
| `RecvCached` | its `requestfd == -1` branch |
| `EvictCheck` | the loop condition of line 383 |
| `EvStart`, `EvLoop`, `EvUnlink` | `evict_cache`: its start, one scan iteration, and the unlink and free |
| `InsAlloc`, `InsTail`, `InsFill` | the three statements of `insert_cache` |
| `Close` | the normal end of `proxy_thread` and the setjmp cleanup |

A longjmp (`Rwriten`'s EPIPE, `Rreadlineb`'s reset, `error_response`) is a
disjunct that jumps to `Close`.

**Data abstraction.** A request is reduced to its URI and a response to its
length. `Malloc` may return any free block: `InsAlloc` chooses one with
`\E`, so the block just freed is a possible answer, as it is with glibc's
tcache. A new block's fields are `UNINIT` or `JunkUri`.

**Undefined behaviour.** `AccessFault(t)` states what the next statement of
thread `t` reads or writes. When that is one of the following, `ThreadCrash`
stops the process and records the kind in `fault`:

- a freed block (`uaf`);
- an uninitialised field or pointer (`uninit`);
- the uninitialised victim of line 537 (`uninit_victim`);
- NULL at line 357 (`null`).

The model stops there because what a real process does next is undefined.

**Scheduling.** Two constants select the environment:

- `Sequential`: a client connects only once the earlier connections are
  done.
- `StrictClock`: `TRUE` means every `clock()` call returns a new, larger
  value. `FALSE` means a call may return the same value as the call before,
  as the coarse process clock does.

**Properties.** `CacheBounded`: `cache_size` never exceeds
`MAX_CACHE_SIZE`. `VictimIsLRU`: at the unlink, `prev` is the victim's
predecessor and no block on the list was accessed before the victim.
`NoUninitVictim` and `NoNullDeref` exclude two kinds of fault.
`ConnectionsClosed` (liveness): every accepted connection is eventually
closed unless the process has stopped.

### MMImplicit.tla: the implicit-list allocator

`mm_implicit.c` uses the same 4-byte boundary tags as the segregated
allocator, but it has no free lists. `find_fit` walks every block from the
prologue. `place` splits off any remainder, even one of 8 bytes (just the
two tags). `coalesce` merges immediately. The module is written in MMSeg's
style: a machine state `[mem, brk, ret]`, one operator per C function and
one per case of `coalesce`. Each tag write is computed from the memory left
by the write before it, in the code's order.

- `Init` is the state that `mm_init` produces: the padding word, the
  prologue, the epilogue, and the first `CHUNKSIZE` free block.
- `Malloc`, `Free` and `Realloc` are one call each, made by a client object
  that fills its payload with its token. `Realloc` is called only on a held
  pointer, because `realloc(NULL, n)` would dereference `NULL - 8`.
- The constant `SIZE_T_BYTES` is `sizeof(size_t)`. Line 177 reads a `size_t`
  at `oldptr - SIZE_T_SIZE`. With a 4-byte `size_t` that value is the
  previous block's footer. With an 8-byte one the block's own header is the
  high half, so the value is at least 2^32 (`ReadSizeT`).

The invariants repeat MMSeg's: `HeapWellFormed` (minimum block 8),
`ClientDataIntact` and `NoAdjacentFree`. All three fail. The run
`implicit_coalesce_footer` checks `HeapWellFormed`; the 4-byte `size_t`
build, where `ClientDataIntact` fails through line 177, has no run of its
own (see the hazard list).

### Transpose.tla: the blocked matrix transposes

`trans.c` copies `int A[N][M]` into `int B[M][N]`. `transpose_submit`
dispatches on the size to `transpose_32`, `transpose_64` or
`transpose_6167`, and `trans` is the row-wise baseline.

- A state is one call part way through. `run` is the call (`f`, `M`, `N`)
  and `blk` is the next iteration of its outer loop: a block `<<bx, by>>`
  or a row `i`. `Iterate` runs one iteration.
- The inner loops of an iteration are folded in code order by `ForEach`.
  There is one operator per loop nest of the C function (`T32LowerLeft`
  ... `T32Swap`, `T64Cross` ... `T64Quadrants`, `T6167Cell`,
  `T6167Diag`), and `swap` is the C function.
- B is kept by offset `r*N + c`, as the C indexing computes it. A write
  past the `M*N` cells goes to `outside`, the caller's memory after B. A
  read past A gives `Junk`.
- A's cells hold distinct values (`AVal(off) = off`). The functions only
  move values and never test one. A function that transposes this A
  therefore transposes every A, so one input is enough.

`transpose_6167` keeps the diagonal cell of a row in `temp` and writes it
after the row. In the last diagonal block, rows 61 to 63 of the loop have
no diagonal cell inside the matrix. They write the stale `temp`
(A[60][60]) to B[61..63][61..63], three words past B. The model records
them in `outside`. In the cachelab driver B is a larger static array, so
the words land in unused space, and `is_transpose` still holds.

### Reaper.tla: the SIGCHLD reaping loop

`reap.c` and `foreground.c` fork children, set `count` to the number of
background jobs, and sleep in `while (count > 0) pause();`. `ch_handler`
reaps every zombie with `waitpid(-1, WNOHANG)` and decrements `count` for
each one. `foreground.c` also forks a foreground job and polls it with
`waitpid(fgpid, NULL, WNOHANG)` until that returns -1. The constant
`HAS_FG` chooses the program. `FORK_FAILS` lets `fork()` return -1, which
neither program checks.

- The state is:
  - `bg` and `fg`: each child is running, a zombie, or reaped;
  - `count`;
  - `pending`: SIGCHLD is pending, and pending signals do not queue;
  - `inh`: the handler is running, and main is suspended;
  - `pc`: main's place in its loop.
- The actions are a child's exit (`ChildExit`), the delivery of SIGCHLD
  (`Deliver`, which also interrupts a `pause()`), one iteration of the
  handler's loop (`HandlerReap`), its return (`HandlerReturn`), and main's
  steps: `FgWait`, `Test` and `Pause`.
- Delivery is its own action. The kernel delivers a pending signal at some
  later return to user mode, and that may fall between `Test` and
  `Pause`.

### PTree.tla: the process-tree debugfs module

`dbfs_ptree.c` creates `ptree/input` and `ptree/ptree`. Writing a pid to
`input` walks the task's parent chain with the global `curr`, puts a node
with the task's line at the head of a local list, adds the line's length
to the global `output_size`, then `krealloc`s and clears `output` and
`strcat`s the lines. Reading `ptree` copies `output_size` bytes from
`output` and frees it with `krealloc(output, 0)`.

- The globals are variables: `curr` (`NoTask` is NULL), `output` (NULL,
  ZERO_SIZE_PTR or a live allocation of `cap` bytes), the lines `str` it
  holds, and `output_size`. `u[w]` is the local state of process `w`: its
  place in the handler, the pid, the local list, the strcat index, and
  `cat`'s file position and last return.
- One action per statement that touches shared state: `WriteStart`
  (sscanf and `pid_task`, returning -ESRCH for a pid without a task),
  `WalkStep` (one loop iteration), `Rebuild` (krealloc and memset),
  `Strcat` (one iteration), `WriteReturn`; `ReadStart`, `ReadCopy`
  (`simple_read_from_buffer`) and `ReadFree`. `cat` reads again after a
  positive return. No lock is taken, so processes interleave at every step.
- A line is its task: `LineLen` gives its length. `Ancestry(p)` is the
  reference, root first. Two ghosts serve the properties: `wpid`, the pid
  of the last completed write, and `access`, the last access made through
  a pointer and whether it stayed inside live memory.
- `OutputIsAncestry`: with no call in progress, a live output holds the
  ancestry of the pid last written. `MemorySafe`: every access is inside
  live memory.

### Memtrace.tla: the malloc tracing shim

`memtrace.c` is preloaded into a program. Each wrapper resolves libc's
function with `dlsym` on first use (`Call`, which also counts the
program's calls), forwards the call and counts it. `init` runs at load
and `fini` at exit; `fini` logs `n_allocb` and `n_allocb / n_alloc_total`.
The ghost `bytes` is the total the program really requested, and
`logged` is what `fini` logs, or a trap. `FiniStatistics` says that at
exit the log is the requested total and its average, with no trap.

### MC modules

`MCMMSeg` and `MCMMSegHistory` fix the constants:

| Constant | Value |
|---|---|
| CHUNKSIZE | 32 |
| NSETS | 15 |
| MAX_HEAP | 176 |
| Objs | {1, 2} |
| Requests | {0, 8, 24, 40} |

`MCMMImplicit` uses CHUNKSIZE 32, MAX_HEAP 112, Objs {1, 2} and Requests
{0, 8, 24}, and `SIZE_T_BYTES` 8.

`MCPTree` gives three tasks in a chain 1 <- 2 <- 3 (pid 0 is the root's
parent), lines of 12, 9 and 14 bytes, and the inputs {2, 3, 9}: pid 9 has
no task. `MCPTree.cfg` has one process, `MCPTreeRace.cfg` two, under
symmetry. `MCMemtrace` gives sizes {8, 24} and calloc counts {1, 4}.

`MCTranspose` runs the six calls the driver makes:
`transpose_submit` and `trans` at 32x32, 64x64 and 61x67. These are the
real sizes, because the block arithmetic is what is checked. `MCReaper`
gives `foreground.c` its 3 background jobs as model values, under
symmetry: the jobs are interchangeable.

`MCCacheSim` fixes `Addrs = {0, 2, 4, 8}` and `JunkTags = {0, 1}`. The
proxy's constants are given in its `.cfg` files directly, except for
`MCProxyCache.cfg` and `MCProxyHeaderEof.cfg`, which take the connections
and URIs from `MCProxyCache` as model values; the first uses symmetry over
both.

## Runs

| Run | Config | Expect | What it shows |
|---|---|---|---|
| seg_safety | MCMMSeg.cfg | pass | Under every interleaving of two clients' malloc/realloc/free calls (about 3100 distinct heaps): the heap stays tiled by 8-aligned blocks with matching headers and footers, ending at brk (`HeapWellFormed`); every free block is on the list of its class exactly once and the lists hold nothing else (`FreeListsExact`); every client's payload is intact (`ClientDataIntact`); and pop never exits or loops (`NoAbort`). The run uses MMSegHistory's `SpecH`, so it also checks `HeapGrowsOnlyWhenNoFit`: a malloc or realloc grows the heap only when no free block could hold the aligned request. |
| seg_realloc_oom | MCMMSegOOM.cfg | violation | `malloc(8); malloc(24); realloc(first, 40)` on a full heap: the fallback's `mm_malloc` returns NULL, and line 224 memmoves into it. |
| cache_lru | MCCacheSim.cfg | pass | Every trace of up to 5 lines, on a cache of 2 sets of 2 ways starting zeroed (about 3700 states), keeps each set's counters a permutation of 0..E-1 (`CountersPermute`). Every such trace is a behaviour of the abstract cold LRU cache, with the same hit, miss and eviction counts (`LRURefinement`). |
| proxy_sequential | MCProxyCache.cfg | pass | Four connections served one after another, over 3 URIs, with every error path (52 041 distinct states under symmetry). A hit can refresh a block before a later request evicts, so list order and access order differ. `cache_size` stays within `MAX_CACHE_SIZE` (`CacheBounded`), and `evict_cache` unlinks the least recently used block after its predecessor (`VictimIsLRU`). |
| proxy_tail_crash | MCProxyTailCrash.cfg | violation | `evict_cache` never updates `cache_tail`. After the tail block is evicted, `insert_cache` writes through the dangling tail, or, when `Malloc` returns that block again, loses the new block while `cache_size` keeps its size. A later eviction then finds an empty list and dereferences the uninitialised victim (line 537), even with a strictly increasing clock. |
| proxy_race_null | MCProxyRaceNull.cfg | violation | With concurrent threads, a block found by `send_request` is evicted by another thread before `receive_response` looks it up again, and line 357 dereferences NULL. |
| proxy_header_eof | MCProxyHeaderEof.cfg | violation | `ConnectionsClosed` fails: a client that closes its end after sending a header leaves its thread in the header loop of `read_request` forever (line 177 ignores `Rreadlineb`'s 0), under the scheduler's weak fairness. |
| implicit_coalesce_footer | MCMMImplicit.cfg | violation | Case 3 of `coalesce` (lines 235-236) rewrites the header and then computes the next block from the new size. The merged footer therefore lands on the footer of the block after it. TLC (one worker): `o1 = malloc(8); o2 = malloc(8); o2 = realloc(o2, 8); o1 = realloc(o1, 24)`. The third call leaves the 16-byte block at 32 free; the fourth finds no 32-byte fit, extends the heap, moves o1 to 64 and frees block 16, whose next block (32) is free: case 3. The merged size 32 goes into the header at 12, and the footer into FTRP(NEXTBLKP(16)) = 56, inside o2's live block at 48, which gets a free footer of size 32. A later free next to it would merge into live data. |
| transpose_blocks | MCTranspose.cfg | pass | For each of the six calls (269 states), after each outer iteration the cells of B owned by the iterations already run hold A's transposed values, and all the other cells still hold their old contents (`IterationsWriteOwnBlock`). So no swap inside B leaves a cell displaced, and no write, the stray `temp` words included, lands in another block. At the return `is_transpose` holds. `TypeOK` also bounds what is written past B to values of A. |
| ptree_sequential | MCPTree.cfg | pass | One process writing pids 2, 3 and 9 and reading with `cat`, up to 4 calls (674 states): whenever no call is in progress, a live `output` holds the written task's ancestry, root first. |
| ptree_race | MCPTreeRace.cfg | violation | Two processes: one writes pid 2 and is between walk iterations when the other writes pid 9; `pid_task` returns NULL into the shared `curr` and the first walk dereferences it. The same property also fails with one process, by the one-byte overflow of the last `strcat` (line 69) and by a second `cat` copying from ZERO_SIZE_PTR (line 82). |
| reaper_foreground | MCReaperForeground.cfg | violation | `WaitMatchesChildren` says two things: main is blocked in `pause()` only while a child can still wake it, and it returns only after every background job has ended. In foreground.c the handler reaps the foreground job and counts it. TLC: two background jobs and the foreground job exit, one handler run reaps all three, so count = 0, and main prints "All ended" while the third job still runs. With `HAS_FG = FALSE` (reap.c) the same invariant fails through the lost wakeup: the last SIGCHLD is handled between `Test` and `Pause`. |

Each property of the passing runs has a mutant in `PROJECT.json`: a variant
operator, defined next to the one it replaces, that reproduces a plausible
slip in the code. Each mutant makes its property fail:

| Property | Mutant |
|---|---|
| HeapWellFormed | a footer address computed before the header is rewritten |
| FreeListsExact | place forgets to pop |
| NoAbort | place pops with the requested size |
| ClientDataIntact | realloc frees before copying |
| TypeOK | extend_heap does not check mem_sbrk's failure |
| HeapGrowsOnlyWhenNoFit | find_fit looks only at the head of each list |
| CacheSim TypeOK | the counters are numbered from 1 |
| CountersPermute | lru_count gives the used block counter E |
| LRURefinement | a hit does not refresh the block's counter |
| ProxyCache TypeOK | the scan sets victim to block rather than block->next |
| CacheBounded | `>` instead of `>=` in the eviction loop |
| VictimIsLRU | the scan stops at the first block accessed before min (it survives three connections and is caught with four) |
| Transpose TypeOK | transpose_32's outer loop runs `bx <= 32` |
| IterationsWriteOwnBlock | transpose_64's triangle swaps lose their `x-offset > y` guard |
| PTree TypeOK | the walk's node takes the parent's pid (curr advanced before the sprintf) |
| OutputIsAncestry | `list_add_tail` instead of `list_add` |

## Bounds and why they are enough

- **CHUNKSIZE = 32** is the 4096 of the code scaled down, so that the first
  chunk holds two small blocks and extension happens after a few calls.
- **MAX_HEAP = 176** leaves room for two extensions past `mm_init`. The heap
  can therefore both grow and run out, and both the `extend_heap` failure path
  and the realloc-to-NULL path are reached.
- **Requests {0, 8, 24, 40}** give blocks of 16, 32 and 48 bytes:
  - these sizes hit classes 0 and 1 directly, and class 2 through coalescing;
  - together with CHUNKSIZE they produce all four coalesce cases, both split
    and no-split placement (the rest < 16 threshold), and every path of
    realloc: NULL, 0, equal, shrink, grow in place and move;
  - 0 exercises the size-0 paths.
- **Two objects** are enough for a neighbour to be free or allocated on both
  sides of a block.

`NSETS = 15` is the code's value: the roots are only words, and which_set's
loop is bounded by them.

**MMImplicit.** With MAX_HEAP = 112 the heap can grow twice past `mm_init`.
Requests {0, 8, 24} give blocks of 16 and 32 bytes and the size-0 paths.
Two objects produce every coalesce case. Both violations appear within 5
calls.

**CacheSim.** `S_BITS = 1`, `B_BITS = 1` and `E = 2` give 2 sets of 2
ways. The addresses {0, 2, 4, 8} fall into both sets, and 3 distinct tags
meet in set 0, so 5 lines reach hits, fills, evictions and modify lines.
Evicting is the case where the counters matter.

**ProxyCache.**

- `MAX_CACHE_SIZE = 3` and `MAX_OBJECT_SIZE = 2`, with lengths {0, 1, 2}:
  - a length of 2 is too large to cache;
  - lengths 0 and 1 store blocks of 1 and 2 bytes;
  - so both a single eviction and a scan over two blocks happen.
- 3 URIs and four sequential connections: two fill the cache, a third
  hits the older block and refreshes it, and the fourth evicts. With three
  connections list order always equals access order at an eviction, and a
  first-in victim would pass.
- `NNODES` equals the number of threads: each thread inserts at most once.
- The header loop needs one connection.
- The race run needs 3 threads: one inserts, one hits, and one evicts.

**Transpose.** The sizes are the driver's own, so every block position,
both edges of the 61x67 case and its last diagonal block are reached. One
A is enough, as argued above.

**Reaper.** There are 3 background jobs and one foreground job, foreground.c's N.
The miscount needs the foreground job and two background jobs to be reaped
before the third ends. The lost wakeup needs just one child.

**PTree.** A chain of three tasks gives walks of two and three steps, and
lines of different lengths make a wrong order or a stale size visible. A
pid without a task reaches the -ESRCH path and, with two processes, the
NULL `curr`. Four calls let one process write, read, write and read
again, which is where the never-reset `output_size` shows; the race needs
only three.

**Memtrace.** Three calls with two sizes and two counts reach every
wrapper, and `init` then `fini` with no call is the trap.

**VIEW.** `LiveView` fingerprints only the words that can influence a future
step:

- the roots, the prologue and the epilogue;
- the tags of the blocks reached by walking the heap;
- the link word of each free block;
- the defined payload bytes of each held block.

Stale words (old tags inside merged blocks, undefined payload) are never read
before they are written. Two states with the same live words therefore have
the same futures and satisfy the same invariants. Without the VIEW, the
stale words multiply the state space into the millions.

## Fairness and deadlock

The allocator is a sequential library driven by its caller. Nothing in it
must eventually happen on its own, so the MMSeg and MMImplicit specifications have no
fairness and no liveness property. The MMSeg cfgs set `CHECK_DEADLOCK FALSE`
because a faulted process stops, and that stop is the program's real
terminal state. MMImplicit has no fault state, and `malloc(0)` is always
possible, so its runs keep deadlock checking on.

`ProxyCache`'s worker threads are scheduled by the operating system. A
thread that can run eventually does, so `Spec` has weak fairness on each
thread's `Step`. `Accept` gets no fairness: it waits for a client who may
never come. `Stopped` is the explicit terminal step, taken once every
connection is done or the process has crashed, so deadlock checking stays
on. A thread in the header loop after EOF takes only stuttering steps, so
weak fairness does not move it, and `ConnectionsClosed` is violated. The
liveness run uses no symmetry. `Transpose` is one sequential call. It ends in `Finished`, a stuttering
step once the outer loop is done, so deadlock checking stays on. `Reaper`
has no fairness: its one run looks for a state that must not be reached.
Its cfg sets `CHECK_DEADLOCK FALSE` because the program really does stop
once main returns and the children are gone. `CacheSim` and `AbsLRU` are sequential and have no liveness property.
`MCCacheSim.cfg` sets `CHECK_DEADLOCK FALSE` for two reasons: the
simulator stops at the end of its trace, which is `MaxLines` here, and it
stops at the `exit` of line 278. `PTree` has no fairness: a process may
stop calling. `Done` is the stuttering step once its calls are used up,
so deadlock checking stays on. `MCMemtrace.cfg` sets `CHECK_DEADLOCK FALSE`:
the traced program exits after `fini`, and nothing runs after that.
`MCMemtrace.cfg` has no run in PROJECT.json: the run slot went to the
proxy's header loop. Running it shows `FiniStatistics` violated by
`init` followed by `fini`.

## What is not modelled (yet), and the plan

Not modelled:

- the 32-bit link width on a 64-bit build (`typedef unsigned int addr`);
- `ALIGN` overflow for sizes near `SIZE_MAX`;
- the debug checkers' printing;
- `test.c`, which exercises only the host allocator;
- lab04's `mytest.c` and `test.c`, which print cells around one call of
  the same `swap` that Transpose models;
- the shell probes `child_int.c`, `child_sleep.c`, `child_tstp.c`,
  `exitstat.c`, `failsign.c`, `nullchar.c` and `pipe.c`. Each is a single
  fork whose output shows what the kernel reports (a status word, a stop,
  a pipe read), and none keeps state to check;
- `realloc(NULL, n)` in mm_implicit.c, which crashes and is left out of the
  client;
- in memtrace, the log output, the unused `memlist`, and `dlsym` calling
  malloc before the pointer is set (glibc internals, not in the
  repository);
- in dbfs_ptree.c, the nodes that are never freed, a failed `kmalloc` or
  `krealloc` used as if it succeeded, the write's return of more than
  `length`, and the module's init and exit, which only create and remove
  the debugfs files;
- in the proxy:
  - `Open_clientfd`'s exit on an unreachable server (a csapp wrapper,
    which is not in the repository);
  - `cache_size += size` as a racy read-modify-write, which is modelled as
    one step;
  - the NULL + 7 of line 202 for a URI without `http://`;
- in csim, argument parsing and printing.

Plan, in order, for the next sittings:

1. **AbstractAlloc**: an abstract allocator whose live regions are disjoint,
   aligned and at least as large as requested, with MMSeg shown to implement
   it through `INSTANCE ... WITH` a mapping from `held` and the block tags.
2. MMImplicit, 3. CacheSim and 4. ProxyCache: done. MMImplicit will refine
   AbstractAlloc only once its coalesce bug is fixed in the code.
5. Reaper and 6. Transpose: done.
7. PTree and 8. Memtrace: done.

The remaining plan item is AbstractAlloc (1).
