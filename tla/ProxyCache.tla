----------------------------- MODULE ProxyCache -----------------------------
(***************************************************************************)
(* The web proxy of src/lab05_proxy/proxy.c: one detached thread per       *)
(* connection (proxy_thread), sharing an unlocked linked list of cache     *)
(* blocks (cache_root, cache_tail, cache_size).  Each thread is a program  *)
(* counter over the statements of proxy_thread that touch shared state:    *)
(* the walk of find_cache, the walk and unlink of evict_cache and the      *)
(* three statements of insert_cache that link, retarget the tail and fill  *)
(* the new block.  Parsing, header handling and the bytes of a response    *)
(* are abstracted: a request is its URI, a response its length.           *)
(*                                                                         *)
(* The heap holds the root block 0 and a pool of blocks 1..NNODES.  A      *)
(* block that Malloc returns has uninitialised fields (UNINIT, JunkUri).   *)
(* A statement that reads or writes a freed block, follows an             *)
(* uninitialised pointer, or dereferences NULL is undefined behaviour; the *)
(* model stops the process there and records the kind in `fault`.          *)
(***************************************************************************)
EXTENDS Integers, FiniteSets

CONSTANTS
  Threads,          \* connections, one detached thread each
  URIs,             \* request URIs
  Lens,             \* response lengths strlen(content)
  NNODES,           \* blocks Malloc can hand out
  MAX_CACHE_SIZE,
  MAX_OBJECT_SIZE,
  StrictClock,      \* TRUE: every clock() call returns a new, larger value
  Sequential        \* TRUE: a client connects only once the others are done

ASSUME NNODES >= Cardinality(Threads)   \* each thread inserts at most once
ASSUME {MAX_CACHE_SIZE, MAX_OBJECT_SIZE} \subseteq Nat /\ Lens \subseteq Nat

VARIABLES
  next, uri, size, access, alive,   \* the cache blocks in the heap
  cache_tail, cache_size,           \* the globals of lines 33-37
  clk,                              \* the value clock() returns next
  fault,                            \* how the process stopped, or "none"
  pc,                               \* per thread: the next statement
  line_uri,                         \* line->uri
  block, min, victim, prev,         \* locals of find_cache / evict_cache
  len,                              \* strlen(content) in receive_response
  new,                              \* the block insert_cache allocated
  connfd, requestfd                 \* open descriptors of each thread

heap == <<next, uri, size, access, alive, cache_tail, cache_size>>
locals == <<line_uri, block, min, victim, prev, len, new>>
vars == <<heap, clk, fault, pc, locals, connfd, requestfd>>

Root == 0
Pool == 1 .. NNODES
NULL == -1
UNINIT == -2            \* an uninitialised pointer, size or access time
JunkUri == "uninit"     \* an uninitialised uri array

Labels == {"idle", "read", "hdr_loop", "find", "open", "recv", "recv_cached",
           "evict_check", "ev_start", "ev_loop", "ev_unlink",
           "ins_alloc", "ins_tail", "ins_fill", "close", "done"}

(* init_cache (lines 480-489): the dummy root block, which is the tail.     *)
Init ==
  /\ next = [n \in 0 .. NNODES |-> IF n = Root THEN NULL ELSE UNINIT]
  /\ uri = [n \in 0 .. NNODES |-> IF n = Root THEN "" ELSE JunkUri]
  /\ size = [n \in 0 .. NNODES |-> IF n = Root THEN 0 ELSE UNINIT]
  /\ access = [n \in 0 .. NNODES |-> IF n = Root THEN 0 ELSE UNINIT]
  /\ alive = [n \in 0 .. NNODES |-> n = Root]
  /\ cache_tail = Root /\ cache_size = 0
  /\ clk = 1
  /\ fault = "none"
  /\ pc = [t \in Threads |-> "idle"]
  /\ line_uri = [t \in Threads |-> ""]
  /\ block = [t \in Threads |-> NULL] /\ min = [t \in Threads |-> 0]
  /\ victim = [t \in Threads |-> UNINIT] /\ prev = [t \in Threads |-> UNINIT]
  /\ len = [t \in Threads |-> 0] /\ new = [t \in Threads |-> NULL]
  /\ connfd = [t \in Threads |-> FALSE] /\ requestfd = [t \in Threads |-> FALSE]

(* A call of clock(): the value read is clk; the clock then advances, or,  *)
(* with a coarse clock, may return the same value again.                   *)
Tick == clk' \in IF StrictClock THEN {clk + 1} ELSE {clk, clk + 1}

Goto(t, l) == pc' = [pc EXCEPT ![t] = l]

(* ---------------------------------------------------------------------- *)
(* Memory safety of the statement a thread is about to run.               *)
(* ---------------------------------------------------------------------- *)
(* Reading block b's uri: b must point to a live, initialised block.       *)
UriFault(b) ==
  CASE b = UNINIT        -> "uninit"
    [] ~alive[b]         -> "uaf"
    [] uri[b] = JunkUri  -> "uninit"
    [] OTHER             -> "none"

(* find_cache (lines 550-561) as one walk, the way line 356 calls it.      *)
RECURSIVE Walk(_, _, _)
Walk(b, u, seen) ==
  CASE b = NULL                 -> [node |-> NULL, fault |-> "none"]
    [] UriFault(b) # "none"     -> [node |-> NULL, fault |-> UriFault(b)]
    [] uri[b] = u               -> [node |-> b, fault |-> "none"]
    [] b \in seen               -> [node |-> NULL, fault |-> "hang"]
    [] OTHER                    -> Walk(next[b], u, seen \cup {b})

find_cache(u) == Walk(next[Root], u, {})

(* One iteration of evict_cache's loop (lines 527-533) reads block->next   *)
(* and that block's access time.                                           *)
LoopFault(b) ==
  CASE ~alive[b]                    -> "uaf"
    [] next[b] = NULL               -> "none"
    [] next[b] = UNINIT             -> "uninit"
    [] ~alive[next[b]]              -> "uaf"
    [] access[next[b]] = UNINIT     -> "uninit"
    [] OTHER                        -> "none"

AccessFault(t) ==
  CASE pc[t] = "find" /\ block[t] # NULL -> UriFault(block[t])
    [] pc[t] = "recv_cached" ->
         IF find_cache(line_uri[t]).fault # "none"
           THEN find_cache(line_uri[t]).fault
           ELSE IF find_cache(line_uri[t]).node = NULL THEN "null" ELSE "none"
    [] pc[t] = "ev_loop"   -> LoopFault(block[t])
    [] pc[t] = "ev_unlink" ->
         IF victim[t] = UNINIT THEN "uninit_victim"
         ELSE IF alive[prev[t]] /\ alive[victim[t]] THEN "none" ELSE "uaf"
    [] pc[t] = "ins_fill"  -> IF alive[new[t]] THEN "none" ELSE "uaf"
    [] OTHER               -> "none"

Safe(t) == fault = "none" /\ AccessFault(t) = "none"

(* The statement is undefined behaviour: the process stops.               *)
ThreadCrash(t) ==
  /\ fault = "none"
  /\ pc[t] \notin {"idle", "done"}
  /\ AccessFault(t) # "none"
  /\ fault' = AccessFault(t)
  /\ UNCHANGED <<heap, clk, pc, locals, connfd, requestfd>>

(* ---------------------------------------------------------------------- *)
(* The main thread and the steps of proxy_thread.                         *)
(* ---------------------------------------------------------------------- *)
(* main (lines 94-106): Accept a connection and start its thread.          *)
Accept(t) ==
  /\ fault = "none"
  /\ pc[t] = "idle"
  /\ Sequential => \A u \in Threads \ {t} : pc[u] \in {"idle", "done"}
  /\ Goto(t, "read")
  /\ connfd' = [connfd EXCEPT ![t] = TRUE]
  /\ UNCHANGED <<heap, clk, fault, locals, requestfd>>

(* read_request (lines 129-131, 152-184), by how the client's bytes end:   *)
(*  - a request line and headers up to the blank line: send_request then   *)
(*    calls find_cache, which starts at cache_root->next (lines 298, 551); *)
(*  - a method other than GET, a header without ": ", or ECONNRESET:       *)
(*    error_response or Rreadlineb longjmps to the cleanup (121-127).  EOF *)
(*    right after the request line is this case: rio_readlineb returns 0   *)
(*    and leaves the request line in buf, which has no ": " (line 226);    *)
(*  - EOF after at least one header: rio_readlineb returns 0 and leaves    *)
(*    the last header in buf, which is parsed again and again: the loop of *)
(*    lines 168-178 never ends.                                            *)
ReadRequest(t) ==
  /\ pc[t] = "read" /\ Safe(t)
  /\ \/ \E u \in URIs :
          /\ line_uri' = [line_uri EXCEPT ![t] = u]
          /\ block' = [block EXCEPT ![t] = next[Root]]
          /\ Goto(t, "find")
     \/ /\ Goto(t, "close")
        /\ UNCHANGED <<line_uri, block>>
     \/ /\ Goto(t, "hdr_loop")
        /\ UNCHANGED <<line_uri, block>>
  /\ UNCHANGED <<heap, clk, fault, min, victim, prev, len, new, connfd, requestfd>>

(* One more iteration of the header loop after EOF: parse_req_header       *)
(* inserts another copy of the last header, and buf is unchanged.  The     *)
(* header list is not modelled, so the step changes nothing the model      *)
(* holds (memory exhaustion, which ends the process in Malloc, is left     *)
(* out).                                                                   *)
HeaderLoop(t) ==
  /\ pc[t] = "hdr_loop" /\ Safe(t)
  /\ UNCHANGED vars

(* One iteration of find_cache (lines 553-560) as send_request calls it:   *)
(* a match refreshes the block's access time and send_request returns -1   *)
(* (line 299); at the end of the list it goes on to open a connection.     *)
FindStep(t) ==
  LET b == block[t] IN
  /\ pc[t] = "find" /\ Safe(t)
  /\ \/ /\ b = NULL
        /\ Goto(t, "open")
        /\ UNCHANGED <<access, clk, block>>
     \/ /\ b # NULL /\ uri[b] = line_uri[t]
        /\ access' = [access EXCEPT ![b] = clk] /\ Tick
        /\ Goto(t, "recv_cached")
        /\ UNCHANGED block
     \/ /\ b # NULL /\ uri[b] # line_uri[t]
        /\ block' = [block EXCEPT ![t] = next[b]]
        /\ UNCHANGED <<access, clk, pc>>
  /\ UNCHANGED <<next, uri, size, alive, cache_tail, cache_size, fault,
                 line_uri, min, victim, prev, len, new, connfd, requestfd>>

(* send_request (lines 302-336): Open_clientfd, then Rwriten of the        *)
(* request, whose EPIPE longjmps to the cleanup with requestfd open.       *)
Open(t) ==
  /\ pc[t] = "open" /\ Safe(t)
  /\ requestfd' = [requestfd EXCEPT ![t] = TRUE]
  /\ \/ Goto(t, "recv")
     \/ Goto(t, "close")
  /\ UNCHANGED <<heap, clk, fault, locals, connfd>>

(* receive_response (lines 361-382): the response is relayed line by line; *)
(* a client EPIPE or server reset longjmps with requestfd open.  Otherwise *)
(* requestfd is closed and a response shorter than MAX_OBJECT_SIZE (and    *)
(* MAX_CACHE_SIZE) is to be cached.                                        *)
Recv(t) ==
  /\ pc[t] = "recv" /\ Safe(t)
  /\ \/ /\ Goto(t, "close")
        /\ UNCHANGED <<len, requestfd>>
     \/ \E l \in Lens :
          /\ requestfd' = [requestfd EXCEPT ![t] = FALSE]
          /\ len' = [len EXCEPT ![t] = l]
          /\ Goto(t, IF l < MAX_OBJECT_SIZE /\ l < MAX_CACHE_SIZE
                       THEN "evict_check" ELSE "close")
  /\ UNCHANGED <<heap, clk, fault, line_uri, block, min, victim, prev, new, connfd>>

(* receive_response with requestfd == -1 (lines 353-358): find_cache again *)
(* (refreshing the access time) and write block->data to the client.       *)
RecvCached(t) ==
  LET b == find_cache(line_uri[t]).node IN
  /\ pc[t] = "recv_cached" /\ Safe(t)
  /\ access' = [access EXCEPT ![b] = clk] /\ Tick
  /\ Goto(t, "close")
  /\ UNCHANGED <<next, uri, size, alive, cache_tail, cache_size, fault,
                 locals, connfd, requestfd>>

\* Mutant: `>` for `>=` in the loop condition.
EvictCheckStrict(t) ==
  /\ pc[t] = "evict_check" /\ Safe(t)
  /\ \/ len[t] + cache_size > MAX_CACHE_SIZE /\ Goto(t, "ev_start")
     \/ len[t] + cache_size <= MAX_CACHE_SIZE /\ Goto(t, "ins_alloc")
  /\ UNCHANGED <<heap, clk, fault, locals, connfd, requestfd>>

(* The loop of lines 383-385: evict until the content fits, then insert.   *)
EvictCheck(t) ==
  /\ pc[t] = "evict_check" /\ Safe(t)
  /\ \/ len[t] + cache_size >= MAX_CACHE_SIZE /\ Goto(t, "ev_start")
     \/ len[t] + cache_size < MAX_CACHE_SIZE /\ Goto(t, "ins_alloc")
  /\ UNCHANGED <<heap, clk, fault, locals, connfd, requestfd>>

(* evict_cache (lines 518-526): min = clock(), block = cache_root; victim  *)
(* and prev are left uninitialised.                                        *)
EvStart(t) ==
  /\ pc[t] = "ev_start" /\ Safe(t)
  /\ min' = [min EXCEPT ![t] = clk] /\ Tick
  /\ block' = [block EXCEPT ![t] = Root]
  /\ victim' = [victim EXCEPT ![t] = UNINIT]
  /\ prev' = [prev EXCEPT ![t] = UNINIT]
  /\ Goto(t, "ev_loop")
  /\ UNCHANGED <<heap, fault, line_uri, len, new, connfd, requestfd>>

\* Mutant: the scan stops at the first block accessed before min (a break
\* after the assignment), which evicts the oldest inserted block.
EvLoopFirst(t) ==
  LET b == block[t]
      n == next[b]
  IN  /\ pc[t] = "ev_loop" /\ Safe(t)
      /\ \/ /\ n = NULL
            /\ Goto(t, "ev_unlink")
            /\ UNCHANGED <<block, min, victim, prev>>
         \/ /\ n # NULL /\ access[n] < min[t]
            /\ victim' = [victim EXCEPT ![t] = n]
            /\ prev' = [prev EXCEPT ![t] = b]
            /\ min' = [min EXCEPT ![t] = access[n]]
            /\ Goto(t, "ev_unlink")
            /\ UNCHANGED block
         \/ /\ n # NULL /\ access[n] >= min[t]
            /\ block' = [block EXCEPT ![t] = n]
            /\ UNCHANGED <<pc, min, victim, prev>>
      /\ UNCHANGED <<heap, clk, fault, line_uri, len, new, connfd, requestfd>>

\* Mutant: victim is set to block, not block->next.
EvLoopVictimIsBlock(t) ==
  LET b == block[t]
      n == next[b]
  IN  /\ pc[t] = "ev_loop" /\ Safe(t)
      /\ \/ /\ n = NULL
            /\ Goto(t, "ev_unlink")
            /\ UNCHANGED <<block, min, victim, prev>>
         \/ /\ n # NULL /\ access[n] < min[t]
            /\ victim' = [victim EXCEPT ![t] = b]
            /\ prev' = [prev EXCEPT ![t] = b]
            /\ min' = [min EXCEPT ![t] = access[n]]
            /\ block' = [block EXCEPT ![t] = n]
            /\ UNCHANGED pc
         \/ /\ n # NULL /\ access[n] >= min[t]
            /\ block' = [block EXCEPT ![t] = n]
            /\ UNCHANGED <<pc, min, victim, prev>>
      /\ UNCHANGED <<heap, clk, fault, line_uri, len, new, connfd, requestfd>>

(* One iteration of the victim scan (lines 527-534): a block accessed      *)
(* strictly before min becomes the victim.                                 *)
EvLoop(t) ==
  LET b == block[t]
      n == next[b]
  IN  /\ pc[t] = "ev_loop" /\ Safe(t)
      /\ \/ /\ n = NULL
            /\ Goto(t, "ev_unlink")
            /\ UNCHANGED <<block, min, victim, prev>>
         \/ /\ n # NULL /\ access[n] < min[t]
            /\ victim' = [victim EXCEPT ![t] = n]
            /\ prev' = [prev EXCEPT ![t] = b]
            /\ min' = [min EXCEPT ![t] = access[n]]
            /\ block' = [block EXCEPT ![t] = n]
            /\ UNCHANGED pc
         \/ /\ n # NULL /\ access[n] >= min[t]
            /\ block' = [block EXCEPT ![t] = n]
            /\ UNCHANGED <<pc, min, victim, prev>>
      /\ UNCHANGED <<heap, clk, fault, line_uri, len, new, connfd, requestfd>>

(* Lines 537-540: unlink the victim, subtract its size and free it.  The   *)
(* tail pointer is left as it is, even when the victim is the tail.        *)
EvUnlink(t) ==
  /\ pc[t] = "ev_unlink" /\ Safe(t)
  /\ next' = [next EXCEPT ![prev[t]] = next[victim[t]]]
  /\ cache_size' = cache_size - size[victim[t]]
  /\ alive' = [alive EXCEPT ![victim[t]] = FALSE]
  /\ Goto(t, "evict_check")
  /\ UNCHANGED <<uri, size, access, cache_tail, clk, fault, locals,
                 connfd, requestfd>>

(* insert_cache, lines 497-498: Malloc may return any free block, the      *)
(* victim just freed included; its fields are uninitialised.  The new      *)
(* block is linked after cache_tail.  If cache_tail was freed and Malloc   *)
(* returned another block, that write is to freed memory.                  *)
InsAlloc(t) ==
  \E n \in {m \in Pool : ~alive[m]} :
    /\ pc[t] = "ins_alloc" /\ Safe(t)
    /\ \/ /\ alive[cache_tail] \/ cache_tail = n
          /\ alive' = [alive EXCEPT ![n] = TRUE]
          /\ next' = [next EXCEPT ![n] = UNINIT, ![cache_tail] = n]
          /\ uri' = [uri EXCEPT ![n] = JunkUri]
          /\ size' = [size EXCEPT ![n] = UNINIT]
          /\ access' = [access EXCEPT ![n] = UNINIT]
          /\ new' = [new EXCEPT ![t] = n]
          /\ Goto(t, "ins_tail")
          /\ UNCHANGED fault
       \/ /\ ~alive[cache_tail] /\ cache_tail # n
          /\ fault' = "uaf"
          /\ UNCHANGED <<next, uri, size, access, alive, new, pc>>
    /\ UNCHANGED <<cache_tail, cache_size, clk, line_uri, block, min,
                   victim, prev, len, connfd, requestfd>>

(* Line 499: cache_tail = new.                                             *)
InsTail(t) ==
  /\ pc[t] = "ins_tail" /\ Safe(t)
  /\ cache_tail' = new[t]
  /\ Goto(t, "ins_fill")
  /\ UNCHANGED <<next, uri, size, access, alive, cache_size, clk, fault,
                 locals, connfd, requestfd>>

(* Lines 501-507: fill the block (size strlen(content)+1, next NULL,       *)
(* access clock()) and add its size to cache_size.                         *)
InsFill(t) ==
  LET n == new[t] IN
  /\ pc[t] = "ins_fill" /\ Safe(t)
  /\ uri' = [uri EXCEPT ![n] = line_uri[t]]
  /\ size' = [size EXCEPT ![n] = len[t] + 1]
  /\ next' = [next EXCEPT ![n] = NULL]
  /\ access' = [access EXCEPT ![n] = clk] /\ Tick
  /\ cache_size' = cache_size + len[t] + 1
  /\ Goto(t, "close")
  /\ UNCHANGED <<alive, cache_tail, fault, locals, connfd, requestfd>>

(* The end of proxy_thread (lines 140-144), and the cleanup a longjmp      *)
(* reaches (lines 121-127): both close connfd, and neither requestfd.      *)
Close(t) ==
  /\ pc[t] = "close" /\ Safe(t)
  /\ connfd' = [connfd EXCEPT ![t] = FALSE]
  /\ Goto(t, "done")
  /\ UNCHANGED <<heap, clk, fault, locals, requestfd>>

Step(t) ==
  \/ ThreadCrash(t)
  \/ ReadRequest(t) \/ HeaderLoop(t) \/ FindStep(t) \/ Open(t) \/ Recv(t) \/ RecvCached(t)
  \/ EvictCheck(t) \/ EvStart(t) \/ EvLoop(t) \/ EvUnlink(t)
  \/ InsAlloc(t) \/ InsTail(t) \/ InsFill(t) \/ Close(t)

(* Every connection has been served, or the process has stopped.          *)
Stopped ==
  /\ fault # "none" \/ \A t \in Threads : pc[t] = "done"
  /\ UNCHANGED vars

Next == Stopped \/ \E t \in Threads : Accept(t) \/ Step(t)

(* The threads are scheduled by the OS: a thread that can run does.  The   *)
(* main thread's Accept waits on a client and gets no fairness.            *)
Spec == Init /\ [][Next]_vars /\ \A t \in Threads : WF_vars(Step(t))

(* ---------------------------------------------------------------------- *)
(* Properties.                                                             *)
(* ---------------------------------------------------------------------- *)
\* The blocks reached from cache_root->next: the walk stops after the
\* first freed block and at NULL or an uninitialised pointer.
RECURSIVE Chain(_, _)
Chain(b, seen) ==
  IF b \in Pool \ seen
    THEN {b} \cup (IF alive[b] THEN Chain(next[b], seen \cup {b}) ELSE {})
    ELSE {}

ListNodes == Chain(next[Root], {})

TypeOK ==
  /\ next \in [0 .. NNODES -> 0 .. NNODES \cup {NULL, UNINIT}]
  /\ uri \in [0 .. NNODES -> URIs \cup {"", JunkUri}]
  /\ size \in [0 .. NNODES -> Nat \cup {UNINIT}]
  /\ access \in [0 .. NNODES -> Nat \cup {UNINIT}]
  /\ alive \in [0 .. NNODES -> BOOLEAN] /\ alive[Root]
  /\ cache_tail \in 0 .. NNODES /\ cache_size \in Nat
  /\ clk \in Nat
  /\ fault \in {"none", "uaf", "uninit", "uninit_victim", "null", "hang"}
  /\ pc \in [Threads -> Labels]
  /\ line_uri \in [Threads -> URIs \cup {""}]
  /\ block \in [Threads -> 0 .. NNODES \cup {NULL, UNINIT}]
  /\ victim \in [Threads -> Pool \cup {UNINIT}]
  /\ prev \in [Threads -> 0 .. NNODES \cup {UNINIT}]
  /\ min \in [Threads -> Nat] /\ len \in [Threads -> Lens \cup {0}]
  /\ new \in [Threads -> Pool \cup {NULL}]
  /\ connfd \in [Threads -> BOOLEAN] /\ requestfd \in [Threads -> BOOLEAN]

(* The eviction loop of receive_response (line 383) keeps the cache within *)
(* MAX_CACHE_SIZE, counting the terminating byte insert_cache adds.        *)
CacheBounded == cache_size <= MAX_CACHE_SIZE

(* When evict_cache reaches the unlink, prev is the block before victim    *)
(* and no cached block was accessed earlier than victim: LRU eviction.     *)
VictimIsLRU ==
  \A t \in Threads :
    pc[t] = "ev_unlink" /\ victim[t] # UNINIT =>
      /\ next[prev[t]] = victim[t]
      /\ \A n \in ListNodes : access[victim[t]] <= access[n]

(* evict_cache always finds a victim: line 537 never dereferences the      *)
(* uninitialised victim and prev.                                          *)
NoUninitVictim == fault # "uninit_victim"

(* A URI that send_request found cached is still found by                  *)
(* receive_response: line 357 never dereferences NULL.                     *)
NoNullDeref == fault # "null"

(* A thread that ends has closed the connection to the server it opened.   *)
NoFdLeak == \A t \in Threads : pc[t] = "done" => ~requestfd[t]

(* Every accepted connection is eventually closed by its thread, unless    *)
(* the process has stopped: no thread loops forever in read_request, in    *)
(* find_cache or in evict_cache, whatever the client sends.                *)
ConnectionsClosed ==
  \A t \in Threads : connfd[t] ~> (~connfd[t] \/ fault # "none")

====
