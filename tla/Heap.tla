-------------------------------- MODULE Heap --------------------------------
(***************************************************************************)
(* The kernel heap (core/memory.c): a list of blocks in address order,     *)
(* each a header followed by its bytes, searched first fit by k_malloc()   *)
(* and coalesced by k_free(). One turn of a loop of the code is one step;  *)
(* the calls do not overlap, because they run with IRQs masked.            *)
(*                                                                         *)
(* Addresses count from __heap_start. A caller frees only what k_malloc()  *)
(* gave it and it has not freed yet: the code does not check it.           *)
(***************************************************************************)
EXTENDS Integers

CONSTANTS
    HeapBytes,    \* __heap_end - __heap_start
    HEADER_SIZE,  \* sizeof(block_header_t): 12
    WordMod,      \* number of values of size_t: 2^32
    Requests      \* arguments of k_malloc() considered

ASSUME HeaderAssumption == HEADER_SIZE \in Nat \ {0}
ASSUME WordHeaderAssumption == HEADER_SIZE % 4 = 0
ASSUME HeapBytesAssumption == HeapBytes \in Nat /\ HeapBytes >= HEADER_SIZE
ASSUME WordModAssumption == WordMod \in Nat /\ WordMod > HeapBytes
ASSUME RequestsAssumption == Requests \subseteq 0..(WordMod - 1)

VARIABLES
    hdr,    \* the headers in the list, by address
    op,     \* function being executed, or "none"
    curr,   \* its local of that name: a header or NULL
    n,      \* k_malloc()'s argument
    ret,    \* what k_malloc() returned last
    live    \* history: bytes asked for, by pointer not yet freed

vars == <<hdr, op, curr, n, ret, live>>

NULL == -1
free_list == 0     \* set once, by k_heap_init()

Headers == DOMAIN hdr
End(a) == a + HEADER_SIZE + hdr[a].size    \* first byte after block a
Is_free(a) == hdr[a].is_free
next(a) == hdr[a].next

(* k_heap_init()                                                           *)
WholeHeap == [a \in {free_list} |->
                 [size |-> HeapBytes - HEADER_SIZE, is_free |-> TRUE, next |-> NULL]]

Init ==
    /\ hdr = WholeHeap
    /\ op = "none"
    /\ curr = NULL
    /\ n = 0
    /\ ret = NULL
    /\ live = [p \in {} |-> 0]

-----------------------------------------------------------------------------
(* The local `size` of k_malloc(): (n + 7) & ~7 on a size_t. The operators *)
(* named X_... are mistakes one could make in X: PROJECT.json names the    *)
(* property that notices each.                                             *)
size_RoundsDown == n - (n % 8)
size_AsAsked == n
size == LET s == (n + 7) % WordMod IN s - (s % 8)

k_malloc(bytes) ==
    /\ op = "none"
    /\ op' = "k_malloc"
    /\ n' = bytes
    /\ curr' = free_list
    /\ UNCHANGED <<hdr, ret, live>>

Returns(p) ==
    /\ op' = "none"
    /\ curr' = NULL
    /\ ret' = p

Searching == op = "k_malloc" /\ curr # NULL
Fits_AnyBlock(a) == hdr[a].size >= size    \* no test of is_free
Fits(a) == Is_free(a) /\ hdr[a].size >= size

(* A block with more than a header and 8 bytes to spare is split.          *)
Splits_Always(a) == hdr[a].size >= size
Splits(a) == hdr[a].size > size + HEADER_SIZE + 8

RestSize_NoHeader(a) == hdr[a].size - size
RestSize(a) == hdr[a].size - size - HEADER_SIZE

Split(a) ==
    LET rest == a + HEADER_SIZE + size
    IN  hdr' = [b \in Headers \cup {rest} |->
                  CASE b = a    -> [size |-> size, is_free |-> FALSE, next |-> rest]
                    [] b = rest -> [size |-> RestSize(a), is_free |-> TRUE,
                                    next |-> next(a)]
                    [] OTHER    -> hdr[b]]

Take(a) == hdr' = [hdr EXCEPT ![a].is_free = FALSE]

Granted(p) ==
    live' = [q \in DOMAIN live \cup {p} |-> IF q = p THEN n ELSE live[q]]

(* The turn of the while of k_malloc() that finds a block...               *)
MallocFound ==
    /\ Searching
    /\ Fits(curr)
    /\ IF Splits(curr) THEN Split(curr) ELSE Take(curr)
    /\ Granted(curr + HEADER_SIZE)
    /\ Returns(curr + HEADER_SIZE)
    /\ UNCHANGED n

(* ... one that does not...                                                *)
MallocNext ==
    /\ Searching
    /\ ~Fits(curr)
    /\ curr' = next(curr)
    /\ UNCHANGED <<hdr, op, n, ret, live>>

(* ... and the end of the list.                                            *)
MallocFails ==
    /\ op = "k_malloc"
    /\ curr = NULL
    /\ Returns(NULL)
    /\ UNCHANGED <<hdr, n, live>>

-----------------------------------------------------------------------------
(* k_free(p); k_free(NULL) returns at once.                                *)
Pass_FromBlock(p) == p - HEADER_SIZE       \* forgets the blocks before it
Pass(p) == free_list

k_free(p) ==
    /\ op = "none"
    /\ p \in DOMAIN live
    /\ op' = "k_free"
    /\ hdr' = [hdr EXCEPT ![p - HEADER_SIZE].is_free = TRUE]
    /\ live' = [q \in DOMAIN live \ {p} |-> live[q]]
    /\ curr' = Pass(p)
    /\ UNCHANGED <<n, ret>>

Coalescing == op = "k_free" /\ next(curr) # NULL

Mergeable(a) == Is_free(a) /\ Is_free(next(a))

(* The block after curr is absorbed, and curr is looked at again...        *)
FreeMerge ==
    /\ Coalescing
    /\ Mergeable(curr)
    /\ hdr' = [b \in Headers \ {next(curr)} |->
                  IF b = curr
                  THEN [hdr[b] EXCEPT !.size = @ + hdr[next(b)].size + HEADER_SIZE,
                                      !.next = next(next(b))]
                  ELSE hdr[b]]
    /\ UNCHANGED <<op, curr, n, ret, live>>

(* ... or the pass goes on...                                              *)
FreeNext_Stays == Coalescing /\ ~Mergeable(curr) /\ UNCHANGED vars

FreeNext ==
    /\ Coalescing
    /\ ~Mergeable(curr)
    /\ curr' = next(curr)
    /\ UNCHANGED <<hdr, op, n, ret, live>>

(* ... up to the last block.                                               *)
FreeDone ==
    /\ op = "k_free"
    /\ next(curr) = NULL
    /\ op' = "none"
    /\ curr' = NULL
    /\ UNCHANGED <<hdr, n, ret, live>>

(* The two totals: walks along the list with IRQs masked. main() prints the*)
(* first; no system call gives them to a task, and nobody calls the second.*)
k_get_free_heap ==
    LET free[a \in Headers \cup {NULL}] ==
            IF a = NULL THEN 0
            ELSE free[next(a)] + (IF Is_free(a) THEN hdr[a].size ELSE 0)
    IN  free[free_list]

k_get_max_free_block_Taken ==     \* no test of is_free
    LET largest[a \in Headers \cup {NULL}] ==
            IF a = NULL THEN 0
            ELSE IF hdr[a].size > largest[next(a)] THEN hdr[a].size ELSE largest[next(a)]
    IN  largest[free_list]

k_get_max_free_block ==
    LET largest[a \in Headers \cup {NULL}] ==
            IF a = NULL THEN 0
            ELSE IF Is_free(a) /\ hdr[a].size > largest[next(a)] THEN hdr[a].size
            ELSE largest[next(a)]
    IN  largest[free_list]

Loops == MallocFound \/ MallocNext \/ MallocFails \/ FreeMerge \/ FreeNext \/ FreeDone

Next ==
    \/ \E bytes \in Requests : k_malloc(bytes)
    \/ \E p \in DOMAIN live : k_free(p)
    \/ MallocFound
    \/ MallocNext
    \/ MallocFails
    \/ FreeMerge
    \/ FreeNext
    \/ FreeDone

(* A function that was called keeps running; nobody has to call.           *)
Fairness == WF_vars(Loops)

Spec == Init /\ [][Next]_vars
FairSpec == Spec /\ Fairness

-----------------------------------------------------------------------------
Block == [size : 0..(HeapBytes - HEADER_SIZE), is_free : BOOLEAN,
          next : 0..(HeapBytes - 1) \cup {NULL}]

TypeOK ==
    /\ Headers \subseteq 0..(HeapBytes - 1)
    /\ hdr \in [Headers -> Block]
    /\ op \in {"none", "k_malloc", "k_free"}
    /\ curr \in Headers \cup {NULL}
    /\ op = "k_free" => curr # NULL
    /\ n \in Requests \cup {0}
    /\ op = "k_malloc" => n \in Requests
    /\ ret \in 0..HeapBytes \cup {NULL}
    /\ live \in [DOMAIN live -> Requests]

(* Between two calls and inside each: following `next` from free_list, the *)
(* blocks lie one after the other, without hole or overlap, and end with   *)
(* the heap (memory.c:41-49, 121-122).                                     *)
Tiled ==
    /\ free_list \in Headers
    /\ \A a \in Headers : IF next(a) = NULL THEN End(a) = HeapBytes
                                          ELSE next(a) = End(a) /\ next(a) \in Headers
    /\ \A a, b \in Headers : a < b => End(a) <= b

(* The bytes each caller asked for and did not free are inside one block   *)
(* that is not free, and no block is taken without a caller: nothing is    *)
(* handed out twice, cut short or leaked.                                  *)
LiveBacked ==
    /\ {a + HEADER_SIZE : a \in {b \in Headers : ~Is_free(b)}} = DOMAIN live
    /\ \A p \in DOMAIN live : hdr[p - HEADER_SIZE].size >= live[p]

(* When all was freed, in whatever order, the heap is what k_heap_init()   *)
(* made: one pass over the list leaves no fragment behind.                 *)
FullyRestored == op = "none" /\ DOMAIN live = {} => hdr = WholeHeap

(* Headers and callers' bytes begin at a multiple of a word, whatever the  *)
(* sizes asked for: a 12-byte header breaks the alignment to 8 that        *)
(* memory.c:25 and 38 speak of, never the one that headers, frames and     *)
(* memcpy() rely on.                                                       *)
WordAligned == \A a \in Headers : a % 4 = 0 /\ (a + HEADER_SIZE) % 4 = 0

(* The largest free block tells whether a k_malloc() will fail (memory.c:  *)
(* 169-170): the search fails exactly when that block is too small or, for *)
(* a request of no bytes, when there is none. And no byte is lost between  *)
(* the free ones, those of callers and the headers.                        *)
TakenBytes ==
    LET taken[a \in Headers \cup {NULL}] ==
            IF a = NULL THEN 0
            ELSE taken[next(a)] + (IF Is_free(a) THEN 0 ELSE hdr[a].size) + HEADER_SIZE
    IN  taken[free_list]

StatisticsHonest ==
    /\ op = "k_malloc" /\ curr = NULL =>
          size > k_get_max_free_block \/ (size = 0 /\ \A a \in Headers : ~Is_free(a))
    /\ Searching /\ Fits(curr) => size <= k_get_max_free_block
    /\ k_get_free_heap + TakenBytes = HeapBytes

(* Both loops end: no call turns the list into a ring.                     *)
CallsReturn == op # "none" ~> op = "none"
=============================================================================
