----------------------------- MODULE HeapProofs -----------------------------
(***************************************************************************)
(* Theorems about the heap, for every size of it and every set of requests *)
(* that do not wrap around: the list is sound, what the two totals say of  *)
(* it is true, and it implements Allocator.                                *)
(***************************************************************************)
EXTENDS HeapImplements, Recursion

USE HeaderAssumption, HeapBytesAssumption

(* Every byte of the heap belongs to a block.                              *)
Covered == \A x \in 0..(HeapBytes - 1) : \E a \in Headers : a <= x /\ x < End(a)

(* No two free blocks touch; during k_free(), none before curr do.         *)
Settled ==
    \A a \in Headers : (op = "k_free" => a < curr) /\ next(a) # NULL
                         => ~(Is_free(a) /\ Is_free(next(a)))

(* The search has passed no block that fits.                               *)
Passed ==
    op = "k_malloc" => \A a \in Headers : curr = NULL \/ a < curr => ~Fits(a)

IInv == TypeOK /\ Tiled /\ Covered /\ Settled /\ Passed /\ LiveBacked

(* Rounding gives a multiple of 8 that is large enough.                    *)
LEMMA RoundingUp ==
    ASSUME n \in Requests
    PROVE  n \in Nat /\ size \in Nat /\ size >= n /\ size = n + 7 - ((n + 7) % 8)
  <1>1. n \in Nat /\ n + 7 < WordMod /\ n + 7 >= 0 /\ WordMod \in Nat
    BY RequestsAssumption, NoWrapAssumption, WordModAssumption
  <1>2. (n + 7) % WordMod = n + 7
    BY <1>1
  <1>3. (n + 7) % 8 \in 0..7
    BY <1>1
  <1>4. QED
    BY <1>1, <1>2, <1>3 DEF size

LEMMA InitIInv == Init => IInv
  <1> SUFFICES ASSUME Init PROVE IInv
    OBVIOUS
  <1> USE DEF Init, WholeHeap, free_list, Headers, NULL
  <1>1. /\ Headers = {0}
        /\ hdr[0] = [size |-> HeapBytes - HEADER_SIZE, is_free |-> TRUE, next |-> NULL]
    OBVIOUS
  <1>2. TypeOK
    <2>1. hdr \in [Headers -> Block]
      BY <1>1 DEF Block
    <2>2. QED
      BY <1>1, <2>1 DEF TypeOK
  <1>3. Tiled /\ Covered
    BY <1>1 DEF Tiled, Covered, End, next
  <1>4. Settled /\ Passed
    BY <1>1 DEF Settled, Passed, next
  <1>5. LiveBacked
    BY <1>1 DEF LiveBacked, Is_free
  <1>6. QED
    BY <1>2, <1>3, <1>4, <1>5 DEF IInv

(* The shape of a block.                                                   *)
LEMMA BlockShape ==
    ASSUME TypeOK, Tiled, NEW a \in Headers
    PROVE  /\ a \in Nat /\ a < HeapBytes
           /\ hdr[a].size \in Nat /\ End(a) \in Nat /\ End(a) <= HeapBytes
           /\ Is_free(a) \in BOOLEAN
           /\ hdr[a] = [size |-> hdr[a].size, is_free |-> Is_free(a), next |-> next(a)]
           /\ next(a) \in Headers => next(a) = End(a) /\ next(a) # NULL
           /\ next(a) \notin Headers => next(a) = NULL /\ End(a) = HeapBytes
  <1>1. /\ a \in 0..(HeapBytes - 1) /\ hdr[a] \in Block
        /\ NULL \notin Headers
    BY DEF TypeOK, NULL
  <1>2. hdr[a].size \in Nat /\ End(a) \in Nat
    BY <1>1 DEF Block, End
  <1>3. End(a) <= HeapBytes
    <2>1. CASE next(a) = NULL
      BY <2>1 DEF Tiled
    <2>2. CASE next(a) # NULL
      BY <2>2 DEF Tiled, TypeOK
    <2>3. QED
      BY <2>1, <2>2
  <1>4. QED
    BY <1>1, <1>2, <1>3 DEF Block, Tiled, Is_free, next

(* Two headers in order: the second starts after the end of the first.     *)
LEMMA InOrder ==
    ASSUME TypeOK, Tiled, NEW a \in Headers, NEW b \in Headers, a < b
    PROVE  End(a) <= b /\ next(a) \in Headers /\ next(a) <= b
  <1>1. End(a) <= b
    BY DEF Tiled
  <1>2. b < HeapBytes /\ b \in Nat /\ End(a) \in Nat
    BY BlockShape
  <1>3. next(a) \in Headers
    <2>1. End(a) # HeapBytes
      BY <1>1, <1>2
    <2>2. QED
      BY <2>1, BlockShape
  <1>4. QED
    BY <1>1, <1>3, BlockShape

(* A step that leaves the list, the search and the callers alone.          *)
LEMMA SameList ==
    ASSUME IInv, hdr' = hdr, live' = live
    PROVE  Tiled' /\ Covered' /\ LiveBacked'
  <1> USE DEF IInv, Headers, End, next, Is_free
  <1>1. Tiled'
    BY DEF Tiled
  <1>2. Covered'
    BY DEF Covered
  <1>3. LiveBacked'
    BY DEF LiveBacked
  <1>4. QED
    BY <1>1, <1>2, <1>3

LEMMA CallStep ==
    ASSUME IInv, NEW bytes \in Requests, k_malloc(bytes) PROVE IInv'
  <1> USE DEF k_malloc, Headers
  <1>1. TypeOK'
    BY DEF IInv, TypeOK, Tiled
  <1>2. Settled'
    BY DEF IInv, Settled, next, Is_free
  <1>3. Passed'
    <2>1. \A a \in Headers : ~(a < free_list) /\ a # NULL
      BY DEF IInv, TypeOK, free_list, NULL
    <2>2. curr' = free_list /\ free_list # NULL
      BY DEF free_list, NULL
    <2>3. QED
      BY <2>1, <2>2 DEF Passed
  <1>4. QED
    BY <1>1, <1>2, <1>3, SameList DEF IInv

LEMMA MallocNextStep ==
    ASSUME IInv, MallocNext PROVE IInv'
  <1> USE DEF MallocNext, Searching, Headers
  <1>1. curr \in Headers
    BY DEF IInv, TypeOK
  <1>2. TypeOK'
    BY <1>1, BlockShape DEF IInv, TypeOK
  <1>3. Settled'
    BY DEF IInv, Settled, next, Is_free
  <1>4. Passed'
    <2> SUFFICES ASSUME NEW a \in Headers, curr' = NULL \/ a < curr'
                 PROVE  ~Fits(a)
      BY DEF Passed, Fits, Is_free, size
    <2>1. a \in Nat /\ curr \in Nat
      BY <1>1, BlockShape DEF IInv
    <2>2. CASE a < curr
      BY <1>1, <2>2 DEF IInv, Passed
    <2>3. CASE a = curr
      BY <2>3
    <2>4. CASE curr < a
      <3>1. next(curr) \in Headers /\ next(curr) <= a
        BY <1>1, <2>4, InOrder DEF IInv
      <3>2. next(curr) \in Nat /\ next(curr) # NULL
        BY <3>1, BlockShape DEF IInv, NULL
      <3>3. QED
        BY <2>1, <3>1, <3>2
    <2>5. QED
      BY <2>1, <2>2, <2>3, <2>4
  <1>5. QED
    BY <1>2, <1>3, <1>4, SameList DEF IInv

LEMMA MallocFailsStep ==
    ASSUME IInv, MallocFails PROVE IInv'
  <1> USE DEF MallocFails, Returns, Headers
  <1>1. TypeOK'
    BY DEF IInv, TypeOK, Tiled, NULL
  <1>2. Settled' /\ Passed'
    BY DEF IInv, Settled, Passed, next, Is_free
  <1>3. QED
    BY <1>1, <1>2, SameList DEF IInv

LEMMA FreeNextStep ==
    ASSUME IInv, FreeNext \/ FreeDone PROVE IInv'
  <1> USE DEF FreeNext, FreeDone, Coalescing, Headers
  <1>1. curr \in Headers
    BY DEF IInv, TypeOK
  <1>2. TypeOK'
    BY <1>1, BlockShape DEF IInv, TypeOK, NULL
  <1>3. Settled'
    <2> SUFFICES ASSUME NEW a \in Headers, op' = "k_free" => a < curr', next(a) # NULL
                 PROVE  ~(Is_free(a) /\ Is_free(next(a)))
      BY DEF Settled, Is_free, next
    <2>1. a \in Nat /\ curr \in Nat
      BY <1>1, BlockShape DEF IInv
    <2>2. CASE a < curr
      BY <2>2 DEF IInv, Settled
    <2>3. CASE a = curr
      BY <2>3 DEF Mergeable
    <2>4. CASE curr < a
      <3>1. next(curr) \in Headers /\ next(curr) <= a
        BY <1>1, <2>4, InOrder DEF IInv
      <3>2. next(curr) \in Nat /\ next(curr) # NULL
        BY <3>1, BlockShape DEF IInv, NULL
      <3>3. QED
        BY <2>1, <3>1, <3>2
    <2>5. QED
      BY <2>1, <2>2, <2>3, <2>4
  <1>4. Passed'
    BY DEF Passed
  <1>5. QED
    BY <1>2, <1>3, <1>4, SameList DEF IInv

(* Setting is_free of block b changes nothing else of the list.            *)
LEMMA MarkStep ==
    ASSUME IInv, NEW b \in Headers, NEW v \in BOOLEAN,
           hdr' = [hdr EXCEPT ![b].is_free = v]
    PROVE  /\ Headers' = Headers /\ hdr' \in [Headers -> Block]
           /\ Tiled' /\ Covered'
           /\ \A a \in Headers : /\ hdr'[a].size = hdr[a].size
                               /\ next(a)' = next(a)
                               /\ Is_free(a)' = IF a = b THEN v ELSE Is_free(a)
  <1>1. Headers' = Headers /\ DOMAIN hdr = Headers
    BY DEF Headers
  <1>2. ASSUME NEW a \in Headers
        PROVE  /\ hdr'[a].size = hdr[a].size /\ End(a)' = End(a)
               /\ next(a)' = next(a)
               /\ Is_free(a)' = IF a = b THEN v ELSE Is_free(a)
    <2>1. CASE a # b
      BY <1>1, <2>1 DEF End, next, Is_free
    <2>2. CASE a = b
      <3>1. hdr'[b] = [hdr[b] EXCEPT !.is_free = v]
        BY <1>1
      <3>2. hdr[b] \in Block
        BY DEF IInv, TypeOK
      <3>3. QED
        BY <2>2, <3>1, <3>2 DEF Block, End, next, Is_free
    <2>3. QED
      BY <2>1, <2>2
  <1>3. hdr' \in [Headers -> Block]
    BY DEF IInv, TypeOK, Block
  <1>4. Tiled'
    BY <1>1, <1>2 DEF IInv, Tiled
  <1>5. Covered'
    BY <1>1, <1>2 DEF IInv, Covered
  <1>6. QED
    BY <1>1, <1>2, <1>3, <1>4, <1>5

LEMMA FreeStep ==
    ASSUME IInv, NEW p \in DOMAIN live, k_free(p) PROVE IInv'
  <1> DEFINE b == p - HEADER_SIZE
  <1>1. b \in Headers /\ ~Is_free(b)
    <2>1. PICK a \in Headers : ~Is_free(a) /\ p = a + HEADER_SIZE
      BY DEF IInv, LiveBacked
    <2>2. b = a
      BY <2>1 DEF IInv, TypeOK
    <2>3. QED
      BY <2>1, <2>2
  <1>2. hdr' = [hdr EXCEPT ![b].is_free = TRUE]
    BY DEF k_free
  <1>3. /\ Headers' = Headers /\ hdr' \in [Headers -> Block]
        /\ Tiled' /\ Covered'
    BY <1>1, <1>2, MarkStep
  <1>4. \A a \in Headers : /\ hdr'[a].size = hdr[a].size
                         /\ Is_free(a)' = IF a = b THEN TRUE ELSE Is_free(a)
    BY <1>1, <1>2, MarkStep
  <1>5. TypeOK'
    <2>1. live' \in [DOMAIN live' -> Requests]
      BY DEF k_free, IInv, TypeOK
    <2>2. curr' \in Headers /\ curr' # NULL
      BY DEF k_free, Pass, IInv, Tiled, free_list, NULL
    <2>3. QED
      BY <1>3, <2>1, <2>2 DEF k_free, IInv, TypeOK
  <1>6. Settled'
    <2>1. \A a \in Headers : ~(a < free_list)
      BY DEF IInv, TypeOK, free_list
    <2>2. QED
      BY <1>3, <2>1 DEF Settled, k_free, Pass
  <1>7. Passed'
    BY DEF Passed, k_free
  <1>8. LiveBacked'
    <2>1. DOMAIN live' = DOMAIN live \ {p} /\ \A q \in DOMAIN live' : live'[q] = live[q]
      BY DEF k_free
    <2>2. {a \in Headers : ~Is_free(a)'} = {a \in Headers : ~Is_free(a)} \ {b}
      BY <1>1, <1>4
    <2>3. \A a \in Headers : a + HEADER_SIZE = p <=> a = b
      <3>1. b \in Int /\ p \in Int /\ HEADER_SIZE \in Int
        BY <1>1 DEF IInv, TypeOK, LiveBacked
      <3>2. \A a \in Headers : a \in Int
        BY DEF IInv, TypeOK
      <3>3. QED
        BY <3>1, <3>2
    <2>4. {a + HEADER_SIZE : a \in {c \in Headers : ~Is_free(c)'}} = DOMAIN live'
      BY <2>1, <2>2, <2>3, <1>1 DEF IInv, LiveBacked
    <2>5. ASSUME NEW q \in DOMAIN live' PROVE hdr'[q - HEADER_SIZE].size >= live'[q]
      <3>1. PICK a \in Headers : q = a + HEADER_SIZE
        BY <2>4
      <3>2. q - HEADER_SIZE = a
        BY <3>1 DEF IInv, TypeOK
      <3>3. hdr[a].size >= live[q]
        BY <2>1, <3>2 DEF IInv, LiveBacked
      <3>4. QED
        BY <1>4, <2>1, <3>2, <3>3
    <2>6. {c \in Headers : ~Is_free(c)}' = {c \in Headers : ~Is_free(c)'}
      BY <1>3
    <2>7. QED
      BY <2>4, <2>5, <2>6 DEF LiveBacked
  <1>9. QED
    BY <1>3, <1>5, <1>6, <1>7, <1>8 DEF IInv

-----------------------------------------------------------------------------
(* The bytes of a new block are enough for its caller.                     *)
LEMMA FoundSize ==
    ASSUME IInv, MallocFound
    PROVE  /\ curr \in Headers /\ curr \in Nat /\ Is_free(curr)
           /\ n \in Requests /\ n \in Nat /\ size \in Nat /\ n <= size
           /\ size <= hdr[curr].size /\ hdr[curr].size \in Nat
           /\ op = "k_malloc" /\ op' = "none" /\ n' = n /\ curr' = NULL
           /\ ret' = curr + HEADER_SIZE
           /\ live' = [q \in DOMAIN live \cup {curr + HEADER_SIZE} |->
                         IF q = curr + HEADER_SIZE THEN n ELSE live[q]]
  <1>1. curr \in Headers /\ Is_free(curr) /\ hdr[curr].size >= size
    BY DEF MallocFound, Searching, Fits, IInv, TypeOK
  <1>2. n \in Requests
    BY DEF MallocFound, Searching, IInv, TypeOK
  <1>3. n \in Nat /\ size \in Nat /\ n <= size
    BY <1>2, RoundingUp
  <1>4. curr \in Nat /\ hdr[curr].size \in Nat
    BY <1>1, BlockShape DEF IInv
  <1>5. QED
    BY <1>1, <1>2, <1>3, <1>4 DEF MallocFound, Searching, Returns, Granted

LEMMA TakeStep ==
    ASSUME IInv, MallocFound, ~Splits(curr) PROVE IInv'
  <1> DEFINE b == curr
             p == curr + HEADER_SIZE
  <1>1. hdr' = [hdr EXCEPT ![b].is_free = FALSE]
    BY DEF MallocFound, Take
  <1>2. /\ Headers' = Headers /\ hdr' \in [Headers -> Block]
        /\ Tiled' /\ Covered'
    BY <1>1, FoundSize, MarkStep
  <1>3. \A a \in Headers : /\ hdr'[a].size = hdr[a].size
                         /\ next(a)' = next(a)
                         /\ Is_free(a)' = IF a = b THEN FALSE ELSE Is_free(a)
    BY <1>1, FoundSize, MarkStep
  <1>4. p \in 0..HeapBytes
    <2>1. curr \in Headers /\ curr \in Nat /\ hdr[curr].size \in Nat
      BY FoundSize
    <2>2. End(curr) <= HeapBytes
      BY <2>1, BlockShape DEF IInv
    <2>3. QED
      BY <2>1, <2>2 DEF End
  <1>5. TypeOK'
    <2>1. live' \in [DOMAIN live' -> Requests]
      BY FoundSize DEF IInv, TypeOK
    <2>2. QED
      BY <1>2, <1>4, <2>1, FoundSize DEF IInv, TypeOK
  <1>6. Settled'
    <2>1. \A a \in Headers : next(a) # NULL => next(a) \in Headers
      BY DEF IInv, Tiled
    <2>2. QED
      BY <1>2, <1>3, <2>1, FoundSize DEF IInv, Settled
  <1>7. Passed'
    BY FoundSize DEF Passed
  <1>8. LiveBacked'
    <2>1. DOMAIN live' = DOMAIN live \cup {p}
      BY FoundSize
    <2>2. {a \in Headers : ~Is_free(a)'} = {a \in Headers : ~Is_free(a)} \cup {b}
      BY <1>3, FoundSize
    <2>3. {a + HEADER_SIZE : a \in {c \in Headers : ~Is_free(c)'}} = DOMAIN live'
      BY <2>1, <2>2 DEF IInv, LiveBacked
    <2>4. ASSUME NEW q \in DOMAIN live' PROVE hdr'[q - HEADER_SIZE].size >= live'[q]
      <3>1. PICK a \in Headers : q = a + HEADER_SIZE
        BY <2>3
      <3>2. q - HEADER_SIZE = a
        BY <3>1 DEF IInv, TypeOK
      <3>3. CASE q = p
        <4>1. a = b /\ live'[q] = n
          BY <3>1, <3>2, <3>3, FoundSize
        <4>2. /\ n \in Nat /\ size \in Nat /\ hdr[b].size \in Nat
              /\ n <= size /\ size <= hdr[b].size
          BY FoundSize
        <4>3. hdr'[a].size = hdr[b].size
          BY <1>3, <4>1
        <4>4. QED
          BY <3>2, <4>1, <4>2, <4>3
      <3>4. CASE q # p
        <4>1. q \in DOMAIN live /\ live'[q] = live[q]
          BY <2>1, <3>4, FoundSize
        <4>2. QED
          BY <1>3, <3>2, <4>1 DEF IInv, LiveBacked
      <3>5. QED
        BY <3>3, <3>4
    <2>5. {c \in Headers : ~Is_free(c)}' = {c \in Headers : ~Is_free(c)'}
      BY <1>2
    <2>6. QED
      BY <2>3, <2>4, <2>5 DEF LiveBacked
  <1>9. QED
    BY <1>2, <1>5, <1>6, <1>7, <1>8 DEF IInv

(* The block split off lies inside the one found, where no header is.      *)
LEMMA RestIsNew ==
    ASSUME IInv, MallocFound, Splits(curr),
           NEW b, b = curr, NEW rest, rest = b + HEADER_SIZE + size
    PROVE  /\ rest \in Nat /\ b < rest /\ rest + HEADER_SIZE < End(b)
           /\ End(b) <= HeapBytes /\ End(b) \in Nat
           /\ rest \notin Headers
  <1>1. b \in Headers /\ b \in Nat /\ size \in Nat /\ hdr[b].size \in Nat
    BY FoundSize
  <1>2. size + HEADER_SIZE + 8 < hdr[b].size
    BY DEF Splits
  <1>3. End(b) <= HeapBytes /\ End(b) \in Nat
    BY <1>1, BlockShape DEF IInv
  <1>4. rest \in Nat /\ b < rest /\ rest + HEADER_SIZE < End(b)
    BY <1>1, <1>2, <1>3 DEF End
  <1>5. \A c \in Headers : b < c => End(b) <= c
    BY <1>1 DEF IInv, Tiled
  <1>6. ASSUME rest \in Headers PROVE FALSE
    <2>1. End(b) <= rest
      BY <1>4, <1>5, <1>6
    <2>2. QED
      BY <1>3, <1>4, <2>1
  <1>7. QED
    BY <1>3, <1>4, <1>6

LEMMA SplitStep ==
    ASSUME IInv, MallocFound, Splits(curr) PROVE IInv'
  <1>0. PICK b, rest, p : /\ b = curr /\ p = b + HEADER_SIZE
                          /\ rest = b + HEADER_SIZE + size
    OBVIOUS
  <1>1. /\ b \in Headers /\ b \in Nat /\ size \in Nat /\ hdr[b].size \in Nat
        /\ Is_free(b) /\ n \in Nat /\ n <= size
    BY <1>0, FoundSize
  <1>2. size + HEADER_SIZE + 8 < hdr[b].size
    BY <1>0 DEF Splits
  <1>3. /\ rest \in Nat /\ b < rest /\ rest + HEADER_SIZE < End(b)
        /\ End(b) <= HeapBytes /\ End(b) \in Nat
    BY <1>0, RestIsNew
  <1>4. rest \notin Headers
    BY <1>0, RestIsNew
  <1>5. /\ Headers' = Headers \cup {rest}
        /\ hdr'[b] = [size |-> size, is_free |-> FALSE, next |-> rest]
        /\ hdr'[rest] = [size |-> RestSize(b), is_free |-> TRUE, next |-> next(b)]
        /\ \A a \in Headers : a # b => hdr'[a] = hdr[a]
    <2>1. Split(curr)
      BY DEF MallocFound
    <2>2. QED
      BY <1>0, <1>1, <1>3, <1>4, <2>1 DEF Split, Headers
  <1>6. /\ End(b)' = rest /\ next(b)' = rest /\ ~Is_free(b)'
        /\ End(rest)' = End(b) /\ next(rest)' = next(b) /\ Is_free(rest)'
    BY <1>0, <1>1, <1>3, <1>4, <1>5 DEF End, next, Is_free, RestSize
  <1>7. \A a \in Headers : a # b => /\ End(a)' = End(a) /\ next(a)' = next(a)
                                  /\ Is_free(a)' = Is_free(a)
    BY <1>5 DEF End, next, Is_free
  <1>8. TypeOK'
    <2>1. hdr'[b] \in Block /\ hdr'[rest] \in Block
      <3>1. next(b) \in 0..(HeapBytes - 1) \cup {NULL}
        BY <1>1 DEF IInv, TypeOK, Block, next
      <3>2. RestSize(b) \in 0..(HeapBytes - HEADER_SIZE)
        BY <1>0, <1>1, <1>2, <1>3 DEF RestSize, End
      <3>3. size \in 0..(HeapBytes - HEADER_SIZE) /\ rest \in 0..(HeapBytes - 1)
        BY <1>0, <1>1, <1>2, <1>3 DEF End
      <3>4. QED
        BY <1>5, <3>1, <3>2, <3>3 DEF Block
    <2>2. DOMAIN hdr' = Headers \cup {rest} /\ hdr' = [a \in DOMAIN hdr' |-> hdr'[a]]
      BY <1>0, <1>5 DEF MallocFound, Split, Headers
    <2>3. \A a \in DOMAIN hdr' : hdr'[a] \in Block
      BY <1>5, <2>1, <2>2 DEF IInv, TypeOK
    <2>4. hdr' \in [Headers' -> Block]
      BY <1>5, <2>2, <2>3
    <2>5. live' \in [DOMAIN live' -> Requests]
      BY FoundSize DEF IInv, TypeOK
    <2>6. Headers' \subseteq 0..(HeapBytes - 1) /\ p \in 0..HeapBytes
      <3>1. rest \in 0..(HeapBytes - 1) /\ p <= rest /\ p \in Nat
        BY <1>0, <1>1, <1>3
      <3>2. QED
        BY <1>5, <3>1 DEF IInv, TypeOK
    <2>7. QED
      BY <1>0, <2>4, <2>5, <2>6, FoundSize DEF IInv, TypeOK
  <1>9. Tiled'
    <2>1. free_list \in Headers'
      BY <1>5 DEF IInv, Tiled
    <2>2. ASSUME NEW a \in Headers'
          PROVE  IF next(a)' = NULL THEN End(a)' = HeapBytes
                                    ELSE next(a)' = End(a)' /\ next(a)' \in Headers'
      <3>1. CASE a = b
        BY <1>3, <1>5, <1>6, <3>1 DEF NULL
      <3>2. CASE a = rest
        BY <1>1, <1>5, <1>6, <3>2 DEF IInv, Tiled
      <3>3. CASE a # b /\ a # rest
        BY <1>5, <1>7, <3>3 DEF IInv, Tiled
      <3>4. QED
        BY <3>1, <3>2, <3>3
    <2>3. ASSUME NEW a \in Headers', NEW c \in Headers', a < c PROVE End(a)' <= c
      <3>1. \A d \in Headers : d \in Nat
        BY DEF IInv, TypeOK
      <3>2. CASE a = b
        <4>1. CASE c = rest
          BY <1>3, <1>6, <3>2, <4>1
        <4>2. CASE c # rest
          <5>1. c \in Nat /\ End(b) <= c
            BY <1>1, <1>5, <2>3, <3>1, <3>2, <4>2 DEF IInv, Tiled
          <5>2. QED
            BY <1>1, <1>3, <1>6, <3>2, <5>1
        <4>3. QED
          BY <4>1, <4>2
      <3>3. CASE a = rest
        <4>1. c \in Headers /\ b < c
          BY <1>1, <1>3, <1>5, <2>3, <3>1, <3>3
        <4>2. QED
          BY <1>1, <1>6, <3>3, <4>1 DEF IInv, Tiled
      <3>4. CASE a # b /\ a # rest
        <4>1. a \in Headers /\ End(a)' = End(a)
          BY <1>5, <1>7, <3>4
        <4>2. CASE c # rest
          BY <1>5, <2>3, <4>1, <4>2 DEF IInv, Tiled
        <4>3. CASE c = rest
          <5>1. a < b
            <6>1. a \in Nat /\ a < rest /\ a # b
              BY <2>3, <3>1, <3>4, <4>1, <4>3
            <6>2. b < a => End(b) <= a
              BY <1>1, <4>1 DEF IInv, Tiled
            <6>3. QED
              BY <1>1, <1>3, <6>1, <6>2
          <5>2. End(a) <= b /\ End(a) \in Nat
            BY <1>1, <4>1, <5>1, BlockShape DEF IInv, Tiled
          <5>3. QED
            BY <1>1, <1>3, <4>1, <4>3, <5>2
        <4>4. QED
          BY <4>2, <4>3
      <3>5. QED
        BY <3>2, <3>3, <3>4
    <2>4. QED
      BY <2>1, <2>2, <2>3 DEF Tiled
  <1>10. Covered'
    <2> SUFFICES ASSUME NEW x \in 0..(HeapBytes - 1)
                 PROVE  \E a \in Headers' : a <= x /\ x < End(a)'
      BY DEF Covered
    <2>1. PICK a \in Headers : a <= x /\ x < End(a)
      BY DEF IInv, Covered
    <2>2. CASE a # b
      BY <1>5, <1>7, <2>1, <2>2
    <2>3. CASE a = b /\ x < rest
      BY <1>5, <1>6, <2>1, <2>3
    <2>4. CASE a = b /\ rest <= x
      BY <1>5, <1>6, <2>1, <2>4
    <2>5. QED
      BY <1>3, <2>2, <2>3, <2>4
  <1>11. Settled'
    <2> SUFFICES ASSUME NEW a \in Headers', next(a)' # NULL, Is_free(a)'
                 PROVE  ~Is_free(next(a))'
      BY DEF Settled
    <2>1. a # b
      BY <1>6
    <2>2. CASE a = rest
      <3>1. next(a)' = next(b) /\ next(b) \in Headers
        BY <1>1, <1>6, <2>2 DEF IInv, Tiled
      <3>2. ~Is_free(next(b)) /\ next(b) # b
        BY <1>1, <1>6, <2>2, <3>1, FoundSize DEF IInv, Settled
      <3>3. QED
        BY <1>5, <3>1, <3>2 DEF Is_free
    <2>3. CASE a # rest
      <3>1. a \in Headers /\ next(a)' = next(a) /\ Is_free(a)
        BY <1>5, <1>7, <2>1, <2>3
      <3>2. next(a) \in Headers /\ ~Is_free(next(a))
        BY <2>3, <3>1, FoundSize DEF IInv, Tiled, Settled
      <3>3. next(a) # b
        BY <1>1, <3>2
      <3>4. QED
        BY <1>5, <3>1, <3>2, <3>3 DEF Is_free
    <2>4. QED
      BY <2>2, <2>3
  <1>12. Passed'
    BY FoundSize DEF Passed
  <1>13. LiveBacked'
    <2>1. DOMAIN live' = DOMAIN live \cup {p}
      BY <1>0, FoundSize
    <2>2. {a \in Headers : ~Is_free(a)}' = {a \in Headers : ~Is_free(a)} \cup {b}
      BY <1>1, <1>5, <1>6, <1>7
    <2>3. {a + HEADER_SIZE : a \in {c \in Headers : ~Is_free(c)}'} = DOMAIN live'
      <3>1. {a + HEADER_SIZE : a \in {c \in Headers : ~Is_free(c)}} = DOMAIN live
        BY DEF IInv, LiveBacked
      <3>2. QED
        BY <1>0, <2>1, <2>2, <3>1
    <2>4. ASSUME NEW q \in DOMAIN live' PROVE hdr'[q - HEADER_SIZE].size >= live'[q]
      <3>1. PICK a \in Headers : q = a + HEADER_SIZE
        BY <1>1, <2>2, <2>3
      <3>2. q - HEADER_SIZE = a
        BY <3>1 DEF IInv, TypeOK
      <3>3. CASE q = p
        <4>1. a = b /\ live'[q] = n
          BY <1>0, <1>1, <3>1, <3>2, <3>3, FoundSize
        <4>2. QED
          BY <1>1, <1>5, <3>2, <4>1
      <3>4. CASE q # p
        <4>1. q \in DOMAIN live /\ live'[q] = live[q] /\ a # b
          BY <1>0, <2>1, <3>1, <3>4, FoundSize
        <4>2. QED
          BY <1>5, <3>2, <4>1 DEF IInv, LiveBacked
      <3>5. QED
        BY <3>3, <3>4
    <2>5. QED
      BY <2>3, <2>4 DEF LiveBacked
  <1>14. QED
    BY <1>8, <1>9, <1>10, <1>11, <1>12, <1>13 DEF IInv

LEMMA MergeStep ==
    ASSUME IInv, FreeMerge PROVE IInv'
  <1>1. PICK b, m : b = curr /\ m = next(b)
    OBVIOUS
  <1>2. /\ b \in Headers /\ m \in Headers /\ op = "k_free"
        /\ Is_free(b) /\ Is_free(m)
    BY <1>1 DEF FreeMerge, Coalescing, Mergeable, IInv, TypeOK, Tiled
  <1>3. /\ b \in Nat /\ m \in Nat /\ m = End(b) /\ b < m
        /\ hdr[b].size \in Nat /\ hdr[m].size \in Nat
        /\ End(m) \in Nat /\ End(m) <= HeapBytes
    <2>1. m = End(b) /\ hdr[b].size \in Nat
      BY <1>1, <1>2, BlockShape DEF IInv
    <2>2. b \in Nat /\ m \in Nat /\ hdr[m].size \in Nat /\ End(m) \in Nat
          /\ End(m) <= HeapBytes
      BY <1>2, BlockShape DEF IInv
    <2>3. QED
      BY <2>1, <2>2 DEF End
  <1>4. /\ Headers' = Headers \ {m}
        /\ hdr'[b] = [hdr[b] EXCEPT !.size = @ + hdr[m].size + HEADER_SIZE,
                                    !.next = next(m)]
        /\ \A a \in Headers' : a # b => hdr'[a] = hdr[a]
    <2>1. hdr' = [c \in Headers \ {m} |->
                    IF c = b
                    THEN [hdr[c] EXCEPT !.size = @ + hdr[next(c)].size + HEADER_SIZE,
                                        !.next = next(next(c))]
                    ELSE hdr[c]]
      BY <1>1 DEF FreeMerge
    <2>2. Headers' = Headers \ {m}
      BY <2>1 DEF Headers
    <2>3. b \in Headers \ {m}
      BY <1>2, <1>3
    <2>4. hdr'[b] = [hdr[b] EXCEPT !.size = @ + hdr[next(b)].size + HEADER_SIZE,
                                   !.next = next(next(b))]
      BY <2>1, <2>3
    <2>5. QED
      BY <1>1, <2>1, <2>2, <2>4
  <1>5. /\ hdr'[b].size = hdr[b].size + hdr[m].size + HEADER_SIZE
        /\ End(b)' = End(m) /\ next(b)' = next(m) /\ Is_free(b)' = Is_free(b)
    <2>1. hdr[b] = [size |-> hdr[b].size, is_free |-> Is_free(b), next |-> next(b)]
      BY <1>2, BlockShape DEF IInv
    <2>2. /\ hdr'[b].size = hdr[b].size + hdr[m].size + HEADER_SIZE
          /\ hdr'[b].next = next(m) /\ hdr'[b].is_free = Is_free(b)
      BY <1>4, <2>1
    <2>3. QED
      BY <1>3, <2>2 DEF End, next, Is_free
  <1>6. \A a \in Headers' : a # b => /\ End(a)' = End(a) /\ next(a)' = next(a)
                                   /\ Is_free(a)' = Is_free(a)
    BY <1>4 DEF End, next, Is_free
  <1>7. ASSUME NEW a \in Headers, a # b PROVE next(a) # m
    <2> SUFFICES ASSUME next(a) = m PROVE FALSE
      OBVIOUS
    <2>1. End(a) = m /\ a \in Nat /\ hdr[a].size \in Nat
      BY <1>2, BlockShape DEF IInv
    <2>2. a < b => End(a) <= b
      BY <1>2 DEF IInv, Tiled
    <2>3. b < a => m <= a
      BY <1>2, <1>3 DEF IInv, Tiled
    <2>4. QED
      BY <1>3, <1>7, <2>1, <2>2, <2>3 DEF End
  <1>8. TypeOK'
    <2>1. hdr'[b] \in Block
      <3>1. hdr[b] \in Block /\ next(m) \in 0..(HeapBytes - 1) \cup {NULL}
        BY <1>2 DEF IInv, TypeOK, Block, next
      <3>2. hdr'[b].size \in 0..(HeapBytes - HEADER_SIZE)
        BY <1>3, <1>5 DEF End
      <3>3. QED
        BY <1>4, <1>5, <3>1, <3>2 DEF Block
    <2>2. DOMAIN hdr' = Headers' /\ hdr' = [a \in DOMAIN hdr' |-> hdr'[a]]
      BY DEF FreeMerge, Headers
    <2>3. hdr' \in [Headers' -> Block]
      BY <1>4, <2>1, <2>2 DEF IInv, TypeOK
    <2>4. curr' \in Headers' /\ curr' # NULL
      <3>1. curr' = b
        BY <1>1 DEF FreeMerge
      <3>2. b \in Headers' /\ b # NULL
        BY <1>2, <1>3, <1>4 DEF NULL
      <3>3. QED
        BY <3>1, <3>2
    <2>5. QED
      BY <1>2, <1>4, <2>3, <2>4 DEF FreeMerge, IInv, TypeOK
  <1>9. Tiled'
    <2>1. free_list \in Headers'
      BY <1>3, <1>4 DEF IInv, Tiled, free_list
    <2>2. ASSUME NEW a \in Headers'
          PROVE  IF next(a)' = NULL THEN End(a)' = HeapBytes
                                    ELSE next(a)' = End(a)' /\ next(a)' \in Headers'
      <3>1. CASE a = b
        <4>1. next(m) # m
          <5>1. next(m) \in Headers => next(m) = End(m)
            BY <1>2, BlockShape DEF IInv
          <5>2. End(m) # m
            BY <1>3 DEF End
          <5>3. QED
            BY <1>2, <5>1, <5>2
        <4>2. IF next(m) = NULL THEN End(m) = HeapBytes
                                ELSE next(m) = End(m) /\ next(m) \in Headers
          BY <1>2 DEF IInv, Tiled
        <4>3. QED
          BY <1>4, <1>5, <3>1, <4>1, <4>2
      <3>2. CASE a # b
        BY <1>4, <1>6, <1>7, <3>2 DEF IInv, Tiled
      <3>3. QED
        BY <3>1, <3>2
    <2>3. ASSUME NEW a \in Headers', NEW c \in Headers', a < c PROVE End(a)' <= c
      <3>1. a \in Headers /\ c \in Headers /\ c # m
        BY <1>4
      <3>2. CASE a = b
        <4>1. m <= c /\ c \in Nat
          BY <1>2, <1>3, <2>3, <3>1, <3>2 DEF IInv, Tiled, TypeOK
        <4>2. m < c
          BY <1>3, <3>1, <4>1
        <4>3. QED
          BY <1>2, <1>5, <3>1, <3>2, <4>2 DEF IInv, Tiled
      <3>3. CASE a # b
        BY <1>6, <2>3, <3>1, <3>3 DEF IInv, Tiled
      <3>4. QED
        BY <3>2, <3>3
    <2>4. QED
      BY <2>1, <2>2, <2>3 DEF Tiled
  <1>10. Covered'
    <2> SUFFICES ASSUME NEW x \in 0..(HeapBytes - 1)
                 PROVE  \E a \in Headers' : a <= x /\ x < End(a)'
      BY DEF Covered
    <2>1. PICK a \in Headers : a <= x /\ x < End(a)
      BY DEF IInv, Covered
    <2>2. CASE a # b /\ a # m
      BY <1>4, <1>6, <2>1, <2>2
    <2>3. CASE a = b \/ a = m
      <3>1. b <= x /\ x < End(m)
        BY <1>3, <2>1, <2>3 DEF End
      <3>2. b \in Headers'
        BY <1>2, <1>3, <1>4
      <3>3. QED
        BY <1>5, <3>1, <3>2
    <2>4. QED
      BY <2>2, <2>3
  <1>11. Settled'
    <2> SUFFICES ASSUME NEW a \in Headers', a < b, next(a)' # NULL, Is_free(a)'
                 PROVE  ~Is_free(next(a))'
      BY <1>1, <1>2 DEF Settled, FreeMerge
    <2>1. a # b /\ a \in Headers
      BY <1>3, <1>4
    <2>2. next(a)' = next(a) /\ Is_free(a) /\ next(a) # m
      BY <1>6, <1>7, <2>1
    <2>3. next(a) \in Headers'
      BY <1>4, <2>1, <2>2 DEF IInv, Tiled
    <2>4. ~Is_free(next(a))
      BY <1>1, <1>2, <2>1, <2>2 DEF IInv, Settled
    <2>5. next(a) # b
      BY <1>2, <2>4
    <2>6. QED
      BY <1>4, <2>2, <2>3, <2>4, <2>5 DEF Is_free
  <1>12. Passed'
    BY <1>2 DEF Passed, FreeMerge
  <1>13. LiveBacked'
    <2>1. live' = live
      BY DEF FreeMerge
    <2>2. {a \in Headers : ~Is_free(a)}' = {a \in Headers : ~Is_free(a)}
      BY <1>2, <1>4, <1>5, <1>6
    <2>3. ASSUME NEW q \in DOMAIN live PROVE hdr'[q - HEADER_SIZE].size >= live[q]
      <3>1. PICK a \in Headers : ~Is_free(a) /\ q = a + HEADER_SIZE
        BY DEF IInv, LiveBacked
      <3>2. q - HEADER_SIZE = a
        BY <3>1 DEF IInv, TypeOK
      <3>3. a # b /\ a \in Headers'
        BY <1>2, <1>4, <3>1
      <3>4. QED
        BY <1>4, <3>2, <3>3 DEF IInv, LiveBacked
    <2>4. QED
      BY <2>1, <2>2, <2>3 DEF IInv, LiveBacked
  <1>14. QED
    BY <1>8, <1>9, <1>10, <1>11, <1>12, <1>13 DEF IInv

LEMMA NextIInv == IInv /\ [Next]_vars => IInv'
  <1> SUFFICES ASSUME IInv, [Next]_vars PROVE IInv'
    OBVIOUS
  <1>1. CASE MallocFound
    BY <1>1, TakeStep, SplitStep
  <1>2. CASE UNCHANGED vars
    <2>1. TypeOK' /\ Settled' /\ Passed'
      BY <1>2 DEF vars, IInv, TypeOK, Settled, Passed, Headers, next, Is_free, Fits, size
    <2>2. QED
      BY <1>2, <2>1, SameList DEF vars, IInv
  <1>3. QED
    BY <1>1, <1>2, CallStep, FreeStep, MallocNextStep, MallocFailsStep, MergeStep,
       FreeNextStep DEF Next

LEMMA SpecIInv == Spec => []IInv
  BY InitIInv, NextIInv, PTL DEF Spec

(* Type correctness of the headers.                                        *)
THEOREM HeapTyped == Spec => []TypeOK
  BY SpecIInv, PTL DEF IInv

(* The blocks always tile the heap.                                        *)
THEOREM HeapTiled == Spec => []Tiled
  BY SpecIInv, PTL DEF IInv

(* What callers hold is backed by blocks of their own, and nothing leaks.  *)
THEOREM CallersBacked == Spec => []LiveBacked
  BY SpecIInv, PTL DEF IInv

(* Once everything is freed the heap is one free block again.              *)
THEOREM FreedHeapIsWhole == Spec => []FullyRestored
  <1>1. IInv => FullyRestored
    <2> SUFFICES ASSUME IInv, op = "none", DOMAIN live = {} PROVE hdr = WholeHeap
      BY DEF FullyRestored
    <2>1. \A a \in Headers : Is_free(a)
      BY DEF IInv, LiveBacked
    <2>2. 0 \in Headers
      BY DEF IInv, Tiled, free_list
    <2>3. next(0) = NULL
      BY <2>1, <2>2 DEF IInv, Settled, Tiled
    <2>4. End(0) = HeapBytes
      BY <2>2, <2>3 DEF IInv, Tiled
    <2>5. ASSUME NEW c \in Headers PROVE c = 0
      <3>1. c \in Nat /\ c < HeapBytes
        BY BlockShape DEF IInv
      <3>2. 0 < c => End(0) <= c
        BY <2>2 DEF IInv, Tiled
      <3>3. QED
        BY <2>4, <3>1, <3>2
    <2>6. Headers = {0}
      BY <2>2, <2>5
    <2>7. hdr[0] = [size |-> HeapBytes - HEADER_SIZE, is_free |-> TRUE, next |-> NULL]
      <3>1. /\ hdr[0] = [size |-> hdr[0].size, is_free |-> Is_free(0), next |-> next(0)]
            /\ hdr[0].size \in Nat /\ Is_free(0) \in BOOLEAN
        BY <2>2, BlockShape DEF IInv
      <3>2. hdr[0].size = HeapBytes - HEADER_SIZE
        BY <2>4, <3>1 DEF End
      <3>3. Is_free(0) = TRUE
        BY <2>1, <2>2, <3>1
      <3>4. QED
        BY <2>3, <3>1, <3>2, <3>3
    <2>8. hdr = [a \in Headers |-> hdr[a]]
      BY DEF IInv, TypeOK
    <2>9. QED
      BY <2>6, <2>7, <2>8 DEF WholeHeap, free_list
  <1>2. QED
    BY <1>1, SpecIInv, PTL

-----------------------------------------------------------------------------
LEMMA WordSum ==
  ASSUME NEW i \in Nat, NEW j \in Nat, NEW k \in Nat, i % 4 = 0, j % 4 = 0, k % 8 = 0
  PROVE  (i + j + k) % 4 = 0 /\ (i + j) % 4 = 0
  BY SMT

LEMMA EightFold ==
  ASSUME NEW i \in Nat, NEW s \in Nat, s = i + 7 - ((i + 7) % 8) PROVE s % 8 = 0
  BY SMT

(* The only header a step adds is that of the rest of a split.             *)
LEMMA NewHeader ==
  ASSUME IInv, [Next]_vars, NEW h \in Headers', h \notin Headers
  PROVE  /\ op = "k_malloc" /\ curr \in Headers
         /\ h = curr + HEADER_SIZE + size
  <1>1. CASE MallocFound
    <2>1. op = "k_malloc" /\ curr \in Headers
      BY <1>1 DEF MallocFound, Searching, IInv, TypeOK
    <2>2. CASE Split(curr)
      BY <2>1, <2>2 DEF Split, Headers
    <2>3. CASE Take(curr)
      BY <2>3 DEF Take, Headers
    <2>4. QED
      BY <1>1, <2>1, <2>2, <2>3 DEF MallocFound
  <1>2. CASE FreeMerge
    BY <1>2 DEF FreeMerge, Headers
  <1>3. ASSUME NEW p \in DOMAIN live, k_free(p) PROVE FALSE
    BY <1>3 DEF k_free, Headers
  <1>4. CASE hdr' = hdr
    BY <1>4 DEF Headers
  <1>5. QED
    BY <1>1, <1>2, <1>3, <1>4
       DEF Next, vars, k_malloc, MallocNext, MallocFails, FreeNext, FreeDone

(* Headers and callers' bytes lie on words, whatever sizes are asked for.  *)
THEOREM HeapAligned == Spec => []WordAligned
  <1>1. Init => WordAligned
    BY WordHeaderAssumption, HeaderAssumption
       DEF Init, WholeHeap, free_list, Headers, WordAligned
  <1>2. ASSUME IInv, WordAligned, [Next]_vars PROVE WordAligned'
    <2> SUFFICES ASSUME NEW h \in Headers' PROVE h % 4 = 0 /\ (h + HEADER_SIZE) % 4 = 0
      BY DEF WordAligned
    <2>1. CASE h \in Headers
      BY <1>2, <2>1 DEF WordAligned
    <2>2. CASE h \notin Headers
      <3>1. op = "k_malloc" /\ curr \in Headers /\ h = curr + HEADER_SIZE + size
        BY <1>2, <2>2, NewHeader
      <3>2. n \in Requests
        BY <1>2, <3>1 DEF IInv, TypeOK
      <3>3. n \in Nat /\ size \in Nat /\ size = n + 7 - ((n + 7) % 8)
        BY <3>2, RoundingUp
      <3>4. size % 8 = 0
        BY <3>3, EightFold
      <3>5. curr \in Nat /\ HEADER_SIZE \in Nat /\ curr % 4 = 0 /\ HEADER_SIZE % 4 = 0
        BY <1>2, <3>1, BlockShape, HeaderAssumption, WordHeaderAssumption
           DEF IInv, WordAligned
      <3>6. h \in Nat /\ h % 4 = 0
        BY <3>1, <3>3, <3>4, <3>5, WordSum
      <3>7. (h + HEADER_SIZE) % 4 = 0
        BY <3>4, <3>5, <3>6, WordSum
      <3>8. QED
        BY <3>6, <3>7
    <2>3. QED
      BY <2>1, <2>2
  <1>3. QED
    BY <1>1, <1>2, SpecIInv, PTL DEF Spec

-----------------------------------------------------------------------------
(* The list is finite and goes up, so what holds of a header whenever it   *)
(* holds of the next one holds of all.                                     *)

(* How far a header is from the end of the heap.                           *)
Far(a) == HeapBytes - a

LEMMA NextIsNearer ==
    ASSUME TypeOK, Tiled, NEW a \in Headers
    PROVE  /\ Far(a) \in Nat /\ Far(a) # 0
           /\ next(a) = NULL \/ (next(a) \in Headers /\ Far(next(a)) + 1 <= Far(a))
  <1>1. /\ a \in Nat /\ a < HeapBytes /\ hdr[a].size \in Nat
        /\ next(a) \in Headers => next(a) = End(a)
        /\ next(a) \notin Headers => next(a) = NULL
    BY BlockShape
  <1>2. End(a) >= a + 1
    BY <1>1 DEF End
  <1>3. QED
    BY <1>1, <1>2 DEF Far, End

LEMMA AlongTheList ==
    ASSUME TypeOK, Tiled, NEW S,
           \A a \in Headers : next(a) = NULL \/ next(a) \in S => a \in S
    PROVE  Headers \subseteq S
  <1> DEFINE T == {k \in Nat : \A a \in Headers : Far(a) <= k => a \in S}
  <1>1. 0 \in T
    BY NextIsNearer
  <1>2. ASSUME NEW k \in Nat, k \in T PROVE k + 1 \in T
    <2>1. ASSUME NEW a \in Headers, Far(a) <= k + 1 PROVE a \in S
      <3>1. next(a) = NULL \/ (next(a) \in Headers /\ Far(next(a)) <= k)
        <4>1. CASE next(a) \in Headers
          BY <2>1, <4>1, NextIsNearer
        <4>2. QED
          BY <4>1, NextIsNearer
      <3>2. QED
        BY <1>2, <3>1
    <2>2. QED
      BY <2>1
  <1> HIDE DEF T
  <1>3. Nat \subseteq T
    BY <1>1, <1>2, Induct
  <1>4. ASSUME NEW a \in Headers PROVE a \in S
    <2>1. Far(a) \in T
      BY <1>3, NextIsNearer
    <2>2. QED
      BY <2>1, NextIsNearer DEF T
  <1>5. QED
    BY <1>4

(* A walk along the list: from the last block back, what is known of the   *)
(* blocks after one is combined with that block. There is a function that  *)
(* does it, whatever is combined.                                          *)
Places == Headers \cup {NULL}
Walk(f, step) == f = [a \in Places |-> IF a = NULL THEN 0 ELSE step[<<a, f[next(a)]>>]]

LEMMA WalkExists ==
    ASSUME TypeOK, Tiled, NEW step \in [Headers \X Nat -> Nat]
    PROVE  \E f \in [Places -> Nat] : Walk(f, step)
  <1> DEFINE Upto(f, k) == \A a \in Headers : Far(a) <= k => f[a] = step[<<a, f[next(a)]>>]
             T == {k \in Nat : \E f \in [Places -> Nat] : f[NULL] = 0 /\ Upto(f, k)}
  <1>0. NULL \notin Headers
    BY DEF TypeOK, NULL
  <1>1. 0 \in T
    <2>1. [a \in Places |-> 0] \in [Places -> Nat] /\ [a \in Places |-> 0][NULL] = 0
      BY DEF Places
    <2>2. Upto([a \in Places |-> 0], 0)
      BY NextIsNearer
    <2>3. QED
      BY <2>1, <2>2
  <1>2. ASSUME NEW k \in Nat, k \in T PROVE k + 1 \in T
    <2>1. PICK f \in [Places -> Nat] : f[NULL] = 0 /\ Upto(f, k)
      BY <1>2
    <2> DEFINE g == [a \in Places |-> IF a = NULL THEN 0 ELSE step[<<a, f[next(a)]>>]]
    <2>2. \A a \in Headers : next(a) \in Places /\ f[next(a)] \in Nat
      BY NextIsNearer DEF Places
    <2>3. g \in [Places -> Nat] /\ g[NULL] = 0
      <3>1. \A a \in Headers : step[<<a, f[next(a)]>>] \in Nat
        BY <2>2
      <3>2. QED
        BY <3>1 DEF Places
    <2>4. ASSUME NEW a \in Headers, Far(a) <= k + 1 PROVE g[a] = step[<<a, g[next(a)]>>]
      <3>1. g[a] = step[<<a, f[next(a)]>>]
        BY <1>0 DEF Places
      <3>2. g[next(a)] = f[next(a)]
        <4>1. CASE next(a) = NULL
          BY <2>1, <2>3, <4>1
        <4>2. CASE next(a) # NULL
          <5>1. next(a) \in Headers /\ Far(next(a)) <= k
            BY <2>4, <4>2, NextIsNearer
          <5>2. f[next(a)] = step[<<next(a), f[next(next(a))]>>]
            BY <2>1, <5>1
          <5>3. QED
            BY <1>0, <5>1, <5>2 DEF Places
        <4>3. QED
          BY <4>1, <4>2
      <3>3. QED
        BY <3>1, <3>2
    <2>5. Upto(g, k + 1)
      BY <2>4
    <2> HIDE DEF g, Upto
    <2>6. \E h \in [Places -> Nat] : h[NULL] = 0 /\ Upto(h, k + 1)
      BY <2>3, <2>5
    <2>7. QED
      BY <2>6
  <1> HIDE DEF T
  <1>3. HeapBytes \in T
    <2>1. Nat \subseteq T
      BY <1>1, <1>2, Induct
    <2>2. QED
      BY <2>1
  <1>4. PICK f \in [Places -> Nat] : f[NULL] = 0 /\ Upto(f, HeapBytes)
    BY <1>3 DEF T
  <1>5. ASSUME NEW a \in Headers PROVE Far(a) <= HeapBytes
    <2>1. a \in Nat
      BY BlockShape
    <2>2. QED
      BY <2>1 DEF Far
  <1>6. \A a \in Places : f[a] = IF a = NULL THEN 0 ELSE step[<<a, f[next(a)]>>]
    BY <1>0, <1>4, <1>5 DEF Places
  <1>7. Walk(f, step)
    BY <1>6 DEF Walk
  <1>8. QED
    BY <1>7

(* The three walks of the code, by what each block adds to a result.       *)
WithFree(a, s) == s + (IF Is_free(a) THEN hdr[a].size ELSE 0)
WithTaken(a, s) == s + (IF Is_free(a) THEN 0 ELSE hdr[a].size) + HEADER_SIZE
WithLargest(a, s) == IF Is_free(a) /\ hdr[a].size > s THEN hdr[a].size ELSE s

FreeWalk == CHOOSE free : free =
    [a \in Headers \cup {NULL} |-> IF a = NULL THEN 0 ELSE WithFree(a, free[next(a)])]
TakenWalk == CHOOSE taken : taken =
    [a \in Headers \cup {NULL} |-> IF a = NULL THEN 0 ELSE WithTaken(a, taken[next(a)])]
LargestWalk == CHOOSE largest : largest =
    [a \in Headers \cup {NULL} |-> IF a = NULL THEN 0 ELSE WithLargest(a, largest[next(a)])]

LEMMA FreeWalked == k_get_free_heap = FreeWalk[free_list]
  BY DEF k_get_free_heap, FreeWalk, WithFree

LEMMA TakenWalked == TakenBytes = TakenWalk[free_list]
  BY DEF TakenBytes, TakenWalk, WithTaken

LEMMA LargestWalked == k_get_max_free_block = LargestWalk[free_list]
  BY DEF k_get_max_free_block, LargestWalk, WithLargest

LEMMA FreeWalkIs ==
    ASSUME TypeOK, Tiled
    PROVE  /\ FreeWalk \in [Places -> Nat] /\ FreeWalk[NULL] = 0
           /\ \A a \in Headers : FreeWalk[a] = WithFree(a, FreeWalk[next(a)])
  <1> DEFINE step == [at \in Headers \X Nat |-> WithFree(at[1], at[2])]
  <1>1. NULL \notin Headers /\ HEADER_SIZE \in Nat
    BY DEF TypeOK, NULL
  <1>2. \A a \in Headers : /\ hdr[a].size \in Nat /\ Is_free(a) \in BOOLEAN
                           /\ next(a) \in Places
    BY BlockShape, NextIsNearer DEF Places
  <1>3. \A a \in Headers, s \in Nat : WithFree(a, s) \in Nat
    BY <1>1, <1>2 DEF WithFree
  <1>4. step \in [Headers \X Nat -> Nat]
    BY <1>3
  <1> HIDE DEF step
  <1>5. PICK f \in [Places -> Nat] : Walk(f, step)
    BY <1>4, WalkExists
  <1>6. f = [a \in Headers \cup {NULL} |-> IF a = NULL THEN 0 ELSE WithFree(a, f[next(a)])]
    <2>1. ASSUME NEW a \in Headers
          PROVE  step[<<a, f[next(a)]>>] = WithFree(a, f[next(a)])
      <3>1. <<a, f[next(a)]>> \in Headers \X Nat
        BY <1>2
      <3>2. QED
        BY <3>1 DEF step
    <2>2. QED
      BY <1>5, <2>1 DEF Walk, Places
  <1>7. FreeWalk = [a \in Headers \cup {NULL} |->
                    IF a = NULL THEN 0 ELSE WithFree(a, FreeWalk[next(a)])]
    BY <1>6 DEF FreeWalk
  <1> HIDE DEF FreeWalk
  <1>8. /\ FreeWalk[NULL] = 0
        /\ \A a \in Headers : FreeWalk[a] = WithFree(a, FreeWalk[next(a)])
    BY <1>1, <1>7
  <1> DEFINE S == {a \in Headers : FreeWalk[a] \in Nat}
  <1>9. ASSUME NEW a \in Headers, next(a) = NULL \/ next(a) \in S PROVE a \in S
    BY <1>3, <1>8, <1>9
  <1>10. Headers \subseteq S
    <2> HIDE DEF S
    <2>1. QED
      BY <1>9, AlongTheList
  <1>11. FreeWalk \in [Places -> Nat]
    BY <1>7, <1>8, <1>10 DEF Places
  <1>12. QED
    BY <1>8, <1>11

LEMMA TakenWalkIs ==
    ASSUME TypeOK, Tiled
    PROVE  /\ TakenWalk \in [Places -> Nat] /\ TakenWalk[NULL] = 0
           /\ \A a \in Headers : TakenWalk[a] = WithTaken(a, TakenWalk[next(a)])
  <1> DEFINE step == [at \in Headers \X Nat |-> WithTaken(at[1], at[2])]
  <1>1. NULL \notin Headers /\ HEADER_SIZE \in Nat
    BY DEF TypeOK, NULL
  <1>2. \A a \in Headers : /\ hdr[a].size \in Nat /\ Is_free(a) \in BOOLEAN
                           /\ next(a) \in Places
    BY BlockShape, NextIsNearer DEF Places
  <1>3. \A a \in Headers, s \in Nat : WithTaken(a, s) \in Nat
    BY <1>1, <1>2 DEF WithTaken
  <1>4. step \in [Headers \X Nat -> Nat]
    BY <1>3
  <1> HIDE DEF step
  <1>5. PICK f \in [Places -> Nat] : Walk(f, step)
    BY <1>4, WalkExists
  <1>6. f = [a \in Headers \cup {NULL} |-> IF a = NULL THEN 0 ELSE WithTaken(a, f[next(a)])]
    <2>1. ASSUME NEW a \in Headers
          PROVE  step[<<a, f[next(a)]>>] = WithTaken(a, f[next(a)])
      <3>1. <<a, f[next(a)]>> \in Headers \X Nat
        BY <1>2
      <3>2. QED
        BY <3>1 DEF step
    <2>2. QED
      BY <1>5, <2>1 DEF Walk, Places
  <1>7. TakenWalk = [a \in Headers \cup {NULL} |->
                    IF a = NULL THEN 0 ELSE WithTaken(a, TakenWalk[next(a)])]
    BY <1>6 DEF TakenWalk
  <1> HIDE DEF TakenWalk
  <1>8. /\ TakenWalk[NULL] = 0
        /\ \A a \in Headers : TakenWalk[a] = WithTaken(a, TakenWalk[next(a)])
    BY <1>1, <1>7
  <1> DEFINE S == {a \in Headers : TakenWalk[a] \in Nat}
  <1>9. ASSUME NEW a \in Headers, next(a) = NULL \/ next(a) \in S PROVE a \in S
    BY <1>3, <1>8, <1>9
  <1>10. Headers \subseteq S
    <2> HIDE DEF S
    <2>1. QED
      BY <1>9, AlongTheList
  <1>11. TakenWalk \in [Places -> Nat]
    BY <1>7, <1>8, <1>10 DEF Places
  <1>12. QED
    BY <1>8, <1>11

LEMMA LargestWalkIs ==
    ASSUME TypeOK, Tiled
    PROVE  /\ LargestWalk \in [Places -> Nat] /\ LargestWalk[NULL] = 0
           /\ \A a \in Headers : LargestWalk[a] = WithLargest(a, LargestWalk[next(a)])
  <1> DEFINE step == [at \in Headers \X Nat |-> WithLargest(at[1], at[2])]
  <1>1. NULL \notin Headers /\ HEADER_SIZE \in Nat
    BY DEF TypeOK, NULL
  <1>2. \A a \in Headers : /\ hdr[a].size \in Nat /\ Is_free(a) \in BOOLEAN
                           /\ next(a) \in Places
    BY BlockShape, NextIsNearer DEF Places
  <1>3. \A a \in Headers, s \in Nat : WithLargest(a, s) \in Nat
    BY <1>1, <1>2 DEF WithLargest
  <1>4. step \in [Headers \X Nat -> Nat]
    BY <1>3
  <1> HIDE DEF step
  <1>5. PICK f \in [Places -> Nat] : Walk(f, step)
    BY <1>4, WalkExists
  <1>6. f = [a \in Headers \cup {NULL} |-> IF a = NULL THEN 0 ELSE WithLargest(a, f[next(a)])]
    <2>1. ASSUME NEW a \in Headers
          PROVE  step[<<a, f[next(a)]>>] = WithLargest(a, f[next(a)])
      <3>1. <<a, f[next(a)]>> \in Headers \X Nat
        BY <1>2
      <3>2. QED
        BY <3>1 DEF step
    <2>2. QED
      BY <1>5, <2>1 DEF Walk, Places
  <1>7. LargestWalk = [a \in Headers \cup {NULL} |->
                    IF a = NULL THEN 0 ELSE WithLargest(a, LargestWalk[next(a)])]
    BY <1>6 DEF LargestWalk
  <1> HIDE DEF LargestWalk
  <1>8. /\ LargestWalk[NULL] = 0
        /\ \A a \in Headers : LargestWalk[a] = WithLargest(a, LargestWalk[next(a)])
    BY <1>1, <1>7
  <1> DEFINE S == {a \in Headers : LargestWalk[a] \in Nat}
  <1>9. ASSUME NEW a \in Headers, next(a) = NULL \/ next(a) \in S PROVE a \in S
    BY <1>3, <1>8, <1>9
  <1>10. Headers \subseteq S
    <2> HIDE DEF S
    <2>1. QED
      BY <1>9, AlongTheList
  <1>11. LargestWalk \in [Places -> Nat]
    BY <1>7, <1>8, <1>10 DEF Places
  <1>12. QED
    BY <1>8, <1>11

(* The bytes from a block to the end of the heap are free, taken, or those *)
(* of headers.                                                             *)
LEMMA AddsUp ==
    ASSUME TypeOK, Tiled
    PROVE  k_get_free_heap + TakenBytes = HeapBytes
  <1> DEFINE S == {a \in Headers : FreeWalk[a] + TakenWalk[a] = HeapBytes - a}
  <1>1. ASSUME NEW a \in Headers, next(a) = NULL \/ next(a) \in S PROVE a \in S
    <2>1. /\ a \in Nat /\ hdr[a].size \in Nat /\ End(a) = a + HEADER_SIZE + hdr[a].size
          /\ next(a) \in Headers => next(a) = End(a)
          /\ next(a) = NULL => End(a) = HeapBytes
      BY BlockShape DEF End, TypeOK, NULL
    <2>2. FreeWalk[next(a)] + TakenWalk[next(a)] = HeapBytes - End(a)
      BY <1>1, <2>1, FreeWalkIs, TakenWalkIs
    <2>3. /\ FreeWalk[next(a)] \in Nat /\ TakenWalk[next(a)] \in Nat
      BY NextIsNearer, FreeWalkIs, TakenWalkIs DEF Places
    <2>4. FreeWalk[a] + TakenWalk[a]
            = FreeWalk[next(a)] + TakenWalk[next(a)] + hdr[a].size + HEADER_SIZE
      <3>1. /\ FreeWalk[a] = FreeWalk[next(a)] + (IF Is_free(a) THEN hdr[a].size ELSE 0)
            /\ TakenWalk[a] = TakenWalk[next(a)] + (IF Is_free(a) THEN 0 ELSE hdr[a].size)
                                + HEADER_SIZE
        BY FreeWalkIs, TakenWalkIs DEF WithFree, WithTaken
      <3>2. QED
        BY <2>1, <2>3, <3>1
    <2>5. QED
      BY <2>1, <2>2, <2>3, <2>4
  <1>2. Headers \subseteq S
    <2> HIDE DEF S
    <2>1. QED
      BY <1>1, AlongTheList
  <1>3. FreeWalk[free_list] + TakenWalk[free_list] = HeapBytes
    BY <1>2 DEF Tiled, free_list
  <1>4. QED
    BY <1>3, FreeWalked, TakenWalked

(* The largest is the size of a free block, and no free block is larger.   *)
LEMMA LargestIs ==
    ASSUME TypeOK, Tiled
    PROVE  /\ k_get_max_free_block \in Nat
           /\ \A a \in Headers : Is_free(a) => hdr[a].size <= k_get_max_free_block
           /\ \/ \E a \in Headers : Is_free(a) /\ hdr[a].size = k_get_max_free_block
              \/ k_get_max_free_block = 0 /\ \A a \in Headers : Is_free(a) => hdr[a].size = 0
  <1> DEFINE Bound(a) == \A b \in Headers : a <= b /\ Is_free(b) => hdr[b].size <= LargestWalk[a]
             Found(a) == \/ \E b \in Headers : Is_free(b) /\ hdr[b].size = LargestWalk[a]
                         \/ LargestWalk[a] = 0
             S == {a \in Headers : Bound(a) /\ Found(a)}
  <1>1. ASSUME NEW a \in Headers, next(a) = NULL \/ next(a) \in S PROVE a \in S
    <2>1. /\ a \in Nat /\ hdr[a].size \in Nat /\ LargestWalk[next(a)] \in Nat
          /\ LargestWalk[a] = IF Is_free(a) /\ hdr[a].size > LargestWalk[next(a)]
                              THEN hdr[a].size ELSE LargestWalk[next(a)]
      BY BlockShape, NextIsNearer, LargestWalkIs DEF WithLargest, Places
    <2>2. Found(a)
      BY <1>1, <2>1, LargestWalkIs
    <2>3. ASSUME NEW b \in Headers, a <= b, Is_free(b) PROVE hdr[b].size <= LargestWalk[a]
      <3>1. CASE a = b
        BY <2>1, <2>3, <3>1
      <3>2. CASE a # b
        <4>0. b \in Nat /\ hdr[b].size \in Nat
          BY BlockShape
        <4>1. a < b
          BY <2>1, <2>3, <3>2, <4>0
        <4>2. next(a) \in Headers /\ next(a) <= b /\ next(a) # NULL
          BY <4>1, InOrder DEF TypeOK, NULL
        <4>3. hdr[b].size <= LargestWalk[next(a)]
          BY <1>1, <2>3, <4>2
        <4>4. QED
          BY <2>1, <4>0, <4>3
      <3>3. QED
        BY <3>1, <3>2
    <2>4. QED
      BY <2>2, <2>3
  <1>2. Headers \subseteq S
    <2> HIDE DEF S
    <2>1. QED
      BY <1>1, AlongTheList
  <1>3. free_list \in S /\ \A a \in Headers : free_list <= a /\ hdr[a].size \in Nat
    <2>1. free_list \in Headers
      BY DEF Tiled
    <2>2. ASSUME NEW a \in Headers PROVE free_list <= a /\ hdr[a].size \in Nat
      <3>1. a \in Nat /\ hdr[a].size \in Nat
        BY BlockShape
      <3>2. QED
        BY <3>1 DEF free_list
    <2> HIDE DEF S
    <2>3. QED
      BY <1>2, <2>1, <2>2
  <1>4. LargestWalk[free_list] \in Nat
    BY <1>3, LargestWalkIs DEF WithLargest, Places
  <1> HIDE DEF Found
  <1>5. \A a \in Headers : Is_free(a) => hdr[a].size <= LargestWalk[free_list]
    BY <1>3
  <1>6. Found(free_list)
    BY <1>3
  <1>7. QED
    BY <1>3, <1>4, <1>5, <1>6, LargestWalked DEF Found

(* What the two totals say is true: the next k_malloc()                    *)
(* fails exactly when the largest free block is too small for it, and the  *)
(* bytes that are not free are those of callers and of headers.            *)
THEOREM TotalsAreHonest == Spec => []StatisticsHonest
  <1>1. ASSUME IInv PROVE StatisticsHonest
    <2> USE <1>1 DEF IInv
    <2>1. ASSUME op = "k_malloc", curr = NULL
          PROVE  size > k_get_max_free_block \/ (size = 0 /\ \A a \in Headers : ~Is_free(a))
      <3>1. \A a \in Headers : ~Fits(a)
        BY <2>1 DEF Passed
      <3>2. n \in Requests
        BY <2>1 DEF TypeOK
      <3>3. size \in Nat
        BY <3>2, RoundingUp
      <3>4. ASSUME NEW a \in Headers, Is_free(a)
            PROVE  hdr[a].size \in Nat /\ hdr[a].size < size
        <4>1. hdr[a].size \in Nat
          BY BlockShape
        <4>2. QED
          BY <3>1, <3>3, <3>4, <4>1 DEF Fits
      <3>5. CASE \E a \in Headers : Is_free(a) /\ hdr[a].size = k_get_max_free_block
        BY <3>3, <3>4, <3>5, LargestIs
      <3>6. CASE k_get_max_free_block = 0 /\ \A a \in Headers : Is_free(a) => hdr[a].size = 0
        BY <3>3, <3>4, <3>6
      <3>7. QED
        BY <3>5, <3>6, LargestIs
    <2>2. ASSUME Searching, Fits(curr) PROVE size <= k_get_max_free_block
      <3>1. curr \in Headers /\ n \in Requests
        BY <2>2 DEF Searching, TypeOK
      <3>2. size \in Nat /\ hdr[curr].size \in Nat
        BY <3>1, RoundingUp, BlockShape
      <3>3. QED
        BY <2>2, <3>1, <3>2, LargestIs DEF Fits
    <2>3. k_get_free_heap + TakenBytes = HeapBytes
      BY AddsUp
    <2>4. QED
      BY <2>1, <2>2, <2>3 DEF StatisticsHonest
  <1>2. QED
    BY <1>1, SpecIInv, PTL


-----------------------------------------------------------------------------
(* The abstract blocks, seen from the list.                                *)
LEMMA UsedBlocks ==
    ASSUME IInv
    PROVE  /\ DOMAIN Used = {a + HEADER_SIZE : a \in Taken}
           /\ \A a \in Taken :
                 /\ a \in Headers /\ a \in Nat
                 /\ a + HEADER_SIZE \in DOMAIN Used
                 /\ Promise!From(a + HEADER_SIZE) = a
                 /\ Used[a + HEADER_SIZE] = hdr[a].size
                 /\ Promise!To(Used, a + HEADER_SIZE) = End(a)
  <1>1. DOMAIN Used = {a + HEADER_SIZE : a \in Taken}
    BY DEF Used
  <1>2. ASSUME NEW a \in Taken
        PROVE  /\ a \in Headers /\ a \in Nat
               /\ a + HEADER_SIZE \in DOMAIN Used
               /\ Promise!From(a + HEADER_SIZE) = a
               /\ Used[a + HEADER_SIZE] = hdr[a].size
               /\ Promise!To(Used, a + HEADER_SIZE) = End(a)
    <2>1. a \in Headers /\ a \in Nat /\ hdr[a].size \in Nat
      BY BlockShape DEF Taken, IInv
    <2>2. (a + HEADER_SIZE) - HEADER_SIZE = a
      BY <2>1
    <2>3. a + HEADER_SIZE \in DOMAIN Used /\ Used[a + HEADER_SIZE] = hdr[a].size
      BY <1>1, <2>2 DEF Used
    <2>4. QED
      BY <2>1, <2>2, <2>3 DEF Promise!From, Promise!To, End
  <1>3. QED
    BY <1>1, <1>2

LEMMA UsedSeparate == IInv => Promise!Separate(Used)
  <1> SUFFICES ASSUME IInv PROVE Promise!Separate(Used)
    OBVIOUS
  <1>1. ASSUME NEW p \in DOMAIN Used
        PROVE  Promise!From(p) >= 0 /\ Used[p] >= 0 /\ Promise!To(Used, p) <= HeapBytes
    <2>1. PICK a \in Taken : p = a + HEADER_SIZE
      BY UsedBlocks
    <2>2. hdr[a].size \in Nat /\ End(a) <= HeapBytes /\ a \in Nat
      BY UsedBlocks, BlockShape DEF IInv
    <2>3. QED
      BY <2>1, <2>2, UsedBlocks
  <1>2. ASSUME NEW p \in DOMAIN Used, NEW q \in DOMAIN Used, p < q
        PROVE  Promise!To(Used, p) <= Promise!From(q)
    <2>1. PICK a \in Taken, c \in Taken : p = a + HEADER_SIZE /\ q = c + HEADER_SIZE
      BY UsedBlocks
    <2>2. a < c
      BY <1>2, <2>1, UsedBlocks
    <2>3. End(a) <= c
      BY <2>2, UsedBlocks DEF IInv, Tiled
    <2>4. QED
      BY <2>1, <2>3, UsedBlocks
  <1>3. QED
    BY <1>1, <1>2 DEF Promise!Separate

LEMMA InitRefines == Init => Promise!Init
  <1> SUFFICES ASSUME Init PROVE Promise!Init
    OBVIOUS
  <1>1. Taken = {}
    BY DEF Init, WholeHeap, Taken, Headers, Is_free
  <1>2. Used = [p \in {} |-> 0]
    BY <1>1 DEF Used
  <1>3. Call = Promise!NONE /\ ret = Promise!NONE
    BY DEF Init, Call, NULL, Promise!NONE
  <1>4. QED
    BY <1>2, <1>3 DEF Promise!Init

(* The search that found a block grants a separate one.                    *)
LEMMA FoundGrants ==
    ASSUME IInv, IInv', MallocFound
    PROVE  Promise!Grant
  <1>1. PICK b, p : b = curr /\ p = b + HEADER_SIZE
    OBVIOUS
  <1>2. /\ b \in Headers /\ b \in Nat /\ Is_free(b) /\ n \in Nat /\ n \in Requests
        /\ op = "k_malloc" /\ op' = "none" /\ ret' = p
        /\ live' = [q \in DOMAIN live \cup {p} |-> IF q = p THEN n ELSE live[q]]
    BY <1>1, FoundSize
  <1>3. Call = n /\ Call # NULL /\ Call' = NULL
    BY <1>2 DEF Call, NULL
  <1>4. DOMAIN Used = DOMAIN live /\ DOMAIN Used' = DOMAIN live'
    BY DEF Used, Taken, IInv, LiveBacked
  <1>5. p \notin DOMAIN Used
    <2>1. \A a \in Taken : a + HEADER_SIZE = p => a = b
      BY <1>1, <1>2, UsedBlocks
    <2>2. b \notin Taken
      BY <1>2 DEF Taken
    <2>3. QED
      BY <2>1, <2>2, UsedBlocks
  <1>6. DOMAIN Used' = DOMAIN Used \cup {p}
    BY <1>2, <1>4
  <1>7. \A a \in Headers : a # b => hdr'[a].size = hdr[a].size
    <2>1. CASE Splits(curr)
      <3>1. PICK rest : rest = b + HEADER_SIZE + size
        OBVIOUS
      <3>2. rest \notin Headers
        BY <1>1, <2>1, <3>1, RestIsNew
      <3>3. Split(curr)
        BY <2>1 DEF MallocFound
      <3>4. QED
        BY <1>1, <3>1, <3>2, <3>3 DEF Split, Headers
    <2>2. CASE ~Splits(curr)
      <3>1. hdr' = [hdr EXCEPT ![b].is_free = FALSE]
        BY <1>1, <2>2 DEF MallocFound, Take
      <3>2. QED
        BY <3>1 DEF Headers
    <2>3. QED
      BY <2>1, <2>2
  <1>8. ASSUME NEW q \in DOMAIN Used PROVE Used'[q] = Used[q]
    <2>1. PICK a \in Taken : q = a + HEADER_SIZE
      BY UsedBlocks
    <2>2. q - HEADER_SIZE = a /\ a \in Headers /\ a # b
      BY <1>2, <2>1, UsedBlocks DEF Taken
    <2>3. Used'[q] = hdr'[q - HEADER_SIZE].size
      BY <1>6 DEF Used
    <2>4. Used[q] = hdr[q - HEADER_SIZE].size
      BY DEF Used
    <2>5. QED
      BY <1>7, <2>2, <2>3, <2>4
  <1>9. Used'[p] >= n
    <2>1. Used'[p] = hdr'[p - HEADER_SIZE].size
      BY <1>6 DEF Used
    <2>2. p \in DOMAIN live' /\ live'[p] = n
      BY <1>2
    <2>3. QED
      BY <2>1, <2>2 DEF IInv, LiveBacked
  <1>10. Promise!Separate(Used')
    <2>1. (IInv => Promise!Separate(Used))'
      BY UsedSeparate, PTL
    <2>2. QED
      BY <2>1 DEF Promise!Separate, Promise!From, Promise!To
  <1>11. p # NULL
    BY <1>1, <1>2 DEF NULL
  <1>12. QED
    BY <1>2, <1>3, <1>5, <1>6, <1>8, <1>9, <1>10, <1>11
    DEF Promise!Grant, Promise!NONE, NULL

(* The search that found none leaves no room unused.                       *)
LEMMA FailsRefuses ==
    ASSUME IInv, MallocFails
    PROVE  Promise!Refuse
  <1>1. n \in Requests /\ Call = n /\ Call' = NULL /\ op = "k_malloc" /\ curr = NULL
    BY DEF MallocFails, Returns, Call, IInv, TypeOK
  <1>2. n \in Nat /\ size \in Nat /\ size = Promise!Rounded(n)
    BY <1>1, RoundingUp DEF Promise!Rounded
  <1>3. ASSUME NEW g \in 0..(HeapBytes - 1), Promise!Room(g, n) PROVE FALSE
    <2>1. PICK a \in Headers : a <= g /\ g < End(a)
      BY DEF IInv, Covered
    <2>2. /\ a \in Nat /\ hdr[a].size \in Nat /\ End(a) \in Nat /\ g \in Nat
          /\ g < HeapBytes
      <3>1. a \in Nat /\ hdr[a].size \in Nat /\ End(a) \in Nat
        BY BlockShape DEF IInv
      <3>2. QED
        BY <3>1
    <2>3. g + HEADER_SIZE + size <= HeapBytes
      BY <1>2, <1>3 DEF Promise!Room
    <2>4. ASSUME NEW c \in Taken PROVE End(c) <= g \/ g + HEADER_SIZE + size <= c
      BY <1>2, <1>3, UsedBlocks DEF Promise!Room
    <2>5. Is_free(a)
      <3>1. CASE a \in Taken
        BY <1>2, <2>1, <2>2, <2>4, <3>1
      <3>2. QED
        BY <3>1 DEF Taken
    <2>6. hdr[a].size < size
      BY <1>1, <1>2, <2>2, <2>5 DEF IInv, Passed, Fits
    <2>7. End(a) < g + HEADER_SIZE + size
      BY <1>2, <2>1, <2>2, <2>6 DEF End
    <2>8. next(a) # NULL
      <3>1. next(a) = NULL => End(a) = HeapBytes
        BY DEF IInv, Tiled
      <3>2. QED
        BY <1>2, <2>2, <2>3, <2>7, <3>1
    <2>9. PICK c : c = next(a) /\ c \in Headers /\ c = End(a)
      BY <2>8 DEF IInv, Tiled
    <2>10. c \in Taken
      BY <1>1, <2>5, <2>8, <2>9 DEF IInv, Settled, Taken
    <2>11. c <= End(c) /\ End(c) \in Nat /\ c \in Nat
      <3>1. c \in Nat /\ hdr[c].size \in Nat /\ End(c) \in Nat
        BY <2>9, BlockShape DEF IInv
      <3>2. QED
        BY <3>1 DEF End
    <2>12. QED
      BY <1>2, <2>1, <2>2, <2>4, <2>7, <2>9, <2>10, <2>11
  <1>4. Used' = Used
    BY DEF MallocFails, Used, Taken, Headers, Is_free
  <1>5. Call # Promise!NONE /\ Call' = Promise!NONE /\ ret' = Promise!NONE
    BY <1>1, <1>2 DEF Promise!NONE, NULL, MallocFails, Returns
  <1>6. QED
    BY <1>1, <1>3, <1>4, <1>5 DEF Promise!Refuse

(* Freeing a block takes it from the blocks in use.                        *)
LEMMA FreeFrees ==
    ASSUME IInv, IInv', NEW p \in DOMAIN live, k_free(p)
    PROVE  p \in DOMAIN Used /\ Promise!Free(p)
  <1>1. DOMAIN Used = DOMAIN live /\ DOMAIN Used' = DOMAIN live'
    BY DEF Used, Taken, IInv, LiveBacked
  <1>2. DOMAIN live' = DOMAIN live \ {p} /\ ret' = ret
    BY DEF k_free
  <1>3. PICK b \in Taken : p = b + HEADER_SIZE /\ b = p - HEADER_SIZE
    BY <1>1, UsedBlocks
  <1>4. hdr' = [hdr EXCEPT ![b].is_free = TRUE] /\ b \in Headers
    BY <1>3, UsedBlocks DEF k_free
  <1>5. \A a \in Headers : hdr'[a].size = hdr[a].size
    BY <1>4, MarkStep
  <1>6. ASSUME NEW q \in DOMAIN Used' PROVE Used'[q] = Used[q]
    <2>1. PICK a \in Taken : q = a + HEADER_SIZE /\ q - HEADER_SIZE = a /\ a \in Headers
      BY <1>1, <1>2, UsedBlocks
    <2>2. Used'[q] = hdr'[q - HEADER_SIZE].size /\ Used[q] = hdr[q - HEADER_SIZE].size
      BY <1>1, <1>2 DEF Used
    <2>3. QED
      BY <1>5, <2>1, <2>2
  <1>7. Used' = [q \in DOMAIN Used \ {p} |-> Used[q]]
    <2>1. Used' = [q \in DOMAIN Used' |-> Used'[q]]
      BY DEF Used
    <2>2. QED
      BY <1>1, <1>2, <1>6, <2>1
  <1>8. Call = Promise!NONE /\ Call' = Call
    BY DEF k_free, Call, Promise!NONE, NULL
  <1>9. QED
    BY <1>1, <1>2, <1>7, <1>8 DEF Promise!Free

(* Every step of the heap is a step of the allocator, or none.             *)
LEMMA StepRefines ==
    IInv /\ IInv' /\ [Next]_vars => [Promise!Next]_(Promise!vars)
  <1> SUFFICES ASSUME IInv, IInv', [Next]_vars
               PROVE  Promise!Next \/ UNCHANGED Promise!vars
    OBVIOUS
  <1>1. ASSUME NEW bytes \in Requests, k_malloc(bytes) PROVE Promise!Malloc(bytes)
    <2>1. Used' = Used /\ ret' = ret
      BY <1>1 DEF k_malloc, Used, Taken, Headers, Is_free
    <2>2. Call = Promise!NONE /\ Call' = bytes
      BY <1>1 DEF k_malloc, Call, Promise!NONE, NULL
    <2>3. QED
      BY <2>1, <2>2 DEF Promise!Malloc
  <1>2. CASE MallocNext \/ FreeNext \/ FreeDone \/ UNCHANGED vars
    <2>1. Used' = Used
      BY <1>2 DEF MallocNext, FreeNext, FreeDone, vars, Used, Taken, Headers, Is_free
    <2>2. Call' = Call /\ ret' = ret
      BY <1>2 DEF MallocNext, FreeNext, FreeDone, Coalescing, vars, Call
    <2>3. QED
      BY <2>1, <2>2 DEF Promise!vars
  <1>3. CASE FreeMerge
    <2>1. DOMAIN Used' = DOMAIN Used
      BY <1>3 DEF FreeMerge, Used, Taken, IInv, LiveBacked
    <2>2. \A a \in Headers : a # curr /\ a # next(curr) => hdr'[a] = hdr[a]
      BY <1>3 DEF FreeMerge, Headers
    <2>3. Is_free(curr) /\ Is_free(next(curr))
      BY <1>3 DEF FreeMerge, Mergeable
    <2>4. \A a \in Taken : hdr'[a] = hdr[a]
      BY <2>2, <2>3 DEF Taken
    <2>5. ASSUME NEW q \in DOMAIN Used PROVE Used'[q] = Used[q]
      <3>1. PICK a \in Taken : q = a + HEADER_SIZE /\ q - HEADER_SIZE = a
        BY UsedBlocks
      <3>2. Used'[q] = hdr'[q - HEADER_SIZE].size /\ Used[q] = hdr[q - HEADER_SIZE].size
        BY <2>1 DEF Used
      <3>3. QED
        BY <2>4, <3>1, <3>2
    <2>6. Used' = [q \in DOMAIN Used' |-> Used'[q]] /\ Used = [q \in DOMAIN Used |-> Used[q]]
      BY DEF Used
    <2>7. Used' = Used
      BY <2>1, <2>5, <2>6
    <2>8. Call' = Call /\ ret' = ret
      BY <1>3 DEF FreeMerge, Call
    <2>9. QED
      BY <2>7, <2>8 DEF Promise!vars
  <1>4. CASE MallocFound
    BY <1>4, FoundGrants DEF Promise!Next
  <1>5. CASE MallocFails
    BY <1>5, FailsRefuses DEF Promise!Next
  <1>6. ASSUME NEW p \in DOMAIN live, k_free(p) PROVE Promise!Next
    BY <1>6, FreeFrees DEF Promise!Next
  <1>7. QED
    BY <1>1, <1>2, <1>3, <1>4, <1>5, <1>6 DEF Next, Promise!Next

(* The block list implements the allocator: separate blocks, large enough, *)
(* and NULL only when no room is left.                                     *)
THEOREM HeapIsAllocator == Spec => Implements
  <1>1. Init => Promise!Init
    BY InitRefines
  <1>2. IInv /\ IInv' /\ [Next]_vars => [Promise!Next]_(Promise!vars)
    BY StepRefines
  <1>3. QED
    BY <1>1, <1>2, SpecIInv, PTL DEF Spec, Implements, Promise!Spec
=============================================================================
