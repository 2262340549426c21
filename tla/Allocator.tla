------------------------------ MODULE Allocator ------------------------------
(***************************************************************************)
(* What a caller of the kernel heap relies on (memory.h), with no list, no *)
(* search order and no coalescing: blocks that are in use never meet, and  *)
(* a request is refused only when no place is left for it.                 *)
(***************************************************************************)
EXTENDS Integers

CONSTANTS
    Bytes,      \* size of the memory
    Overhead,   \* bytes kept before each block for bookkeeping
    Requests    \* sizes asked for

VARIABLES
    used,     \* bytes of each block in use, by its address
    call,     \* size being asked for, or NONE
    result    \* the last answer: an address, or NONE if refused

vars == <<used, call, result>>

NONE == -1

Init == used = [p \in {} |-> 0] /\ call = NONE /\ result = NONE

(* Bytes of memory spent on block p of u: [From(p), To(u, p)).             *)
From(p) == p - Overhead
To(u, p) == p + u[p]

Separate(u) ==
    /\ \A p \in DOMAIN u : From(p) >= 0 /\ u[p] >= 0 /\ To(u, p) <= Bytes
    /\ \A p, q \in DOMAIN u : p < q => To(u, p) <= From(q)

(* A request is rounded up to a multiple of 8.                             *)
Rounded(m) == m + 7 - ((m + 7) % 8)

(* Memory from g on that no block uses and that would hold m bytes.        *)
Room(g, m) ==
    /\ g + Overhead + Rounded(m) <= Bytes
    /\ \A p \in DOMAIN used : To(used, p) <= g \/ g + Overhead + Rounded(m) <= From(p)

Malloc(m) ==
    /\ call = NONE
    /\ call' = m
    /\ UNCHANGED <<used, result>>

Grant ==
    /\ call # NONE
    /\ result' # NONE
    /\ result' \notin DOMAIN used
    /\ DOMAIN used' = DOMAIN used \cup {result'}
    /\ \A q \in DOMAIN used : used'[q] = used[q]
    /\ used'[result'] >= call
    /\ Separate(used')
    /\ call' = NONE

Refuse ==
    /\ call # NONE
    /\ \A g \in 0..(Bytes - 1) : ~Room(g, call)
    /\ result' = NONE
    /\ call' = NONE
    /\ UNCHANGED used

Free(p) ==
    /\ call = NONE
    /\ p \in DOMAIN used
    /\ used' = [q \in DOMAIN used \ {p} |-> used[q]]
    /\ UNCHANGED <<call, result>>

Next ==
    \/ \E m \in Requests : Malloc(m)
    \/ Grant
    \/ Refuse
    \/ \E p \in DOMAIN used : Free(p)

Spec == Init /\ [][Next]_vars
=============================================================================
