--------------------------- MODULE HeapImplements ---------------------------
(***************************************************************************)
(* The list of Heap implements Allocator, for callers whose size does not  *)
(* wrap around when k_malloc() rounds it up: the 7 largest become 0, and   *)
(* get a block of no bytes (memory.c:26).                                  *)
(***************************************************************************)
EXTENDS Heap

ASSUME NoWrapAssumption == \A bytes \in Requests : bytes + 7 < WordMod

(* The blocks in use are those that are not free; while k_free() coalesces *)
(* its block is gone already.                                              *)
Taken == {a \in Headers : ~Is_free(a)}

Used == [p \in {a + HEADER_SIZE : a \in Taken} |-> hdr[p - HEADER_SIZE].size]
Call == IF op = "k_malloc" THEN n ELSE NULL

Promise == INSTANCE Allocator WITH
    Bytes <- HeapBytes,
    Overhead <- HEADER_SIZE,
    used <- Used,
    call <- Call,
    result <- ret

(* k_malloc() gives out separate blocks, large enough, each until it is    *)
(* freed, and returns NULL only when no place is large enough: first fit   *)
(* over a list coalesced in one pass misses none (memory.c:33-58, 117-126).*)
Implements == Promise!Spec
=============================================================================
