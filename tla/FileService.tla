---------------------------- MODULE FileService ----------------------------
(***************************************************************************)
(* What the task that has a file open, and the one that removes files, can *)
(* rely on (core/filesystem.h), with no FAT, no clusters and no sectors:   *)
(* a read and a removal are one step each, and a reset falls between two.  *)
(***************************************************************************)
EXTENDS Integers, Sequences

CONSTANTS
    NULL,
    Files,
    Size,            \* bytes of each file
    Room,            \* bytes the card keeps for it, at least Size
    Word,            \* positions wrap around here
    Requests,        \* bytes asked of a read
    Skips,           \* distances of a move ahead
    Positions,       \* positions moved to
    Unread,          \* a byte the card was asked for and did not give
    Contents(_, _),  \* the byte of a file at a position within its Room
    Stray(_, _)      \* whether a byte may come from a file that is not whole

VARIABLES
    listed,    \* files the directory has, {NULL} once the card is lost
    harmed,    \* files somebody began to remove
    leaving,   \* the file being removed, or NULL
    file,      \* the open file, or NULL
    sure,      \* whether the directory was read when it was opened
    position,  \* of the next byte read
    over,      \* no read gives any more
    state,     \* "idle", "answered": a read has its bytes, or "removing"
    answer,    \* the bytes of that read
    failed     \* whether anything has failed so far

vars == <<listed, harmed, leaving, file, sure, position, over, state, answer, failed>>

opened == <<file, sure, position, over>>
card == <<listed, harmed, leaving>>

Init ==
    /\ listed = Files /\ harmed = {} /\ leaving = NULL
    /\ file = NULL /\ sure = TRUE /\ position = 0 /\ over = FALSE
    /\ state = "idle" /\ answer = <<>> /\ failed = FALSE

(* Every step may fail, and nothing but `failed` tells.                    *)
MayFail == failed' \in {failed, TRUE}

Open(f) ==
    /\ state = "idle" /\ file = NULL
    /\ MayFail
    /\ \/ sure' = TRUE /\ f \in listed
       \/ sure' = FALSE /\ failed'
    /\ file' = f /\ position' = 0 /\ over' = FALSE
    /\ UNCHANGED <<card, state, answer>>

Close ==
    /\ state = "idle" /\ file # NULL
    /\ file' = NULL /\ sure' = TRUE /\ position' = 0 /\ over' = FALSE
    /\ UNCHANGED <<card, state, answer, failed>>

(* Bytes of a file that nobody removes are its own, in order; past what    *)
(* the card keeps for it, or once it is being removed, they may be others, *)
(* but not another file's. Once something has failed, a byte may be one    *)
(* that was not read at all, and nobody knows whose.                       *)
Right(bytes) ==
    \A i \in DOMAIN bytes :
        \/ bytes[i] = Unread /\ failed'
        \/ IF file \notin harmed /\ position + i - 1 < Room[file]
           THEN bytes[i] = Contents(file, position + i - 1)
           ELSE Stray(file, bytes[i])

(* What is due is what was asked for or, if that passes the end, what is   *)
(* left. Both counts wrap around: to a read that begins past the end, where*)
(* moves may lead, more is due than was asked for. A read gives no more    *)
(* than is due, and all of it if nothing failed and the file is whole and  *)
(* has it.                                                                 *)
Due(n) ==
    IF (position + n) % Word > Size[file] THEN (Size[file] - position) % Word ELSE n

Enough(n, bytes) ==
    /\ sure => Len(bytes) <= Due(n)
    /\ ~failed' /\ ~over /\ file \notin harmed => Len(bytes) = Due(n) \/ over'

(* Only the end of a file ends it, and nothing but a new open undoes that. *)
MayEnd(p) == failed' \/ file \in harmed \/ p >= Room[file]

Read(n) ==
    /\ state = "idle" /\ file # NULL
    /\ MayFail
    /\ state' = "answered"
    /\ Right(answer')
    /\ Enough(n, answer')
    /\ over => over' /\ answer' = <<>>
    /\ over' /\ ~over => MayEnd(position + Len(answer'))
    /\ position' = (position + Len(answer')) % Word
    /\ UNCHANGED <<card, file, sure>>

Return ==
    /\ state = "answered"
    /\ state' = "idle" /\ answer' = <<>>
    /\ UNCHANGED <<card, opened, failed>>

Move(p) ==
    /\ state = "idle" /\ file # NULL
    /\ position' = p
    /\ UNCHANGED <<card, file, sure, over, state, answer, failed>>

(* A move past the end is noticed on the way.                              *)
Lose ==
    /\ state = "idle" /\ file # NULL
    /\ ~over /\ over'
    /\ MayFail
    /\ MayEnd(position)
    /\ UNCHANGED <<card, file, sure, position, state, answer>>

Remove(f) ==
    /\ state = "idle"
    /\ MayFail
    /\ f \in listed \/ failed'
    /\ state' = "removing" /\ leaving' = f /\ harmed' = harmed \cup {f}
    /\ UNCHANGED <<listed, opened, answer>>

(* A removal that failed may have removed nothing, or lost the card.       *)
Damage == failed' /\ listed' \in {listed, {NULL}}

Removed ==
    /\ state = "removing"
    /\ MayFail
    /\ listed' = listed \ {leaving} \/ Damage
    /\ state' = "idle" /\ leaving' = NULL
    /\ UNCHANGED <<harmed, opened, answer>>

(* A failure that does not show, or only in a removal that goes on.        *)
Fail ==
    /\ MayFail
    /\ IF state = "removing" THEN Damage ELSE failed' /\ UNCHANGED listed
    /\ UNCHANGED <<harmed, leaving, opened, state, answer>>

Reset ==
    /\ file' = NULL /\ sure' = TRUE /\ position' = 0 /\ over' = FALSE
    /\ state' = "idle" /\ answer' = <<>> /\ leaving' = NULL
    /\ failed' = TRUE
    /\ UNCHANGED <<listed, harmed>>

Next ==
    \/ \E f \in Files : Open(f) \/ Remove(f)
    \/ Close
    \/ \E n \in Requests : Read(n)
    \/ Return
    \/ \E s \in Skips : Move((position + s) % Word)
    \/ \E p \in Positions : Move(p)
    \/ Lose
    \/ Removed
    \/ Fail
    \/ Reset

Spec == Init /\ [][Next]_vars
=============================================================================
