--------------------------------- MODULE Sd ---------------------------------
(***************************************************************************)
(* Sector transfers (drivers/sd.c), as mark_cluster_in_fat() makes them:   *)
(* read a sector, change one word, write it back. One turn of a polling    *)
(* loop is one step; each reads the status once, and the card is ready, or *)
(* reports an error, as it likes.                                          *)
(*                                                                         *)
(* The card holds one sector: word i of it is i before the update, FRESH   *)
(* is the word put in, JUNK what fat_buffer holds before the read. The     *)
(* card programs a sector it was sent whole, at the latest when it says    *)
(* so. No other transfer comes in between, which the code leaves to its    *)
(* callers (sd.c:82).                                                      *)
(***************************************************************************)
EXTENDS Integers

CONSTANTS
    WORDS,   \* words of a sector: 128
    TURNS    \* safety_timeout: 1000000

ASSUME SectorAssumption == WORDS \in Nat \ {0}
ASSUME TurnsAssumption == TURNS \in Nat \ {0}

VARIABLES
    transfer,        \* "none", "read", "write" or "returned"
    entry,           \* the word to change
    moved,           \* words_read or words_written
    safety_timeout,
    fat_buffer,
    card,            \* the sector
    answer,          \* 0 or -1
    gave_up          \* history: the read ran out of turns

svars == <<transfer, entry, moved, safety_timeout, fat_buffer, card, answer, gave_up>>

Places == 0..(WORDS - 1)
FRESH == WORDS
JUNK == -1

Old == [i \in Places |-> i]
Unset == [i \in Places |-> JUNK]

SdIdle ==
    /\ transfer = "none"
    /\ entry = 0 /\ moved = 0 /\ safety_timeout = 0
    /\ fat_buffer = Unset /\ card = Old
    /\ answer = 0 /\ gave_up = FALSE

-----------------------------------------------------------------------------
Left_OneShort == moved < WORDS - 1 /\ safety_timeout > 0
Left == moved < WORDS /\ safety_timeout > 0

(* What is left of safety_timeout after a turn.                            *)
Spent_StartsOver == IF safety_timeout = 1 THEN TURNS ELSE safety_timeout - 1
Spent == safety_timeout - 1

Returns(r) == transfer' = "returned" /\ answer' = r

(* The head of k_sd_read_sector(): the data path is set up for a read.     *)
k_sd_read_sector(e) ==
    /\ transfer = "none"
    /\ transfer' = "read"
    /\ entry' = e
    /\ moved' = 0
    /\ safety_timeout' = TURNS
    /\ UNCHANGED <<fat_buffer, card, answer, gave_up>>

(* A turn: a word may have arrived, and the card may report an error.      *)
read_turn ==
    /\ transfer = "read"
    /\ Left
    /\ \/ /\ fat_buffer' = [fat_buffer EXCEPT ![moved] = card[moved]]
          /\ moved' = moved + 1
       \/ UNCHANGED <<fat_buffer, moved>>
    /\ \/ safety_timeout' = Spent /\ UNCHANGED <<transfer, answer>>
       \/ Returns(-1) /\ UNCHANGED safety_timeout
    /\ UNCHANGED <<entry, card, gave_up>>

(* The read returns 0, with all words or without; the word is changed and  *)
(* k_sd_write_sector() begins.                                             *)
read_end ==
    /\ transfer = "read"
    /\ ~Left
    /\ fat_buffer' = [fat_buffer EXCEPT ![entry] = FRESH]
    /\ transfer' = "write"
    /\ moved' = 0
    /\ safety_timeout' = TURNS
    /\ gave_up' = (safety_timeout = 0 /\ moved < WORDS)
    /\ UNCHANGED <<entry, card, answer>>

(* A turn: the fifo takes a word or is full, and again there may be an     *)
(* error. A card sent the last word may program it before that.            *)
write_turn ==
    /\ transfer = "write"
    /\ Left
    /\ \/ moved' = moved + 1
       \/ UNCHANGED moved
    /\ \/ safety_timeout' = Spent /\ UNCHANGED <<transfer, answer, card>>
       \/ /\ Returns(-1)
          /\ \/ UNCHANGED card
             \/ moved' = WORDS /\ card' = fat_buffer
          /\ UNCHANGED safety_timeout
    /\ UNCHANGED <<entry, fat_buffer, gave_up>>

(* All words are sent: the driver waits until the card is ready...         *)
write_wait ==
    /\ transfer = "write"
    /\ ~Left
    /\ safety_timeout > 0
    /\ \/ safety_timeout' = Spent /\ UNCHANGED <<transfer, answer, card>>
       \/ Returns(0) /\ card' = fat_buffer /\ UNCHANGED safety_timeout
    /\ UNCHANGED <<entry, moved, fat_buffer, gave_up>>

(* ... or the turns are over, here or in the loop before.                  *)
Sent_Any == 0
Sent == IF moved = WORDS THEN 0 ELSE -1

write_end ==
    /\ transfer = "write"
    /\ safety_timeout = 0
    /\ Returns(Sent)
    /\ \/ UNCHANGED card
       \/ moved = WORDS /\ card' = fat_buffer
    /\ UNCHANGED <<entry, moved, safety_timeout, fat_buffer, gave_up>>

SdReturn ==
    /\ transfer = "returned"
    /\ transfer' = "none"
    /\ entry' = 0 /\ moved' = 0 /\ safety_timeout' = 0
    /\ fat_buffer' = Unset /\ card' = Old
    /\ answer' = 0 /\ gave_up' = FALSE

SdTurn == read_turn \/ read_end \/ write_turn \/ write_wait \/ write_end \/ SdReturn

SdBegin == \E e \in Places : k_sd_read_sector(e)

-----------------------------------------------------------------------------
(* An update changes its own word of the sector and no other, and one that *)
(* succeeds has changed it or ran out of turns waiting for the card: words *)
(* in wrong places, a sector cut short, a failure taken for success would  *)
(* all damage the FAT. The code has one such way, a read that gives up and *)
(* returns 0 (sd.c:117): then, and then only, junk is written, although    *)
(* filesystem.c:62 says that only the word changes.                        *)
UpdatesOneWord ==
    /\ \A i \in Places : card[i] # i => i = entry \/ (gave_up /\ card[i] = JUNK)
    /\ transfer = "returned" /\ answer = 0 =>
          card[entry] = FRESH \/ (safety_timeout = 0 /\ moved = WORDS)
=============================================================================
