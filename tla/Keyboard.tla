------------------------------ MODULE Keyboard ------------------------------
(***************************************************************************)
(* From a key to getchar(): the PS/2 interrupt handler and its decoder     *)
(* (drivers/Express-A9/Express-A9_ps2.c) and the ring of characters        *)
(* (core/fifo.c). The handler reads one byte per interrupt, so a press or  *)
(* a release of one to three bytes spans several of them, with system      *)
(* calls in between; each of both runs with IRQs masked and is a step.     *)
(*                                                                         *)
(* Keys stand for their scan codes (set 2); the two tables are kept as the *)
(* sets of codes that have an entry. Reading past the end of a table gives *)
(* what the linker put there: an entry of the other table, a variable, 0.  *)
(***************************************************************************)
EXTENDS Integers, Sequences

CONSTANTS
    Lettered,     \* codes with an entry in scancode_map and shift_map
    Plain,        \* codes with an entry in scancode_map only
    PastShift,    \* codes greater than 0x55, where shift_map ends
    PastBoth,     \* codes greater than 0x66, where scancode_map ends
    Extended,     \* keys that send 0xE0 first
    Shifts,       \* 0x12 and 0x59
    CAPS,         \* 0x58
    ACK,          \* 0xFA, 0xAA: what the keyboard answers to commands
    FIFO_SIZE,    \* 256 in the code
    WireSize      \* bound: presses and releases waiting in the keyboard

E0 == "0xE0"      \* "the next byte is of a special key"
F0 == "0xF0"      \* "the next byte is of a key released"
Keys == Lettered \cup Plain \cup PastBoth \cup Shifts \cup {CAPS}

ASSUME CodesAssumption ==
    /\ Keys \cap {E0, F0} = {}
    /\ CAPS \in PastShift
    /\ CAPS \notin Lettered \cup Plain \cup Shifts
    /\ Shifts \cap (Lettered \cup Plain) = {}
    /\ PastBoth \subseteq PastShift
    /\ PastShift \cap Lettered = {}
    /\ PastBoth \cap (Plain \cup Shifts \cup {CAPS}) = {}
    /\ ACK \in PastBoth
    /\ ACK \notin Extended
ASSUME FifoAssumption == FIFO_SIZE \in Nat \ {0, 1}

VARIABLES
    held,       \* shift keys that are down
    wire,       \* presses and releases the handler has not read whole
    got,        \* bytes it has read of the first
    kbd_state,  \* the handler's memory of modifiers and prefixes
    buffer, head, tail,    \* kbd_fifo
    ret         \* result of the last SYS_GETCHAR

fifo == <<buffer, head, tail>>
vars == <<held, wire, got, kbd_state, fifo, ret>>

Slots == 0..(FIFO_SIZE - 1)
NUL == <<"NUL", 0>>
JUNK == <<"junk", 0>>
EMPTY == <<"-1", 0>>

(* The bytes of a press ("down") or release ("up"): [E0] [F0] code.        *)
Bytes(e) ==
    IF e[2] \in Extended
    THEN IF e[1] = "up" THEN <<E0, F0, e[2]>> ELSE <<E0, e[2]>>
    ELSE IF e[1] = "up" THEN <<F0, e[2]>> ELSE <<e[2]>>

Answer == <<"down", ACK>>

(* After main(): the answers to the reset k_setup_ps2() sent are coming.   *)
Init ==
    /\ held = {}
    /\ wire = <<Answer, Answer>>
    /\ got = 0
    /\ kbd_state = [shift |-> FALSE, caps |-> FALSE, is_break |-> FALSE,
                    is_extended |-> FALSE]
    /\ buffer = [i \in Slots |-> NUL]
    /\ head = 0
    /\ tail = 0
    /\ ret = EMPTY

-----------------------------------------------------------------------------
(* A key goes down, or repeats; a key goes up.                             *)
Sends(e) ==
    /\ Len(wire) < WireSize
    /\ wire' = Append(wire, e)
    /\ UNCHANGED <<got, kbd_state, fifo, ret>>

KeyDown(k) ==
    /\ Sends(<<"down", k>>)
    /\ held' = held \cup ({k} \cap Shifts)

KeyUp(k) ==
    /\ k \in Shifts => k \in held
    /\ Sends(<<"up", k>>)
    /\ held' = held \ {k}

-----------------------------------------------------------------------------
(* scancode_map[code] and shift_map[code]: what the read may give.         *)
scancode_map(code) ==
    IF code \in PastBoth THEN {NUL, JUNK}
    ELSE IF code \in Lettered \cup Plain THEN {<<"lower", code>>}
    ELSE {NUL}

shift_map(code) ==
    IF code \in PastShift THEN {NUL, JUNK}
    ELSE IF code \in Lettered THEN {<<"upper", code>>}
    ELSE {NUL}

(* k_fifo_put(c): when the ring is full, c is dropped. The operators named *)
(* X_... are mistakes one could make in X: PROJECT.json names the property *)
(* that notices each.                                                      *)
next_NoWrap(i) == i + 1
next(i) == (i + 1) % FIFO_SIZE

Full_Never == FALSE
Full == next(head) = tail

k_fifo_put(c) ==
    IF Full
    THEN UNCHANGED fifo
    ELSE /\ buffer' = [buffer EXCEPT ![head] = c]
         /\ head' = next(head)
         /\ UNCHANGED tail

(* The modifiers once `code` is read, and whether it types in upper case.  *)
shift_now_IgnoresBreak(code) == code \in Shifts \/ kbd_state.shift
shift_now(code) == IF code \in Shifts THEN ~kbd_state.is_break ELSE kbd_state.shift

caps_now(code) == IF code = CAPS /\ ~kbd_state.is_break THEN ~kbd_state.caps
                                                    ELSE kbd_state.caps

upper_now(code) == shift_now(code) # caps_now(code)

Types(code) ==
    {IF upper_now(code) /\ s # NUL THEN s ELSE c :
        s \in shift_map(code), c \in scancode_map(code)}

(* The byte that arrived, with what the keyboard has to send after it.     *)
Byte == Bytes(Head(wire))[got + 1]

(* k_ps2_update_leds() makes the keyboard answer twice, before what it has *)
(* to send or after it.                                                    *)
Answered(w) == {<<Answer, Answer>> \o w, w \o <<Answer, Answer>>}

(* k_ps2_irq_handler(): a prefix...                                        *)
Prefix ==
    /\ wire # <<>>
    /\ Byte \in {E0, F0}
    /\ kbd_state' = IF Byte = E0 THEN [kbd_state EXCEPT !.is_extended = TRUE]
                                 ELSE [kbd_state EXCEPT !.is_break = TRUE]
    /\ got' = got + 1
    /\ UNCHANGED <<held, wire, fifo, ret>>

(* ... or a code: of a key pressed or released, or of no key at all.       *)
Code ==
    /\ wire # <<>>
    /\ Byte \notin {E0, F0}
    /\ kbd_state' = [shift |-> shift_now(Byte), caps |-> caps_now(Byte),
                     is_break |-> FALSE, is_extended |-> FALSE]
    /\ IF kbd_state.is_break
       THEN UNCHANGED fifo
       ELSE \E c \in Types(Byte) : IF c = NUL THEN UNCHANGED fifo ELSE k_fifo_put(c)
    /\ got' = 0
    /\ wire' \in IF Byte = CAPS /\ ~kbd_state.is_break THEN Answered(Tail(wire))
                                                       ELSE {Tail(wire)}
    /\ UNCHANGED <<held, ret>>

k_ps2_irq_handler == Prefix \/ Code

(* SYS_GETCHAR: k_fifo_get()                                               *)
Empty == head = tail

SYS_GETCHAR ==
    /\ IF Empty
       THEN ret' = EMPTY /\ UNCHANGED tail
       ELSE ret' = buffer[tail] /\ tail' = next(tail)
    /\ UNCHANGED <<held, wire, got, kbd_state, buffer, head>>

Next ==
    \/ \E k \in Keys \ {ACK} : KeyDown(k) \/ KeyUp(k)
    \/ Prefix
    \/ Code
    \/ SYS_GETCHAR

Spec == Init /\ [][Next]_vars

-----------------------------------------------------------------------------
Chars == {NUL, JUNK} \cup {<<"lower", k>> : k \in Lettered \cup Plain}
             \cup {<<"upper", k>> : k \in Lettered}

TypeOK ==
    /\ held \subseteq Shifts
    /\ wire \in Seq({"down", "up"} \X Keys)
    /\ got \in 0..2
    /\ kbd_state \in [shift : BOOLEAN, caps : BOOLEAN, is_break : BOOLEAN,
                      is_extended : BOOLEAN]
    /\ buffer \in [Slots -> Chars]
    /\ head \in Slots
    /\ tail \in Slots
    /\ ret \in Chars \cup {EMPTY}

(* Once all the keyboard sent was read, with no shift key down, the driver *)
(* is not left in shift, whatever was typed, however fast.                 *)
NoStuckShift == wire = <<>> /\ held = {} => ~kbd_state.shift

(* Bytes, prefixes, tables and ring amount to typed text.                  *)
Unread(h, t) == (h - t) % FIFO_SIZE
Text(b, h, t) == [i \in 1..Unread(h, t) |-> b[(t + i - 1) % FIFO_SIZE]]
Typing == INSTANCE TypedText
             WITH events <- wire, shift <- kbd_state.shift, caps <- kbd_state.caps,
                  text <- Text(buffer, head, tail), Capacity <- FIFO_SIZE - 1
TypesText == Typing!Spec
=============================================================================
