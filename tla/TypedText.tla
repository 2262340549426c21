------------------------------ MODULE TypedText ------------------------------
(***************************************************************************)
(* What the keyboard promises to a program that calls getchar(): presses   *)
(* and releases are understood in the order they reach the kernel, a press *)
(* types at most one character, the one its key has in the case the        *)
(* modifiers ask for at that moment, and characters are read in the order  *)
(* they were typed. If nobody reads, the newest are the ones lost.         *)
(***************************************************************************)
EXTENDS Integers, Sequences

CONSTANTS
    Keys,
    Lettered,     \* keys with a character in either case
    Plain,        \* keys with the same character in both
    PastShift,    \* keys of no known effect in upper case, ...
    PastBoth,     \* ... or at all
    Shifts, CAPS, \* modifiers
    ACK,          \* not a key: the keyboard's answer to a command
    Capacity      \* unread characters kept

VARIABLES
    events,       \* presses and releases not understood yet
    shift, caps,  \* what those that were amount to
    text,         \* characters typed and not read
    ret           \* result of the last getchar()

vars == <<events, shift, caps, text, ret>>

NUL == <<"NUL", 0>>
JUNK == <<"junk", 0>>
EMPTY == <<"-1", 0>>

Answer == <<"down", ACK>>
Answered(w) == {<<Answer, Answer>> \o w, w \o <<Answer, Answer>>}

(* The characters a press of k may type.                                   *)
lower(k) == IF k \in Lettered \cup Plain THEN <<"lower", k>> ELSE NUL
Typed(k, up) ==
    IF k \in PastBoth \/ (up /\ k \in PastShift) THEN {lower(k), JUNK}
    ELSE IF up /\ k \in Lettered THEN {<<"upper", k>>}
    ELSE {lower(k)}

Kept(c) == IF c # NUL /\ Len(text) < Capacity THEN Append(text, c) ELSE text

Init ==
    /\ events = <<Answer, Answer>>
    /\ shift = FALSE
    /\ caps = FALSE
    /\ text = <<>>
    /\ ret = EMPTY

Happen ==
    /\ \E e \in {"down", "up"} \X Keys : events' = Append(events, e)
    /\ UNCHANGED <<shift, caps, text, ret>>

Release ==
    /\ events # <<>>
    /\ Head(events)[1] = "up"
    /\ events' = Tail(events)
    /\ shift' = (shift /\ Head(events)[2] \notin Shifts)
    /\ UNCHANGED <<caps, text, ret>>

Press ==
    LET k == Head(events)[2]
    IN  /\ events # <<>>
        /\ Head(events)[1] = "down"
        /\ events' \in IF k = CAPS THEN Answered(Tail(events)) ELSE {Tail(events)}
        /\ shift' = (shift \/ k \in Shifts)
        /\ caps' = (caps # (k = CAPS))
        /\ \E c \in Typed(k, shift' # caps') : text' = Kept(c)
        /\ UNCHANGED ret

Read ==
    /\ ret' = IF text = <<>> THEN EMPTY ELSE Head(text)
    /\ text' = IF text = <<>> THEN text ELSE Tail(text)
    /\ UNCHANGED <<events, shift, caps>>

Next == Happen \/ Release \/ Press \/ Read

Spec == Init /\ [][Next]_vars

=============================================================================
