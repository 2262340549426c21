------------------------------- MODULE Memory -------------------------------
(***************************************************************************)
(* memcpy() and memcmp() of core/memory.c: whole words while both pointers *)
(* are aligned, bytes for the rest. One turn of a loop is one step.        *)
(***************************************************************************)
EXTENDS Integers

CONSTANTS
    WORD,        \* bytes of a word: 4
    MemBytes,    \* bytes of the memory considered
    Contents,    \* memories considered: what each byte holds
    MaxCount     \* bound: largest count of bytes

ASSUME WordAssumption == WORD \in Nat \ {0}
ASSUME MemoryAssumption == MemBytes \in Nat /\ MaxCount \in Nat
ASSUME ContentsAssumption == Contents \subseteq [0..(MemBytes - 1) -> Nat]

VARIABLES
    moving,   \* "none", "copy", "copied", "compare" or "compared"
    words,    \* the word loop has not ended yet
    p, q, n,  \* first and second pointer, bytes left
    result,   \* what memcmp() returned
    mem,      \* the memory
    call      \* history: mem, p, q and n at the call

mvars == <<moving, words, p, q, n, result, mem, call>>

MemIdle ==
    /\ moving = "none" /\ words = FALSE
    /\ p = 0 /\ q = 0 /\ n = 0 /\ result = 0
    /\ mem = <<>> /\ call = <<>>

-----------------------------------------------------------------------------
Aligned(a, b) == a % WORD = 0 /\ b % WORD = 0

Called(routine, m, a, b, count) ==
    /\ moving = "none"
    /\ moving' = routine
    /\ p' = a /\ q' = b /\ n' = count
    /\ mem' = m
    /\ call' = [mem |-> m, p |-> a, q |-> b, n |-> count]
    /\ words' = Aligned(a, b)
    /\ UNCHANGED result

(* The regions are in the memory; those of memcpy() may overlap.           *)
memcpy(m, dest, src, count) == Called("copy", m, dest, src, count)
memcmp(m, s1, s2, count) == Called("compare", m, s1, s2, count)

WordLeft_Any == n > 0           \* `n > 0` for `n >= 4` in memory.c:198, 222
WordLeft == n >= WORD

(* What a turn moves or compares: a word, or after the word loop a byte.   *)
InWords == words /\ WordLeft
Size == IF InWords THEN WORD ELSE 1
Onward == p' = p + Size /\ q' = q + Size /\ n' = n - Size

(* A turn of memcpy(): what is read is read whole before it is written.    *)
copy_turn ==
    /\ moving = "copy" /\ n > 0
    /\ mem' = [a \in DOMAIN mem |-> IF a \in p..(p + Size - 1) THEN mem[q + a - p] ELSE mem[a]]
    /\ Onward
    /\ UNCHANGED <<moving, words, result, call>>

(* A turn of memcmp(): a word that differs is left to the bytes, of which  *)
(* the first that differs gives the result.                                *)
Difference_Found(a, b) == IF a > b THEN 1 ELSE 0     \* no sign
Difference(a, b) == a - b

Same == \A i \in 0..(Size - 1) : mem[p + i] = mem[q + i]

compare_turn ==
    /\ moving = "compare" /\ n > 0
    /\ \/ Same /\ Onward /\ UNCHANGED <<moving, words, result>>
       \/ ~Same /\ InWords /\ words' = FALSE /\ UNCHANGED <<moving, p, q, n, result>>
       \/ /\ ~Same /\ ~InWords
          /\ moving' = "compared" /\ result' = Difference(mem[p], mem[q])
          /\ UNCHANGED <<words, p, q, n>>
    /\ UNCHANGED <<mem, call>>

(* No byte is left; memcmp() found no difference.                          *)
move_end ==
    /\ n = 0
    /\ \/ moving = "copy" /\ moving' = "copied" /\ UNCHANGED result
       \/ moving = "compare" /\ moving' = "compared" /\ result' = 0
    /\ UNCHANGED <<words, p, q, n, mem, call>>

(* The caller has the result.                                              *)
MemReturn ==
    /\ moving \in {"copied", "compared"}
    /\ moving' = "none" /\ words' = FALSE
    /\ p' = 0 /\ q' = 0 /\ n' = 0 /\ result' = 0
    /\ mem' = <<>> /\ call' = <<>>

MemTurn == copy_turn \/ compare_turn \/ move_end \/ MemReturn

MemBegin ==
    \E m \in Contents, count \in 0..MaxCount :
        \E a, b \in 0..(MemBytes - count) :
            memcpy(m, a, b, count) \/ memcmp(m, a, b, count)

-----------------------------------------------------------------------------
(* At every turn, what memcpy() has not reached yet, on both sides of the  *)
(* destination, is as it was, and when it returns the destination holds    *)
(* what the source held, unless the regions overlap (memory.c:191-214).    *)
CopiesExactly ==
    moving \in {"copy", "copied"} =>
        /\ \A a \in DOMAIN mem :
              a \notin call.p..(call.p + call.n - 1) => mem[a] = call.mem[a]
        /\ moving = "copied" /\ (call.q >= call.p \/ call.q + call.n <= call.p) =>
              \A i \in 0..(call.n - 1) : mem[call.p + i] = call.mem[call.q + i]

(* memcmp() has the sign of the first pair of bytes that differ, and is 0  *)
(* when there is none, although words are compared before bytes            *)
(* (memory.c:216-246).                                                     *)
FirstDifference ==
    CHOOSE i \in 0..(call.n - 1) :
        /\ mem[call.p + i] # mem[call.q + i]
        /\ \A j \in 0..(i - 1) : mem[call.p + j] = mem[call.q + j]

ComparesBytes ==
    moving = "compared" =>
        IF \A i \in 0..(call.n - 1) : mem[call.p + i] = mem[call.q + i]
        THEN result = 0
        ELSE result * (mem[call.p + FirstDifference] - mem[call.q + FirstDifference]) > 0
=============================================================================
