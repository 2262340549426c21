--------------------------- MODULE RoutinesProofs ---------------------------
(***************************************************************************)
(* Theorems about the sequential routines, as Routines runs them: lines of *)
(* any length on any screen, copies and comparisons of any bytes, sector   *)
(* updates on a card that answers as it likes.                             *)
(***************************************************************************)
EXTENDS Routines, DrawProofs, Recursion, FiniteSetTheorems, SequenceTheorems

(* A routine touches no variables but its own.                             *)
LEMMA Disjoint ==
  ASSUME [Next]_rvars
  PROVE  /\ [MemBegin \/ MemTurn]_mvars
         /\ [SdBegin \/ SdTurn]_svars
         /\ [DrawNext]_locals
         /\ [(\E f \in Fonts : get_font(f)) \/ Loading \/ draw_char \/ Sleeps]_fvars
         /\ [(\E c \in Prints : k_vprintf_internal(c[1], c[2])) \/ PrintTurn]_pvars
  BY DEF Next, Turn, Calls, rvars, FontTurn, dvars, locals, DrawNext

-----------------------------------------------------------------------------
(* memcpy() and memcmp(). How many bytes the loops are past.               *)
Past == call.n - n

InMemory(i) == i \in Nat /\ i + call.n <= MemBytes

CallKept ==
    moving # "none" =>
        /\ mem \in [0..(MemBytes - 1) -> Nat] /\ call.mem \in [0..(MemBytes - 1) -> Nat]
        /\ call.n \in Nat /\ InMemory(call.p) /\ InMemory(call.q)
        /\ n \in 0..call.n /\ p = call.p + Past /\ q = call.q + Past

(* A copy has touched what it is past, and has it right unless it has read *)
(* what it wrote before.                                                   *)
Apart == call.q >= call.p \/ call.q + call.n <= call.p

Copied ==
    moving \in {"copy", "copied"} =>
        /\ \A i \in 0..(MemBytes - 1) :
              i \notin call.p..(call.p + Past - 1) => mem[i] = call.mem[i]
        /\ Apart => \A i \in 0..(Past - 1) : mem[call.p + i] = call.mem[call.q + i]
        /\ moving = "copied" => n = 0

(* A comparison is past equal bytes only.                                  *)
Compared ==
    moving \in {"compare", "compared"} =>
        /\ \A i \in 0..(Past - 1) : mem[call.p + i] = mem[call.q + i]
        /\ moving = "compared" => \/ n = 0 /\ result = 0
                                  \/ /\ n > 0 /\ mem[p] # mem[q]
                                     /\ result = mem[p] - mem[q]

MemInv == CallKept /\ Copied /\ Compared

LEMMA MemInit == MemIdle => MemInv
  BY DEF MemIdle, MemInv, CallKept, Copied, Compared

LEMMA MemBegins == ASSUME MemBegin PROVE MemInv'
<1>1. PICK m \in Contents, count \in 0..MaxCount :
         \E i, j \in 0..(MemBytes - count) : memcpy(m, i, j, count) \/ memcmp(m, i, j, count)
  BY DEF MemBegin
<1>2. PICK i \in 0..(MemBytes - count), j \in 0..(MemBytes - count) :
         memcpy(m, i, j, count) \/ memcmp(m, i, j, count)
  BY <1>1
<1>3. /\ m \in [0..(MemBytes - 1) -> Nat] /\ count \in Nat
      /\ i \in Nat /\ i + count <= MemBytes /\ j \in Nat /\ j + count <= MemBytes
  BY ContentsAssumption, MemoryAssumption
<1>4. /\ moving' \in {"copy", "compare"} /\ mem' = m /\ p' = i /\ q' = j /\ n' = count
      /\ call' = [mem |-> m, p |-> i, q |-> j, n |-> count]
  BY <1>2 DEF memcpy, memcmp, Called
<1>5. Past' = 0
  BY <1>3, <1>4 DEF Past
<1>6. CallKept'
  BY <1>3, <1>4, <1>5 DEF CallKept, InMemory
<1>7. Copied' /\ Compared'
  BY <1>4, <1>5 DEF Copied, Compared
<1> QED
  BY <1>6, <1>7 DEF MemInv

(* What a turn takes is one byte or more, and no more than is left.        *)
LEMMA TurnTakes ==
  ASSUME n \in Nat, n > 0
  PROVE  Size \in Nat /\ Size >= 1 /\ Size <= n
  BY WordAssumption DEF Size, InWords, WordLeft

(* Where a turn is, in numbers.                                            *)
LEMMA TurnPlace ==
  ASSUME MemInv, moving # "none", n > 0
  PROVE  /\ call.p \in Nat /\ call.q \in Nat /\ call.n \in Nat /\ n \in Nat /\ MemBytes \in Nat
         /\ Past \in Nat /\ Past + n = call.n /\ p = call.p + Past /\ q = call.q + Past
         /\ p \in Nat /\ q \in Nat
         /\ Size \in Nat /\ Size >= 1 /\ Size <= n
         /\ call.p + call.n <= MemBytes /\ call.q + call.n <= MemBytes
<1>1. /\ call.n \in Nat /\ call.p \in Nat /\ call.p + call.n <= MemBytes
      /\ call.q \in Nat /\ call.q + call.n <= MemBytes
      /\ n \in 0..call.n /\ p = call.p + Past /\ q = call.q + Past
  BY DEF MemInv, CallKept, InMemory
<1>2. Past \in Nat /\ Past + n = call.n /\ n \in Nat
  BY <1>1 DEF Past
<1>3. Size \in Nat /\ Size >= 1 /\ Size <= n
  BY <1>2, TurnTakes
<1> QED
  BY <1>1, <1>2, <1>3, MemoryAssumption

LEMMA CopyTurns == ASSUME MemInv, copy_turn PROVE MemInv'
<1>1. /\ moving = "copy" /\ n > 0 /\ moving' = "copy" /\ call' = call
      /\ p' = p + Size /\ q' = q + Size /\ n' = n - Size
      /\ mem' = [i \in DOMAIN mem |-> IF i \in p..(p + Size - 1) THEN mem[q + i - p] ELSE mem[i]]
  BY DEF copy_turn, Onward
<1>2. /\ mem \in [0..(MemBytes - 1) -> Nat] /\ call.mem \in [0..(MemBytes - 1) -> Nat]
      /\ call.n \in Nat /\ InMemory(call.p) /\ InMemory(call.q)
      /\ n \in 0..call.n /\ p = call.p + Past /\ q = call.q + Past
      /\ Past \in Nat /\ Past + n = call.n
  BY <1>1 DEF MemInv, CallKept, Past
<1>3. /\ call.p \in Nat /\ call.q \in Nat /\ call.n \in Nat /\ n \in Nat /\ MemBytes \in Nat
      /\ Past \in Nat /\ Past + n = call.n /\ p = call.p + Past /\ q = call.q + Past
      /\ p \in Nat /\ q \in Nat
      /\ Size \in Nat /\ Size >= 1 /\ Size <= n
      /\ call.p + call.n <= MemBytes /\ call.q + call.n <= MemBytes
  BY <1>1, TurnPlace
<1>4. Past' = Past + Size
  <2>1. Past' = call.n - (n - Size) /\ Past = call.n - n
    BY <1>1 DEF Past
  <2> QED
    BY <1>3, <2>1
<1>5. ASSUME NEW i \in p..(p + Size - 1)
      PROVE  q + i - p \in 0..(MemBytes - 1) /\ i \in 0..(MemBytes - 1)
  <2>1. i \in Nat /\ i >= p /\ i < p + Size
    BY <1>3
  <2>2. p + Size <= MemBytes /\ q + Size <= MemBytes
    BY <1>3
  <2> QED
    BY <1>3, <2>1, <2>2
<1>6. /\ mem' \in [0..(MemBytes - 1) -> Nat]
      /\ \A i \in 0..(MemBytes - 1) :
            mem'[i] = IF i \in p..(p + Size - 1) THEN mem[q + i - p] ELSE mem[i]
  BY <1>1, <1>2, <1>5
<1>7. CallKept'
  <2>1. n' \in 0..call.n /\ p' = call.p + Past' /\ q' = call.q + Past'
    BY <1>1, <1>3, <1>4
  <2> QED
    BY <1>1, <1>2, <1>6, <2>1 DEF CallKept, InMemory
<1>8. ASSUME NEW i \in 0..(MemBytes - 1), i \notin call.p..(call.p + Past' - 1)
      PROVE  mem'[i] = call.mem[i]
  <2>1. i \notin p..(p + Size - 1) /\ i \notin call.p..(call.p + Past - 1)
    BY <1>3, <1>4, <1>8
  <2> QED
    BY <1>1, <1>6, <2>1 DEF MemInv, Copied
<1>9. ASSUME Apart, NEW i \in 0..(Past' - 1)
      PROVE  mem'[call.p + i] = call.mem[call.q + i]
  <2>1. call.p + i \in 0..(MemBytes - 1) /\ call.q + i \in 0..(MemBytes - 1)
    BY <1>3, <1>4
  <2>2. CASE i < Past
    <3>1. call.p + i \notin p..(p + Size - 1) /\ i \in 0..(Past - 1)
      BY <1>3, <2>2
    <3>2. mem[call.p + i] = call.mem[call.q + i]
      BY <1>1, <1>9, <3>1 DEF MemInv, Copied
    <3> QED
      BY <1>6, <2>1, <3>1, <3>2
  <2>3. CASE i >= Past
    <3>1. /\ call.p + i \in p..(p + Size - 1)
          /\ q + (call.p + i) - p = call.q + i
      BY <1>3, <1>4, <2>3
    <3>2. call.q + i \notin call.p..(call.p + Past - 1)
      BY <1>3, <1>4, <1>9, <2>3 DEF Apart
    <3>3. mem[call.q + i] = call.mem[call.q + i]
      BY <1>1, <2>1, <3>2 DEF MemInv, Copied
    <3> QED
      BY <1>6, <2>1, <3>1, <3>3
  <2> QED
    BY <1>2, <2>2, <2>3
<1>10. Copied'
  BY <1>1, <1>8, <1>9 DEF Copied, Apart
<1>11. Compared'
  BY <1>1 DEF Compared
<1> QED
  BY <1>7, <1>10, <1>11 DEF MemInv

LEMMA CompareTurns == ASSUME MemInv, compare_turn PROVE MemInv'
<1>1. moving = "compare" /\ n > 0 /\ mem' = mem /\ call' = call
  BY DEF compare_turn
<1>2. /\ mem \in [0..(MemBytes - 1) -> Nat] /\ call.mem \in [0..(MemBytes - 1) -> Nat]
      /\ call.n \in Nat /\ InMemory(call.p) /\ InMemory(call.q)
      /\ n \in 0..call.n /\ p = call.p + Past /\ q = call.q + Past
      /\ Past \in Nat /\ Past + n = call.n
      /\ \A i \in 0..(Past - 1) : mem[call.p + i] = mem[call.q + i]
  BY <1>1 DEF MemInv, CallKept, Compared, Past
<1>3. /\ call.p \in Nat /\ call.q \in Nat /\ call.n \in Nat /\ n \in Nat /\ MemBytes \in Nat
      /\ Past \in Nat /\ Past + n = call.n /\ p = call.p + Past /\ q = call.q + Past
      /\ p \in Nat /\ q \in Nat
      /\ Size \in Nat /\ Size >= 1 /\ Size <= n
      /\ call.p + call.n <= MemBytes /\ call.q + call.n <= MemBytes
  BY <1>1, TurnPlace
<1>4. CASE Same /\ Onward /\ UNCHANGED <<moving, words, result>>
  <2>1. p' = p + Size /\ q' = q + Size /\ n' = n - Size /\ moving' = "compare"
    BY <1>1, <1>4 DEF Onward
  <2>2. Past' = Past + Size
    <3>1. Past' = call.n - (n - Size) /\ Past = call.n - n
      BY <1>1, <2>1 DEF Past
    <3> QED
      BY <1>3, <3>1
  <2>3. CallKept'
    <3>1. n' \in 0..call.n /\ p' = call.p + Past' /\ q' = call.q + Past'
      BY <1>3, <2>1, <2>2
    <3> QED
      BY <1>1, <1>2, <2>1, <3>1 DEF CallKept, InMemory
  <2>4. ASSUME NEW i \in 0..(Past + Size - 1) PROVE mem[call.p + i] = mem[call.q + i]
    <3>1. CASE i < Past
      BY <1>2, <3>1
    <3>2. CASE i >= Past
      <4>1. i - Past \in 0..(Size - 1) /\ p + (i - Past) = call.p + i /\ q + (i - Past) = call.q + i
        BY <1>3, <3>2
      <4>2. mem[p + (i - Past)] = mem[q + (i - Past)]
        BY <1>4, <4>1 DEF Same
      <4> QED
        BY <4>1, <4>2
    <3> QED
      BY <1>2, <1>3, <3>1, <3>2
  <2>5. ASSUME NEW i \in 0..(Past' - 1) PROVE mem'[call'.p + i] = mem'[call'.q + i]
    <3>1. i \in 0..(Past + Size - 1)
      BY <1>3, <2>2
    <3>2. mem[call.p + i] = mem[call.q + i]
      BY <2>4, <3>1
    <3> QED
      BY <1>1, <3>2
  <2>6. Copied' /\ Compared'
    BY <2>1, <2>5 DEF Copied, Compared
  <2> QED
    BY <2>3, <2>6 DEF MemInv
<1>5. CASE UNCHANGED <<moving, p, q, n, result>>
  <2>1. Past' = Past
    BY <1>1, <1>5 DEF Past
  <2>2. CallKept'
    BY <1>1, <1>2, <1>5, <2>1 DEF CallKept, InMemory
  <2>3. Copied' /\ Compared'
    BY <1>1, <1>2, <1>5, <2>1 DEF Copied, Compared
  <2> QED
    BY <2>2, <2>3 DEF MemInv
<1>6. CASE /\ ~Same /\ ~InWords
           /\ moving' = "compared" /\ result' = Difference(mem[p], mem[q])
           /\ UNCHANGED <<words, p, q, n>>
  <2>1. mem[p] # mem[q]
    <3>1. Size = 1
      BY <1>6 DEF Size
    <3>2. p + 0 = p /\ q + 0 = q
      BY <1>2 DEF InMemory
    <3> QED
      BY <1>6, <3>1, <3>2 DEF Same
  <2>2. Past' = Past
    BY <1>1, <1>6 DEF Past
  <2> QED
    BY <1>1, <1>2, <1>6, <2>1, <2>2 DEF MemInv, CallKept, Copied, Compared, InMemory, Difference
<1> QED
  BY <1>4, <1>5, <1>6 DEF compare_turn

LEMMA MoveEnds == ASSUME MemInv, move_end \/ MemReturn PROVE MemInv'
<1>1. CASE MemReturn
  BY <1>1 DEF MemReturn, MemInv, CallKept, Copied, Compared
<1>2. CASE move_end
  <2>1. n = 0 /\ mem' = mem /\ call' = call /\ p' = p /\ q' = q /\ n' = n
    BY <1>2 DEF move_end
  <2>2. \/ moving = "copy" /\ moving' = "copied"
        \/ moving = "compare" /\ moving' = "compared" /\ result' = 0
    BY <1>2 DEF move_end
  <2>3. Past' = Past
    BY <2>1 DEF Past
  <2> QED
    BY <2>1, <2>2, <2>3 DEF MemInv, CallKept, Copied, Compared, InMemory, Apart
<1> QED
  BY <1>1, <1>2

LEMMA MemStutters == ASSUME MemInv, UNCHANGED mvars PROVE MemInv'
  BY DEF mvars, MemInv, CallKept, Copied, Compared, Past, InMemory, Apart

LEMMA AlwaysMem == Spec => []MemInv
<1>1. Init => MemInv
  BY MemInit DEF Init
<1>2. MemInv /\ [Next]_rvars => MemInv'
  BY Disjoint, MemBegins, CopyTurns, CompareTurns, MoveEnds, MemStutters DEF MemTurn
<1> QED
  BY <1>1, <1>2, PTL DEF Spec

(* memcpy() writes its destination and nothing else, and what it writes is *)
(* the source, for every memory, count, alignment and overlap backwards.   *)
THEOREM CopyIsExact == Spec => []CopiesExactly
<1>1. ASSUME MemInv PROVE CopiesExactly
  <2> SUFFICES ASSUME moving \in {"copy", "copied"}
               PROVE  CopiesExactly!2
    BY DEF CopiesExactly
  <2>1. /\ DOMAIN mem = 0..(MemBytes - 1) /\ call.n \in Nat /\ n \in 0..call.n /\ call.p \in Nat
        /\ moving = "copied" => Past = call.n
    BY <1>1 DEF MemInv, CallKept, Copied, Past, InMemory
  <2>2. ASSUME NEW i \in DOMAIN mem, i \notin call.p..(call.p + call.n - 1)
        PROVE  mem[i] = call.mem[i]
    <3>1. i \notin call.p..(call.p + Past - 1)
      BY <2>1, <2>2 DEF Past
    <3> QED
      BY <1>1, <2>1, <3>1 DEF MemInv, Copied
  <2>3. ASSUME moving = "copied", Apart
        PROVE  \A i \in 0..(call.n - 1) : mem[call.p + i] = call.mem[call.q + i]
    BY <1>1, <2>1, <2>3 DEF MemInv, Copied
  <2> QED
    BY <2>2, <2>3 DEF Apart
<1> QED
  BY <1>1, AlwaysMem, PTL

(* memcmp() tells the order of the first bytes that differ, or that none   *)
(* does.                                                                   *)
THEOREM CompareIsExact == Spec => []ComparesBytes
<1>1. ASSUME MemInv PROVE ComparesBytes
  <2> SUFFICES ASSUME moving = "compared" PROVE ComparesBytes!2
    BY DEF ComparesBytes
  <2>1. /\ mem \in [0..(MemBytes - 1) -> Nat]
        /\ call.n \in Nat /\ InMemory(call.p) /\ InMemory(call.q)
        /\ n \in 0..call.n /\ p = call.p + Past /\ q = call.q + Past
        /\ Past \in Nat /\ Past + n = call.n
        /\ \A i \in 0..(Past - 1) : mem[call.p + i] = mem[call.q + i]
        /\ \/ n = 0 /\ result = 0
           \/ n > 0 /\ mem[p] # mem[q] /\ result = mem[p] - mem[q]
    BY <1>1 DEF MemInv, CallKept, Compared, Past
  <2>2. CASE n = 0
    BY <2>1, <2>2
  <2>3. CASE n > 0
    <3>1. Past \in 0..(call.n - 1) /\ mem[call.p + Past] # mem[call.q + Past]
      BY <2>1, <2>3
    <3>2. FirstDifference = Past
      <4>1. ASSUME NEW i \in 0..(call.n - 1), mem[call.p + i] # mem[call.q + i],
                   \A j \in 0..(i - 1) : mem[call.p + j] = mem[call.q + j]
            PROVE  i = Past
        <5>1. ~(i < Past)
          BY <2>1, <4>1
        <5>2. ~(Past < i)
          BY <2>1, <3>1, <4>1
        <5> QED
          BY <2>1, <5>1, <5>2
      <4> QED
        BY <2>1, <3>1, <4>1 DEF FirstDifference
    <3> DEFINE d == mem[call.p + Past] - mem[call.q + Past]
    <3>3. d \in Int /\ d # 0 /\ result = d
      <4>1. call.p + Past \in 0..(MemBytes - 1) /\ call.q + Past \in 0..(MemBytes - 1)
        <5> HIDE DEF d
        <5> QED
          BY <1>1, <2>3, TurnPlace
      <4> QED
        BY <2>1, <2>3, <3>1, <4>1
    <3>4. d * d > 0
      <4> HIDE DEF d
      <4> QED
        BY <3>3
    <3> QED
      BY <3>1, <3>2, <3>3, <3>4
  <2> QED
    BY <2>1, <2>2, <2>3
<1> QED
  BY <1>1, AlwaysMem, PTL

-----------------------------------------------------------------------------
(* The update of a sector. What fat_buffer holds once the word is changed: *)
(* the sector, but for that word, or junk after a read that gave up.       *)
Changed ==
    /\ fat_buffer \in [Places -> Int] /\ fat_buffer[entry] = FRESH
    /\ \A i \in Places : i # entry /\ fat_buffer[i] # i => gave_up /\ fat_buffer[i] = JUNK

Counted ==
    /\ transfer \in {"none", "read", "write", "returned"}
    /\ entry \in Places /\ moved \in 0..WORDS /\ safety_timeout \in 0..TURNS

Reading ==
    transfer = "read" =>
        /\ fat_buffer \in [Places -> Int]
        /\ \A i \in Places : fat_buffer[i] = IF i < moved THEN i ELSE JUNK

(* The card keeps its sector until it is sent the new one whole.           *)
Untouched == transfer # "returned" => card = Old
Writing == transfer = "write" => Changed
Written ==
    transfer = "returned" =>
        \/ card = Old /\ (answer = 0 => safety_timeout = 0 /\ moved = WORDS)
        \/ card = fat_buffer /\ Changed


SdInv ==
    /\ Counted
    /\ transfer = "none" => fat_buffer = Unset
    /\ Reading /\ Untouched /\ Writing /\ Written

LEMMA SdStarts ==
  /\ SdIdle => SdInv
  /\ SdInv /\ SdBegin => SdInv'
<1>1. /\ 0 \in Places /\ 0 \in 0..WORDS /\ 0 \in 0..TURNS /\ TURNS \in 0..TURNS
      /\ JUNK \in Int /\ \A i \in Places : ~(i < 0)
  BY SectorAssumption, TurnsAssumption DEF Places, JUNK
<1>2. SdIdle => SdInv
  BY <1>1 DEF SdIdle, SdInv, Counted, Reading, Untouched, Writing, Written
<1>3. ASSUME SdInv, NEW e \in Places, k_sd_read_sector(e) PROVE SdInv'
  <2>1. /\ transfer = "none" /\ transfer' = "read" /\ entry' = e /\ moved' = 0
        /\ safety_timeout' = TURNS /\ fat_buffer' = fat_buffer /\ card' = card
    BY <1>3 DEF k_sd_read_sector
  <2>2. fat_buffer = Unset /\ card = Old
    BY <1>3, <2>1 DEF SdInv, Untouched
  <2>3. Counted'
    BY <1>1, <2>1 DEF Counted
  <2>4. Reading'
    BY <1>1, <2>1, <2>2 DEF Reading, Unset
  <2> QED
    BY <2>1, <2>2, <2>3, <2>4 DEF SdInv, Untouched, Writing, Written
<1> QED
  BY <1>2, <1>3 DEF SdBegin

LEMMA SdReads == ASSUME SdInv, read_turn PROVE SdInv'
<1>1. /\ transfer = "read" /\ moved < WORDS /\ safety_timeout > 0
      /\ entry' = entry /\ card' = card /\ card = Old
      /\ entry \in Places /\ moved \in 0..WORDS /\ safety_timeout \in 0..TURNS
      /\ fat_buffer \in [Places -> Int]
      /\ \A i \in Places : fat_buffer[i] = IF i < moved THEN i ELSE JUNK
  BY DEF read_turn, Left, SdInv, Counted, Reading, Untouched
<1>2. moved \in Places /\ moved \in Int /\ card[moved] = moved
  BY <1>1, SectorAssumption DEF Places, Old
<1>3. \/ transfer' = "read" /\ safety_timeout' = safety_timeout - 1
      \/ transfer' = "returned" /\ answer' = -1 /\ safety_timeout' = safety_timeout
  BY <1>1 DEF read_turn, Spent, Returns
<1>4. /\ moved' \in 0..WORDS /\ fat_buffer' \in [Places -> Int]
      /\ \A i \in Places : fat_buffer'[i] = IF i < moved' THEN i ELSE JUNK
  <2>1. CASE fat_buffer' = fat_buffer /\ moved' = moved
    BY <1>1, <2>1
  <2>2. CASE fat_buffer' = [fat_buffer EXCEPT ![moved] = card[moved]] /\ moved' = moved + 1
    <3>1. moved' \in 0..WORDS
      BY <1>1, <2>2, SectorAssumption
    <3>2. fat_buffer' \in [Places -> Int]
      BY <1>1, <1>2, <2>2
    <3>3. ASSUME NEW i \in Places
          PROVE  fat_buffer'[i] = IF i < moved' THEN i ELSE JUNK
      <4>1. fat_buffer'[i] = IF i = moved THEN moved ELSE fat_buffer[i]
        BY <1>1, <1>2, <2>2
      <4>2. i \in Int /\ (i < moved' <=> i < moved \/ i = moved)
        BY <1>2, <2>2 DEF Places
      <4> QED
        BY <1>1, <4>1, <4>2
    <3> QED
      BY <3>1, <3>2, <3>3
  <2> QED
    BY <2>1, <2>2 DEF read_turn
<1>5. Counted'
  <2>1. safety_timeout' \in 0..TURNS
    BY <1>1, <1>3, TurnsAssumption
  <2> QED
    BY <1>1, <1>3, <1>4, <2>1 DEF Counted
<1>6. Written'
  BY <1>1, <1>3 DEF Written
<1> QED
  BY <1>1, <1>3, <1>4, <1>5, <1>6 DEF SdInv, Reading, Untouched, Writing

LEMMA SdReadEnds == ASSUME SdInv, read_end PROVE SdInv'
<1>1. /\ transfer = "read" /\ ~(moved < WORDS /\ safety_timeout > 0)
      /\ transfer' = "write" /\ moved' = 0 /\ safety_timeout' = TURNS
      /\ fat_buffer' = [fat_buffer EXCEPT ![entry] = FRESH]
      /\ entry' = entry /\ card' = card /\ card = Old
      /\ entry \in Places /\ moved \in 0..WORDS /\ safety_timeout \in 0..TURNS
      /\ fat_buffer \in [Places -> Int]
      /\ \A i \in Places : fat_buffer[i] = IF i < moved THEN i ELSE JUNK
  BY DEF read_end, Left, SdInv, Counted, Reading, Untouched
<1>2. FRESH \in Int /\ JUNK \in Int
  BY SectorAssumption DEF FRESH, JUNK
<1>3. moved < WORDS => gave_up'
  <2>1. moved < WORDS => safety_timeout = 0
    BY <1>1, TurnsAssumption
  <2>2. gave_up' = (safety_timeout = 0 /\ moved < WORDS)
    BY Zenon DEF read_end
  <2> QED
    BY <2>1, <2>2, Zenon
<1>4. ASSUME NEW i \in Places, i # entry, fat_buffer'[i] # i
      PROVE  gave_up' /\ fat_buffer'[i] = JUNK
  <2>1. fat_buffer'[i] = fat_buffer[i]
    BY <1>1, <1>4
  <2>2. fat_buffer[i] = JUNK /\ ~(i < moved)
    BY <1>1, <1>4, <2>1
  <2>3. moved < WORDS
    BY <1>1, <2>2, SectorAssumption DEF Places
  <2> QED
    BY <1>3, <2>1, <2>2, <2>3
<1>5. Changed'
  BY <1>1, <1>2, <1>4 DEF Changed
<1>6. Counted'
  BY <1>1, SectorAssumption, TurnsAssumption DEF Counted
<1> QED
  BY <1>1, <1>5, <1>6 DEF SdInv, Reading, Untouched, Writing, Written

LEMMA SdWrites == ASSUME SdInv, write_turn \/ write_wait \/ write_end PROVE SdInv'
<1>1. /\ transfer = "write" /\ card = Old /\ Changed
      /\ entry \in Places /\ moved \in 0..WORDS /\ safety_timeout \in 0..TURNS
  BY DEF write_turn, write_wait, write_end, SdInv, Counted, Untouched, Writing
<1>2. entry' = entry /\ fat_buffer' = fat_buffer /\ gave_up' = gave_up
  BY DEF write_turn, write_wait, write_end
<1>3. Changed'
  BY <1>1, <1>2 DEF Changed
<1>4. /\ moved' \in 0..WORDS /\ safety_timeout' \in 0..TURNS
      /\ \/ transfer' = "write" /\ card' = card
         \/ /\ transfer' = "returned"
            /\ \/ card' = fat_buffer
               \/ card' = card /\ (answer' = 0 => safety_timeout' = 0 /\ moved' = WORDS)
  <2>1. CASE write_turn
    BY <1>1, <2>1, SectorAssumption, TurnsAssumption DEF write_turn, Left, Spent, Returns
  <2>2. CASE write_wait
    BY <1>1, <2>2, TurnsAssumption DEF write_wait, Spent, Returns
  <2>3. CASE write_end
    BY <1>1, <2>3 DEF write_end, Returns, Sent
  <2> QED
    BY <2>1, <2>2, <2>3
<1>5. Counted'
  BY <1>1, <1>2, <1>4 DEF Counted
<1> QED
  BY <1>1, <1>2, <1>3, <1>4, <1>5 DEF SdInv, Reading, Untouched, Writing, Written

LEMMA SdReturns == ASSUME SdReturn PROVE SdInv'
<1>1. 0 \in Places /\ 0 \in 0..WORDS /\ 0 \in 0..TURNS
  BY SectorAssumption, TurnsAssumption DEF Places
<1> QED
  BY <1>1 DEF SdReturn, SdInv, Counted, Reading, Untouched, Writing, Written, Old, Unset, Places

LEMMA SdStutters == ASSUME SdInv, UNCHANGED svars PROVE SdInv'
  BY DEF svars, SdInv, Counted, Reading, Untouched, Writing, Written, Changed

(* mark_cluster_in_fat() changes its own word of the sector and no other   *)
(* but after a read that gave up, and reports success only when it has or  *)
(* when the card took every word and the turns ran out, whatever the card  *)
(* does and however many turns the driver waits.                           *)
THEOREM UpdatesAreExact == Spec => []UpdatesOneWord
<1>1. Init => SdInv
  BY SdStarts DEF Init
<1>2. SdInv /\ [Next]_rvars => SdInv'
  BY Disjoint, SdStarts, SdReads, SdReadEnds, SdWrites, SdReturns, SdStutters DEF SdTurn
<1>3. ASSUME SdInv PROVE UpdatesOneWord
  <2>1. /\ entry \in Places
        /\ card = Old \/ (card = fat_buffer /\ Changed)
        /\ transfer = "returned" /\ answer = 0 =>
              (card = fat_buffer /\ Changed) \/ (safety_timeout = 0 /\ moved = WORDS)
    BY <1>3 DEF SdInv, Counted, Untouched, Written
  <2>2. ASSUME NEW i \in Places, card[i] # i
        PROVE  i = entry \/ (gave_up /\ card[i] = JUNK)
    BY <2>1, <2>2 DEF Old, Changed
  <2>3. transfer = "returned" /\ answer = 0 =>
            card[entry] = FRESH \/ (safety_timeout = 0 /\ moved = WORDS)
    BY <2>1 DEF Changed
  <2> QED
    BY <2>2, <2>3 DEF UpdatesOneWord
<1> QED
  BY <1>1, <1>2, <1>3, PTL DEF Spec

-----------------------------------------------------------------------------
(* Lines. Among the other routines draw_line() runs as it does alone...    *)
LEMMA DrawsAlone == Spec => DrawSpec
<1>1. Init => DrawIdle
  BY DEF Init
<1>2. [Next]_rvars => [DrawNext]_locals
  BY Disjoint
<1> QED
  BY <1>1, <1>2, PTL DEF Spec, DrawSpec

(* ... and text, the other writer of framebuffer, is not drawn meanwhile.  *)
OneDraws == drawing => at = "none"

OnlyScreen == lit \subseteq 0..(LCD_WIDTH * LCD_HEIGHT - 1)

LinesInv == OneDraws /\ OnlyScreen /\ Painted

LEMMA LinesInit == Init => LinesInv
  BY DEF Init, DrawIdle, FontIdle, LinesInv, OneDraws, OnlyScreen, Painted

LEMMA TextKeepsLines == ASSUME LinesInv, FontTurn PROVE LinesInv'
<1>1. at # "none"
  BY DEF FontTurn, Loading, read_directory, read_head_maxp, invalid_format, read_segments,
         read_metrics, read_loca, draw_char, Sleeps, Goes
<1>2. ~drawing /\ drawing' = drawing
  BY <1>1 DEF LinesInv, OneDraws, FontTurn, locals, dvars
<1>3. CASE UNCHANGED dvars
  BY <1>2, <1>3 DEF dvars, LinesInv, OneDraws, OnlyScreen, Painted
<1>4. CASE draw_char
  BY <1>2, <1>4, PixelsOnScreen DEF draw_char, LinesInv, OneDraws, OnlyScreen, Painted
<1>5. CASE Sleeps
  BY <1>2, <1>5 DEF Sleeps, LinesInv, OneDraws, OnlyScreen, Painted
<1> QED
  BY <1>3, <1>4, <1>5 DEF FontTurn

LEMMA LineKeepsLines ==
  ASSUME IInv, Near, LinesInv, line_turn \/ line_break, at' = at
  PROVE  LinesInv'
<1>1. CASE line_turn
  <2>1. drawing /\ drawing' = drawing /\ lit' = lit \cup Clipped(x, y)
    BY <1>1 DEF line_turn, put_pixel
  <2>2. OneDraws' /\ OnlyScreen'
    BY <2>1, PixelsOnScreen DEF LinesInv, OneDraws, OnlyScreen
  <2> QED
    BY <1>1, <2>2, TurnPaints DEF LinesInv
<1>2. CASE line_break
  BY <1>2 DEF line_break, LinesInv, OneDraws, OnlyScreen, Painted
<1> QED
  BY <1>1, <1>2

LEMMA CallsKeepLines == ASSUME LinesInv, Calls PROVE LinesInv'
<1>1. ~drawing /\ at = "none"
  BY DEF Calls, Running
<1>2. CASE UNCHANGED dvars
  BY <1>1, <1>2 DEF dvars, LinesInv, OneDraws, OnlyScreen, Painted
<1>3. ASSUME NEW s \in Points, NEW e \in Points, draw_line(s, e), UNCHANGED fvars
      PROVE  LinesInv'
  <2>1. lit' = {} /\ at' = at
    BY <1>3 DEF draw_line, fvars
  <2> QED
    BY <1>1, <1>3, <2>1, CallPaints DEF LinesInv, OneDraws, OnlyScreen
<1> QED
  BY <1>2, <1>3 DEF Calls

LEMMA OthersKeepLines == ASSUME LinesInv, UNCHANGED <<dvars, fvars>> PROVE LinesInv'
  BY DEF dvars, fvars, LinesInv, OneDraws, OnlyScreen, Painted, Made, Reached, a, b, dx, dy,
         OnScreen

LEMMA AlwaysLines == Spec => []LinesInv
<1>1. ASSUME IInv, Near, LinesInv, [Next]_rvars PROVE LinesInv'
  <2>1. CASE FontTurn
    BY <1>1, <2>1, TextKeepsLines
  <2>2. CASE (line_turn \/ line_break) /\ UNCHANGED fvars
    BY <1>1, <2>2, LineKeepsLines DEF fvars
  <2>3. CASE Calls
    BY <1>1, <2>3, CallsKeepLines
  <2>4. CASE UNCHANGED <<dvars, fvars>>
    BY <1>1, <2>4, OthersKeepLines
  <2> QED
    BY <1>1, <2>1, <2>2, <2>3, <2>4 DEF Next, Turn, rvars
<1> QED
  BY <1>1, LinesInit, DrawsAlone, Inductive, AlwaysNear, PTL DEF Spec

(* A line that fits the screen has one pixel for each step along its       *)
(* longer axis, and no routine writes outside framebuffer, for a screen of *)
(* any size and all points.                                                *)
THEOREM LinesAreUnbroken == Spec => []LineUnbroken
<1>1. ASSUME LinesInv PROVE LineUnbroken
  BY <1>1 DEF LinesInv, OnlyScreen, Painted, Made, a, b, LineUnbroken
<1> QED
  BY <1>1, AlwaysLines, PTL

-----------------------------------------------------------------------------
(* printf(). What a row of digits stands for, digit by digit.              *)
Values(digits, base) ==
    CHOOSE v : v = [i \in 0..Len(digits) |-> IF i = 0 THEN 0 ELSE v[i - 1] * base + digits[i]]

LEMMA ValueIsLast ==
  ASSUME NEW digits, NEW base
  PROVE  Value(digits, base) = Values(digits, base)[Len(digits)]
  BY DEF Value, Values

LEMMA ValuesAre ==
  ASSUME NEW d \in Seq(Int), NEW base \in Int
  PROVE  /\ Values(d, base) \in [0..Len(d) -> Int]
         /\ Values(d, base)[0] = 0
         /\ \A i \in 1..Len(d) : Values(d, base)[i] = Values(d, base)[i - 1] * base + d[i]
<1> DEFINE More(i, k) == k * base + d[i]
           step == [it \in (1..Len(d)) \X Int |-> More(it[1], it[2])]
<1>1. Len(d) \in Nat /\ \A i \in 1..Len(d) : d[i] \in Int
  OBVIOUS
<1>2. ASSUME NEW i \in 1..Len(d), NEW k \in Int PROVE More(i, k) \in Int
  <2>1. d[i] \in Int /\ k * base \in Int
    BY <1>1
  <2> QED
    BY <2>1
<1> HIDE DEF More
<1>3. step \in [(1..Len(d)) \X Int -> Int]
  BY <1>2
<1>4. ASSUME NEW i \in 1..Len(d), NEW k \in Int PROVE step[<<i, k>>] = More(i, k)
  <2>1. <<i, k>> \in (1..Len(d)) \X Int
    OBVIOUS
  <2>2. step[<<i, k>>] = More(<<i, k>>[1], <<i, k>>[2])
    BY <2>1
  <2>3. <<i, k>>[1] = i /\ <<i, k>>[2] = k
    OBVIOUS
  <2> QED
    BY <2>2, <2>3
<1> HIDE DEF step
<1>5. PICK f \in [0..Len(d) -> Int] : f[0] = 0 /\ \A i \in 1..Len(d) : f[i] = step[<<i, f[i - 1]>>]
  <2>1. Len(d) \in Nat /\ 0 \in Int
    BY <1>1
  <2>2. \E f \in [0..Len(d) -> Int] : Follows(f, Len(d), 0, step)
    BY <1>3, <2>1, RecursionExists
  <2> QED
    BY <2>2 DEF Follows
<1>6. \A i \in 1..Len(d) : f[i] = f[i - 1] * base + d[i]
  <2> TAKE i \in 1..Len(d)
  <2>1. f[i - 1] \in Int
    BY <1>1, <1>5
  <2> QED
    BY <1>4, <1>5, <2>1 DEF More
<1>7. f = [i \in 0..Len(d) |-> IF i = 0 THEN 0 ELSE f[i - 1] * base + d[i]]
  <2>1. ASSUME NEW i \in 0..Len(d)
        PROVE  f[i] = IF i = 0 THEN 0 ELSE f[i - 1] * base + d[i]
    <3>1. CASE i = 0
      BY <1>5, <3>1
    <3>2. CASE i # 0
      <4>1. i \in 1..Len(d)
        BY <1>1, <3>2
      <4> QED
        BY <1>6, <3>2, <4>1
    <3> QED
      BY <3>1, <3>2
  <2> QED
    BY <2>1
<1>8. Values(d, base)
        = [i \in 0..Len(d) |-> IF i = 0 THEN 0 ELSE Values(d, base)[i - 1] * base + d[i]]
  BY <1>7 DEF Values
<1> DEFINE w == Values(d, base)
<1> HIDE DEF w
<1>9. w = [i \in 0..Len(d) |-> IF i = 0 THEN 0 ELSE More(i, w[i - 1])]
  BY <1>8 DEF w, More
<1>10. w[0] = 0 /\ \A i \in 1..Len(d) : w[i] = More(i, w[i - 1])
  BY <1>1, <1>9
<1>11. \A i \in 1..Len(d) : w[i - 1] \in Int => w[i] \in Int
  BY <1>2, <1>10
<1>12. \A i \in 0..Len(d) : w[i] \in Int
  <2>1. w[0] \in Int
    BY <1>10
  <2> QED
    BY <1>1, <1>11, <2>1, LoopStays
<1>13. w \in [0..Len(d) -> Int]
  BY <1>9, <1>12
<1> QED
  BY <1>10, <1>13 DEF w, More

(* A digit more: the value times the base, and the digit.                  *)
LEMMA ValueOf ==
  ASSUME NEW base \in Int
  PROVE  /\ Value(<<>>, base) = 0
         /\ \A d \in Seq(Int), c \in Int :
               /\ Value(d, base) \in Int
               /\ Value(Append(d, c), base) = Value(d, base) * base + c
<1>1. Value(<<>>, base) = 0
  <2>1. <<>> \in Seq(Int) /\ Len(<<>>) = 0
    OBVIOUS
  <2>2. Value(<<>>, base) = Values(<<>>, base)[0]
    BY <2>1, ValueIsLast
  <2> QED
    BY <2>1, <2>2, ValuesAre
<1>2. ASSUME NEW d \in Seq(Int), NEW c \in Int
      PROVE  /\ Value(d, base) \in Int
             /\ Value(Append(d, c), base) = Value(d, base) * base + c
  <2> DEFINE e == Append(d, c)
             v == Values(d, base)
             w == Values(e, base)
  <2>1. /\ e \in Seq(Int) /\ Len(d) \in Nat /\ Len(e) = Len(d) + 1 /\ e[Len(d) + 1] = c
        /\ \A i \in 1..Len(d) : e[i] = d[i]
    OBVIOUS
  <2> HIDE DEF e
  <2>2. /\ v \in [0..Len(d) -> Int] /\ v[0] = 0
        /\ \A i \in 1..Len(d) : v[i] = v[i - 1] * base + d[i]
    BY ValuesAre
  <2>3. /\ w[0] = 0
        /\ \A i \in 1..(Len(d) + 1) : w[i] = w[i - 1] * base + e[i]
    BY <2>1, ValuesAre
  <2>4. Value(d, base) = v[Len(d)] /\ Value(e, base) = w[Len(d) + 1]
    BY <2>1, ValueIsLast
  <2> HIDE DEF v, w
  <2> DEFINE T == {k \in Nat : k <= Len(d) => w[k] = v[k]}
  <2>5. 0 \in T
    BY <2>2, <2>3
  <2>6. ASSUME NEW k \in Nat, k \in T PROVE k + 1 \in T
    <3> SUFFICES ASSUME k + 1 <= Len(d) PROVE w[k + 1] = v[k + 1]
      OBVIOUS
    <3>1. /\ k + 1 \in 1..Len(d) /\ k + 1 \in 1..(Len(d) + 1) /\ (k + 1) - 1 = k
          /\ w[k] = v[k]
      BY <2>1, <2>6
    <3>2. w[k + 1] = w[k] * base + e[k + 1] /\ v[k + 1] = v[k] * base + d[k + 1]
      BY <2>2, <2>3, <3>1
    <3> QED
      BY <2>1, <3>1, <3>2
  <2> HIDE DEF T
  <2>7. Len(d) \in T
    BY <2>1, <2>5, <2>6, Induct
  <2>8. w[Len(d)] = v[Len(d)]
    BY <2>1, <2>7 DEF T
  <2>9. w[Len(d) + 1] = w[Len(d)] * base + c
    <3>1. Len(d) + 1 \in 1..(Len(d) + 1) /\ (Len(d) + 1) - 1 = Len(d)
      BY <2>1
    <3> QED
      BY <2>1, <2>3, <3>1
  <2>10. v[Len(d)] \in Int
    BY <2>1, <2>2
  <2> QED
    BY <2>4, <2>8, <2>9, <2>10 DEF e
<1> QED
  BY <1>1, <1>2

-----------------------------------------------------------------------------
(* Base 16. What itoa() has of a number after its last digit.              *)
Temps(value) ==
    CHOOSE temp : temp = [v \in 0..value |-> IF v = 0 THEN <<>>
                                            ELSE Append(temp[v \div 16], v % 16)]

LEMMA HexIsTemp ==
  ASSUME NEW value, value # 0
  PROVE  itoa16(value) = Temps(value)[value]
  BY DEF itoa16, Temps

LEMMA HexDigit ==
  ASSUME NEW v \in Nat \ {0}
  PROVE  /\ v \div 16 \in 0..(v - 1) /\ v % 16 \in 0..15
         /\ v = (v \div 16) * 16 + (v % 16)
<1> DEFINE m == v \div 16
           c == v % 16
<1>1. m \in Int /\ c \in 0..15 /\ v = 16 * m + c
  OBVIOUS
<1> HIDE DEF m, c
<1>2. m \in 0..(v - 1) /\ c \in 0..15 /\ v = m * 16 + c
  BY <1>1
<1> QED
  BY <1>2, Zenon DEF m, c

LEMMA TempsAre ==
  ASSUME NEW value \in Nat
  PROVE  Temps(value) = [v \in 0..value |-> IF v = 0 THEN <<>>
                                           ELSE Append(Temps(value)[v \div 16], v % 16)]
<1> DEFINE More(h, v) == IF v = 0 THEN <<>> ELSE Append(h[v \div 16], v % 16)
           T == {k \in Nat : \E h : h = [v \in 0..k |-> More(h, v)]}
<1>1. 0 \in T
  <2> DEFINE h == [v \in 0..0 |-> <<>>]
  <2>1. h = [v \in 0..0 |-> More(h, v)]
    OBVIOUS
  <2> HIDE DEF h
  <2> QED
    BY <2>1
<1>2. ASSUME NEW k \in Nat, k \in T PROVE k + 1 \in T
  <2>1. PICK h : h = [v \in 0..k |-> More(h, v)]
    BY <1>2
  <2> DEFINE g == [v \in 0..(k + 1) |-> IF v <= k THEN h[v] ELSE More(h, v)]
  <2>2. ASSUME NEW v \in 0..(k + 1) PROVE g[v] = More(g, v)
    <3>1. g[v] = More(h, v)
      <4>1. v <= k => v \in 0..k
        OBVIOUS
      <4> HIDE DEF More
      <4>2. v \in 0..k => h[v] = More(h, v)
        BY <2>1
      <4> QED
        BY <4>1, <4>2
    <3>2. CASE v = 0
      BY <3>1, <3>2
    <3>3. CASE v # 0
      <4>1. v \div 16 \in 0..k
        BY <3>3, HexDigit
      <4>2. g[v \div 16] = h[v \div 16]
        BY <4>1
      <4> QED
        BY <3>1, <4>2
    <3> QED
      BY <3>2, <3>3
  <2>3. g = [v \in 0..(k + 1) |-> More(g, v)]
    <3>1. g = [v \in 0..(k + 1) |-> g[v]]
      OBVIOUS
    <3> HIDE DEF g, More
    <3> QED
      BY <2>2, <3>1
  <2> HIDE DEF g, More
  <2> QED
    BY <2>3
<1> HIDE DEF T
<1>3. value \in T
  BY <1>1, <1>2, Induct
<1>4. \E h : h = [v \in 0..value |-> More(h, v)]
  BY <1>3 DEF T
<1> QED
  BY <1>4 DEF Temps

(* itoa() in base 16 gives back its argument, with no zero in front.       *)
LEMMA HexReads ==
  ASSUME NEW value \in Nat
  PROVE  /\ itoa16(value) \in Seq(0..15)
         /\ Value(itoa16(value), 16) = value
         /\ Len(itoa16(value)) > 1 => itoa16(value)[1] # 0
<1>1. CASE value = 0
  <2> DEFINE s == Append(<<>>, 0)
  <2>1. itoa16(value) = s /\ s \in Seq(0..15) /\ Len(s) = 1
    BY <1>1 DEF itoa16
  <2>2. 16 \in Int /\ 0 \in Int /\ <<>> \in Seq(Int)
    OBVIOUS
  <2>3. Value(s, 16) = Value(<<>>, 16) * 16 + 0 /\ Value(<<>>, 16) = 0
    BY <2>2, ValueOf
  <2> HIDE DEF s
  <2>4. Value(s, 16) = value /\ ~(Len(s) > 1)
    BY <1>1, <2>1, <2>3
  <2> QED
    BY <2>1, <2>4, Zenon
<1>2. CASE value # 0
  <2> DEFINE h == Temps(value)
             Read(s, v) == /\ s \in Seq(0..15)
                           /\ Value(s, 16) = v
                           /\ v # 0 => Len(s) > 0 /\ s[1] # 0
             T == {k \in Nat : \A v \in 0..k : v <= value => Read(h[v], v)}
  <2>0. h = [v \in 0..value |-> IF v = 0 THEN <<>> ELSE Append(h[v \div 16], v % 16)]
    BY TempsAre
  <2> HIDE DEF h
  <2>1. /\ h[0] = <<>>
        /\ \A v \in 1..value : h[v] = Append(h[v \div 16], v % 16)
    <3>1. 0 \in 0..value /\ \A v \in 1..value : v \in 0..value /\ v # 0
      OBVIOUS
    <3> QED
      BY <2>0, <3>1, Zenon
  <2>2. 0 \in T
    <3>1. 16 \in Int /\ <<>> \in Seq(0..15)
      OBVIOUS
    <3>2. Value(<<>>, 16) = 0
      BY <3>1, ValueOf
    <3>3. Read(h[0], 0)
      BY <2>1, <3>1, <3>2
    <3> HIDE DEF Read
    <3>4. \A v \in 0..0 : v = 0
      OBVIOUS
    <3> QED
      BY <3>3, <3>4
  <2>3. ASSUME NEW k \in Nat, k \in T PROVE k + 1 \in T
    <3>1. ASSUME k + 1 <= value PROVE Read(h[k + 1], k + 1)
      <4> DEFINE v == k + 1
                 m == v \div 16
                 c == v % 16
                 s == h[m]
      <4>1. v \in Nat \ {0} /\ v \in 1..value
        BY <3>1
      <4>2. m \in 0..k /\ c \in 0..15 /\ v = m * 16 + c
        BY <4>1, HexDigit
      <4>3. h[v] = Append(s, c)
        BY <2>1, <4>1
      <4> HIDE DEF v, m, c
      <4>4. m \in Nat /\ m <= value /\ c \in Int
        BY <3>1, <4>2
      <4>5. Read(s, m)
        BY <2>3, <4>2, <4>4
      <4> HIDE DEF s
      <4>6. s \in Seq(0..15) /\ s \in Seq(Int) /\ Len(s) \in Nat
        BY <4>5
      <4>7. Value(Append(s, c), 16) = v
        <5>1. 16 \in Int
          OBVIOUS
        <5>2. Value(Append(s, c), 16) = Value(s, 16) * 16 + c
          BY <4>4, <4>6, <5>1, ValueOf
        <5> QED
          BY <4>2, <4>5, <5>2
      <4>8. Append(s, c) \in Seq(0..15) /\ Len(Append(s, c)) > 0
        BY <4>2, <4>6
      <4>9. Append(s, c)[1] # 0
        <5>1. CASE m = 0
          <6>1. c # 0
            BY <4>1, <4>2, <5>1
          <6>2. s = <<>>
            BY <2>1, <5>1 DEF s
          <6> QED
            BY <6>1, <6>2
        <5>2. CASE m # 0
          <6>1. Len(s) > 0 /\ s[1] # 0
            BY <4>5, <5>2
          <6>2. Append(s, c)[1] = s[1]
            BY <4>6, <6>1
          <6> QED
            BY <6>1, <6>2
        <5> QED
          BY <5>1, <5>2
      <4>10. Read(h[v], v)
        BY <4>3, <4>7, <4>8, <4>9
      <4> QED
        BY <4>10 DEF v
    <3> HIDE DEF Read
    <3>2. ASSUME NEW v \in 0..(k + 1), v <= value PROVE Read(h[v], v)
      <4>1. CASE v <= k
        <5>1. v \in 0..k
          BY <4>1
        <5> QED
          BY <2>3, <3>2, <5>1
      <4>2. CASE v = k + 1
        BY <3>1, <3>2, <4>2
      <4> QED
        BY <4>1, <4>2
    <3> QED
      BY <3>2
  <2> HIDE DEF T
  <2>4. value \in T
    BY <2>2, <2>3, Induct
  <2>5. Read(h[value], value)
    BY <2>4 DEF T
  <2>6. itoa16(value) = h[value]
    BY <1>2, HexIsTemp DEF h
  <2> QED
    BY <1>2, <2>5, <2>6
<1> QED
  BY <1>1, <1>2

-----------------------------------------------------------------------------
(* Base 10. The powers, with a tenfold of the first one before them.       *)
Top(i) == IF i = 0 THEN 10 * powers[1] ELSE powers[i]

LEMMA Tens ==
  /\ Len(powers) \in Nat \ {0} /\ IntMod <= Top(0) /\ Top(Len(powers)) = 1
  /\ \A i \in 1..Len(powers) :
        /\ powers[i] \in Nat \ {0} /\ Top(i) = powers[i] /\ Top(i - 1) = 10 * powers[i]
<1>1. Len(powers) \in Nat \ {0} /\ \A i \in 1..Len(powers) : powers[i] \in Nat \ {0}
  BY PowersAssumption
<1>2. ASSUME NEW i \in 1..Len(powers) PROVE Top(i) = powers[i] /\ Top(i - 1) = 10 * powers[i]
  <2>1. CASE i = 1
    BY <2>1 DEF Top
  <2>2. CASE i # 1
    <3>1. i \in 2..Len(powers) /\ i # 0 /\ i - 1 # 0
      BY <1>1, <2>2
    <3> QED
      BY <3>1, PowersAssumption DEF Top
  <2> QED
    BY <2>1, <2>2
<1> QED
  BY <1>1, <1>2, PowersAssumption DEF Top

LEMMA Divides ==
  ASSUME NEW i \in Nat, NEW m \in Nat \ {0}
  PROVE  /\ i % m \in 0..(m - 1) /\ i \div m \in Nat
         /\ i = (i \div m) * m + (i % m)
  OBVIOUS

LEMMA OneDigit ==
  ASSUME NEW i \in Nat, NEW m \in Nat \ {0}, i < 10 * m
  PROVE  i \div m \in 0..9
<1> DEFINE k == i \div m
           r == i % m
<1>1. k \in Nat /\ r \in 0..(m - 1) /\ i = k * m + r
  BY Divides
<1> HIDE DEF k, r
<1>2. ASSUME k >= 10 PROVE FALSE
  <2>1. PICK j \in Nat : k = 10 + j
    <3>1. k - 10 \in Nat /\ k = 10 + (k - 10)
      BY <1>1, <1>2
    <3> QED
      BY <3>1
  <2>2. k * m = 10 * m + j * m /\ j * m \in Nat
    BY <2>1
  <2> QED
    BY <1>1, <2>2
<1>3. k \in 0..9
  BY <1>1, <1>2
<1> QED
  BY <1>3 DEF k

LEMMA LeftsAre ==
  ASSUME NEW value \in Nat
  PROVE  /\ Left10(value) \in [0..Len(powers) -> Nat]
         /\ Left10(value)[0] = value
         /\ \A i \in 1..Len(powers) : Left10(value)[i] = Left10(value)[i - 1] % powers[i]
<1> DEFINE step == [it \in (1..Len(powers)) \X Nat |-> it[2] % powers[it[1]]]
<1>1. ASSUME NEW i \in 1..Len(powers), NEW k \in Nat
      PROVE  k % powers[i] \in Nat
  <2> DEFINE m == powers[i]
  <2>1. m \in Nat \ {0}
    BY Tens
  <2> HIDE DEF m
  <2>2. k % m \in 0..(m - 1)
    BY <2>1, Divides
  <2>3. k % m \in Nat
    BY <2>1, <2>2
  <2> QED
    BY <2>3 DEF m
<1>2. step \in [(1..Len(powers)) \X Nat -> Nat]
  <2>1. ASSUME NEW it \in (1..Len(powers)) \X Nat PROVE it[2] % powers[it[1]] \in Nat
    <3>1. it[1] \in 1..Len(powers) /\ it[2] \in Nat
      OBVIOUS
    <3> QED
      BY <1>1, <3>1
  <2> QED
    BY <2>1
<1>3. ASSUME NEW i \in 1..Len(powers), NEW k \in Nat PROVE step[<<i, k>>] = k % powers[i]
  <2>1. <<i, k>> \in (1..Len(powers)) \X Nat
    OBVIOUS
  <2>2. step[<<i, k>>] = <<i, k>>[2] % powers[<<i, k>>[1]]
    BY <2>1
  <2>3. <<i, k>>[1] = i /\ <<i, k>>[2] = k
    OBVIOUS
  <2> QED
    BY <2>2, <2>3
<1> HIDE DEF step
<1>4. PICK left \in [0..Len(powers) -> Nat] : Follows(left, Len(powers), value, step)
  BY <1>2, Tens, RecursionExists
<1>5. left = [i \in 0..Len(powers) |-> IF i = 0 THEN value ELSE left[i - 1] % powers[i]]
  <2>1. ASSUME NEW i \in 0..Len(powers), i # 0 PROVE left[i] = left[i - 1] % powers[i]
    <3>1. i \in 1..Len(powers) /\ i - 1 \in 0..Len(powers)
      BY <2>1, Tens
    <3>2. left[i - 1] \in Nat
      BY <3>1
    <3> QED
      BY <1>3, <1>4, <3>1, <3>2 DEF Follows
  <2>2. left[0] = value
    BY <1>4 DEF Follows
  <2>3. left = [i \in 0..Len(powers) |-> left[i]]
    OBVIOUS
  <2> QED
    BY <2>1, <2>2, <2>3
<1> DEFINE w == Left10(value)
<1>6. w = [i \in 0..Len(powers) |-> IF i = 0 THEN value ELSE w[i - 1] % powers[i]]
  BY <1>5 DEF Left10
<1> HIDE DEF w
<1>7. w[0] = value /\ \A i \in 1..Len(powers) : w[i] = w[i - 1] % powers[i]
  <2>1. /\ 0 \in 0..Len(powers)
        /\ \A i \in 1..Len(powers) : i \in 0..Len(powers) /\ i # 0
    BY Tens
  <2> QED
    BY <1>6, <2>1, Zenon
<1>8. \A i \in 0..Len(powers) : w[i] \in Nat
  <2>1. w[0] \in Nat /\ Len(powers) \in Nat
    BY <1>7, Tens
  <2>2. \A i \in 1..Len(powers) : w[i - 1] \in Nat => w[i] \in Nat
    BY <1>1, <1>7
  <2> QED
    BY <2>1, <2>2, LoopStays
<1>9. w \in [0..Len(powers) -> Nat]
  BY <1>6, <1>8
<1> QED
  BY <1>7, <1>9 DEF w

(* A power at a time: less than it is left, its digit is one.              *)
LEMMA Counts ==
  ASSUME NEW value \in Nat, value < IntMod
  PROVE  /\ \A i \in 0..Len(powers) : Left10(value)[i] \in Nat /\ Left10(value)[i] < Top(i)
         /\ \A i \in 1..Len(powers) :
               /\ Count(value, i) \in 0..9
               /\ Left10(value)[i - 1] = Count(value, i) * powers[i] + Left10(value)[i]
<1> DEFINE w == Left10(value)
<1>1. /\ w \in [0..Len(powers) -> Nat] /\ w[0] = value
      /\ \A i \in 1..Len(powers) : w[i] = w[i - 1] % powers[i]
  BY LeftsAre
<1>2. \A i \in 1..Len(powers) : Count(value, i) = w[i - 1] \div powers[i]
  BY DEF Count
<1> HIDE DEF w
<1>3. ASSUME NEW i \in 0..Len(powers) PROVE w[i] \in Nat /\ w[i] < Top(i)
  <2>1. CASE i = 0
    <3>1. Top(0) \in Nat
      BY Tens DEF Top
    <3> QED
      BY <1>1, <2>1, <3>1, Tens, IntModAssumption
  <2>2. CASE i # 0
    <3>1. i \in 1..Len(powers) /\ i - 1 \in 0..Len(powers)
      BY <2>2, Tens
    <3>2. w[i - 1] \in Nat /\ powers[i] \in Nat \ {0} /\ Top(i) = powers[i]
      BY <1>1, <3>1, Tens
    <3>3. w[i] = w[i - 1] % powers[i] /\ w[i] \in Nat
      BY <1>1, <3>1
    <3> DEFINE k == w[i - 1]
               m == powers[i]
    <3>4. k \in Nat /\ m \in Nat \ {0} /\ w[i] = k % m /\ Top(i) = m
      BY <3>2, <3>3
    <3> HIDE DEF k, m
    <3>5. k % m \in 0..(m - 1)
      BY <3>4, Divides
    <3> QED
      BY <3>3, <3>4, <3>5
  <2> QED
    BY <2>1, <2>2
<1>4. ASSUME NEW i \in 1..Len(powers)
      PROVE  Count(value, i) \in 0..9 /\ w[i - 1] = Count(value, i) * powers[i] + w[i]
  <2>1. i - 1 \in 0..Len(powers) /\ powers[i] \in Nat \ {0} /\ Top(i - 1) = 10 * powers[i]
    BY Tens
  <2>2. w[i - 1] \in Nat /\ w[i - 1] < 10 * powers[i]
    BY <1>3, <2>1
  <2> DEFINE k == w[i - 1]
             m == powers[i]
  <2>3. /\ k \in Nat /\ m \in Nat \ {0} /\ k < 10 * m
        /\ w[i] = k % m /\ Count(value, i) = k \div m
    BY <1>1, <1>2, <2>1, <2>2
  <2> HIDE DEF k, m
  <2>4. k \div m \in 0..9 /\ k = (k \div m) * m + (k % m)
    BY <2>3, Divides, OneDigit
  <2>5. Count(value, i) \in 0..9 /\ k = Count(value, i) * m + w[i]
    BY <2>3, <2>4
  <2> QED
    BY <2>5 DEF k, m
<1> QED
  BY <1>3, <1>4 DEF w

(* The digits written after each power.                                    *)
Strs(value) ==
    CHOOSE str : str = [i \in 0..Len(powers) |->
            IF i = 0 THEN <<>>
            ELSE IF Shown(Count(value, i), str[i - 1] # <<>>, i)
                 THEN Append(str[i - 1], Count(value, i))
                 ELSE str[i - 1]]

LEMMA DecimalIsStr ==
  ASSUME NEW value
  PROVE  itoa10(value) = Strs(value)[Len(powers)]
  BY DEF itoa10, Strs

(* What a power makes of the digits before.                                *)
WithDigit(value, i, s) ==
    IF Shown(Count(value, i), s # <<>>, i) THEN Append(s, Count(value, i)) ELSE s

LEMMA WithDigitReads ==
  ASSUME NEW value \in Nat, value < IntMod, NEW i \in 1..Len(powers), NEW s \in Seq(0..9)
  PROVE  /\ WithDigit(value, i, s) \in Seq(0..9)
         /\ Value(WithDigit(value, i, s), 10) = Value(s, 10) * 10 + Count(value, i)
         /\ \/ WithDigit(value, i, s) = <<>>
            \/ WithDigit(value, i, s)[1] # 0
            \/ s # <<>> /\ s[1] = 0
            \/ i = Len(powers) /\ Len(WithDigit(value, i, s)) = 1
<1> DEFINE c == Count(value, i)
<1>1. c \in 0..9 /\ c \in Int /\ s \in Seq(Int)
  BY Counts
<1>2. Value(<<>>, 10) = 0 /\ Value(Append(s, c), 10) = Value(s, 10) * 10 + c
  <2>1. 10 \in Int
    OBVIOUS
  <2> HIDE DEF c
  <2> QED
    BY <1>1, <2>1, ValueOf
<1>3. Shown(c, s # <<>>, i) <=> c > 0 \/ s # <<>> \/ i = Len(powers)
  BY DEF Shown
<1> HIDE DEF c
<1>4. CASE c > 0 \/ s # <<>> \/ i = Len(powers)
  <2>1. WithDigit(value, i, s) = Append(s, c)
    BY <1>3, <1>4 DEF WithDigit, c
  <2>2. Append(s, c) \in Seq(0..9)
    BY <1>1
  <2>3. \/ Append(s, c)[1] # 0
        \/ s # <<>> /\ s[1] = 0
        \/ i = Len(powers) /\ Len(Append(s, c)) = 1
    <3>1. CASE s = <<>>
      <4>1. Append(s, c)[1] = c /\ Len(Append(s, c)) = 1
        BY <3>1
      <4> QED
        BY <1>1, <1>4, <3>1, <4>1
    <3>2. CASE s # <<>>
      <4>1. Append(s, c)[1] = s[1]
        BY <3>2
      <4> QED
        BY <3>2, <4>1
    <3> QED
      BY <3>1, <3>2
  <2> QED
    BY <1>2, <2>1, <2>2, <2>3 DEF c
<1>5. CASE ~(c > 0 \/ s # <<>> \/ i = Len(powers))
  <2>1. WithDigit(value, i, s) = s /\ s = <<>> /\ c = 0
    BY <1>1, <1>3, <1>5 DEF WithDigit, c
  <2>2. Value(s, 10) = Value(s, 10) * 10 + c
    BY <1>2, <2>1
  <2> QED
    BY <2>1, <2>2 DEF c
<1> QED
  BY <1>4, <1>5

LEMMA StrsAre ==
  ASSUME NEW value \in Nat, value < IntMod
  PROVE  /\ Strs(value)[0] = <<>>
         /\ \A i \in 1..Len(powers) : Strs(value)[i] = WithDigit(value, i, Strs(value)[i - 1])
<1> DEFINE S == Seq(0..9)
           step == [it \in (1..Len(powers)) \X S |-> WithDigit(value, it[1], it[2])]
<1>1. step \in [(1..Len(powers)) \X S -> S]
  <2>1. ASSUME NEW it \in (1..Len(powers)) \X S PROVE WithDigit(value, it[1], it[2]) \in S
    <3>1. it[1] \in 1..Len(powers) /\ it[2] \in S
      OBVIOUS
    <3> QED
      BY <3>1, WithDigitReads
  <2> QED
    BY <2>1
<1>2. ASSUME NEW i \in 1..Len(powers), NEW s \in S PROVE step[<<i, s>>] = WithDigit(value, i, s)
  <2>1. <<i, s>> \in (1..Len(powers)) \X S
    OBVIOUS
  <2>2. step[<<i, s>>] = WithDigit(value, <<i, s>>[1], <<i, s>>[2])
    BY <2>1
  <2>3. <<i, s>>[1] = i /\ <<i, s>>[2] = s
    OBVIOUS
  <2> QED
    BY <2>2, <2>3
<1>3. <<>> \in S
  OBVIOUS
<1> HIDE DEF S, step
<1>4. PICK str \in [0..Len(powers) -> S] : Follows(str, Len(powers), <<>>, step)
  BY <1>1, <1>3, Tens, RecursionExists
<1>5. str = [i \in 0..Len(powers) |-> IF i = 0 THEN <<>> ELSE WithDigit(value, i, str[i - 1])]
  <2>1. ASSUME NEW i \in 0..Len(powers), i # 0 PROVE str[i] = WithDigit(value, i, str[i - 1])
    <3>1. i \in 1..Len(powers) /\ i - 1 \in 0..Len(powers)
      BY <2>1, Tens
    <3>2. str[i - 1] \in S
      BY <3>1
    <3> QED
      BY <1>2, <1>4, <3>1, <3>2 DEF Follows
  <2>2. str[0] = <<>>
    BY <1>4 DEF Follows
  <2>3. str = [i \in 0..Len(powers) |-> str[i]]
    OBVIOUS
  <2> QED
    BY <2>1, <2>2, <2>3
<1> DEFINE w == Strs(value)
<1>6. w = [i \in 0..Len(powers) |-> IF i = 0 THEN <<>> ELSE WithDigit(value, i, w[i - 1])]
  BY <1>5 DEF Strs, WithDigit
<1> HIDE DEF w
<1>7. /\ 0 \in 0..Len(powers)
      /\ \A i \in 1..Len(powers) : i \in 0..Len(powers) /\ i # 0
  BY Tens
<1>8. w[0] = <<>> /\ \A i \in 1..Len(powers) : w[i] = WithDigit(value, i, w[i - 1])
  BY <1>6, <1>7, Zenon
<1> QED
  BY <1>8 DEF w

(* itoa() in base 10 gives back its argument, with no zero in front.       *)
LEMMA DecimalReads ==
  ASSUME NEW value \in Nat, value < IntMod
  PROVE  /\ itoa10(value) \in Seq(0..9)
         /\ Value(itoa10(value), 10) = value
         /\ Len(itoa10(value)) > 1 => itoa10(value)[1] # 0
<1> DEFINE last == Len(powers)
           w == Strs(value)
           left == Left10(value)
           Read(s, i) == /\ s \in Seq(0..9)
                         /\ Value(s, 10) * Top(i) + left[i] = value
                         /\ s = <<>> \/ s[1] # 0 \/ (i = last /\ Len(s) = 1)
           T == {k \in Nat : k <= last => Read(w[k], k)}
<1>1. /\ w[0] = <<>>
      /\ \A i \in 1..last : w[i] = WithDigit(value, i, w[i - 1])
  BY StrsAre
<1>2. /\ left[0] = value
      /\ \A i \in 0..last : left[i] \in Nat /\ left[i] < Top(i)
      /\ \A i \in 1..last : /\ Count(value, i) \in 0..9
                            /\ left[i - 1] = Count(value, i) * powers[i] + left[i]
  BY LeftsAre, Counts
<1>3. last \in Nat \ {0} /\ Top(last) = 1
  BY Tens
<1> HIDE DEF last, w, left
<1>4. 0 \in T
  <2>1. 10 \in Int /\ <<>> \in Seq(0..9)
    OBVIOUS
  <2>2. Value(<<>>, 10) = 0
    BY <2>1, ValueOf
  <2>3. Top(0) \in Int
    BY Tens DEF Top
  <2>4. Value(<<>>, 10) * Top(0) + left[0] = value
    BY <1>2, <2>2, <2>3
  <2> QED
    BY <1>1, <2>1, <2>4
<1>5. ASSUME NEW k \in Nat, k \in T PROVE k + 1 \in T
  <2> SUFFICES ASSUME k + 1 <= last PROVE Read(w[k + 1], k + 1)
    OBVIOUS
  <2> DEFINE i == k + 1
             s == w[k]
             c == Count(value, i)
             m == powers[i]
             v == Value(s, 10)
  <2>1. i \in 1..last /\ i - 1 = k /\ k # last /\ i - 1 \in 0..last /\ i \in 0..last
    BY <1>3
  <2>2. Read(s, k)
    <3>1. k <= last
      BY <1>3
    <3> HIDE DEF Read
    <3> QED
      BY <1>5, <3>1
  <2>3. w[i] = WithDigit(value, i, s)
    BY <1>1, <2>1
  <2>4. /\ c \in 0..9 /\ left[k] = c * m + left[i] /\ left[i] \in Nat
    BY <1>2, <2>1
  <2>5. m \in Nat \ {0} /\ Top(i) = m /\ Top(k) = 10 * m
    BY <2>1, Tens DEF last
  <2> HIDE DEF i, s
  <2>6. s \in Seq(0..9) /\ s \in Seq(Int)
    BY <2>2
  <2>7. v \in Int
    <3>1. 10 \in Int
      OBVIOUS
    <3> QED
      BY <2>6, <3>1, ValueOf
  <2>8. v * Top(k) + left[k] = value
    BY <2>2
  <2>9. /\ w[i] \in Seq(0..9)
        /\ Value(w[i], 10) = v * 10 + c
        /\ \/ w[i] = <<>> \/ w[i][1] # 0
           \/ s # <<>> /\ s[1] = 0
           \/ i = last /\ Len(w[i]) = 1
    BY <2>1, <2>3, <2>6, WithDigitReads DEF last
  <2> HIDE DEF c, m, v
  <2>10. (v * 10 + c) * m + left[i] = value
    <3>1. v * (10 * m) + (c * m + left[i]) = value
      BY <2>4, <2>5, <2>8
    <3>2. (v * 10 + c) * m = v * (10 * m) + c * m
      BY <2>4, <2>5, <2>7
    <3>3. v * (10 * m) \in Int /\ c * m \in Int /\ (v * 10 + c) * m \in Int
      BY <2>4, <2>5, <2>7
    <3> QED
      BY <2>4, <3>1, <3>2, <3>3
  <2>11. ~(s # <<>> /\ s[1] = 0)
    <3>1. CASE s = <<>>
      BY <3>1
    <3>2. CASE s # <<>>
      BY <2>1, <2>2, <3>2
    <3> QED
      BY <3>1, <3>2
  <2>12. Read(w[i], i)
    BY <2>5, <2>9, <2>10, <2>11
  <2> QED
    BY <2>12 DEF i
<1> HIDE DEF T, Read
<1>6. last \in T
  BY <1>3, <1>4, <1>5, Induct
<1>7. Read(w[last], last)
  BY <1>3, <1>6 DEF T
<1>8. itoa10(value) = w[last]
  BY DecimalIsStr DEF w, last
<1> DEFINE s == w[last]
<1> HIDE DEF s
<1>9. s \in Seq(0..9) /\ Value(s, 10) * Top(last) + left[last] = value
      /\ (s = <<>> \/ s[1] # 0 \/ Len(s) = 1)
  BY <1>7 DEF Read, s
<1>10. left[last] = 0
  BY <1>2, <1>3
<1>11. Value(s, 10) = value
  <2>1. 10 \in Int /\ s \in Seq(Int)
    BY <1>9
  <2>2. Value(s, 10) \in Int
    BY <2>1, ValueOf
  <2> QED
    BY <1>3, <1>9, <1>10, <2>2
<1>12. Len(s) > 1 => s[1] # 0
  <2>1. s = <<>> \/ Len(s) = 1 => ~(Len(s) > 1)
    <3>1. Len(<<>>) = 0 /\ ~(0 > 1) /\ ~(1 > 1)
      OBVIOUS
    <3> QED
      BY <3>1, Zenon
  <2>2. s = <<>> \/ s[1] # 0 \/ Len(s) = 1
    BY <1>9
  <2> QED
    BY <2>1, <2>2, Zenon
<1> QED
  BY <1>8, <1>9, <1>11, <1>12 DEF s

(* The sign: an int and the unsigned int printf() makes of it.             *)
LEMMA Signs ==
  ASSUME NEW v \in Ints
  PROVE  /\ v >= 0 => Unsigned(v) = v /\ v < IntMod
         /\ v < 0 => Unsigned(Signed(-v)) = -v /\ -v < IntMod
         /\ Unsigned(v) \in 0..(IntMod - 1)
<1> DEFINE half == IntMod \div 2
<1>1. IntMod \in Nat \ {0} /\ half \in Nat /\ IntMod = 2 * half
  BY IntModAssumption
<1>2. v \in -half..(half - 1)
  BY DEF Ints
<1> HIDE DEF half
<1>3. ASSUME NEW i \in 0..(IntMod - 1) PROVE i % IntMod = i /\ (i - IntMod) % IntMod = i
  BY <1>1, <1>3
<1>4. Unsigned(v) \in 0..(IntMod - 1)
  BY <1>1, <1>2 DEF Unsigned
<1>5. ASSUME v >= 0 PROVE Unsigned(v) = v /\ v < IntMod
  <2>1. v \in 0..(IntMod - 1)
    BY <1>1, <1>2, <1>5
  <2> QED
    BY <1>1, <1>3, <2>1 DEF Unsigned
<1>6. ASSUME v < 0 PROVE Unsigned(Signed(-v)) = -v /\ -v < IntMod
  <2> DEFINE i == -v
  <2>1. i \in 0..(IntMod - 1) /\ i <= half
    BY <1>1, <1>2, <1>6
  <2> HIDE DEF i
  <2>2. i % IntMod = i /\ (i - IntMod) % IntMod = i
    BY <1>3, <2>1
  <2>3. Signed(i) = i \/ Signed(i) = i - IntMod
    BY <2>2 DEF Signed
  <2>4. Unsigned(Signed(i)) = i /\ i < IntMod
    BY <1>1, <2>1, <2>2, <2>3 DEF Unsigned
  <2> QED
    BY <2>4 DEF i
<1> QED
  BY <1>4, <1>5, <1>6

(* What is printed for an int reads back as that int.                      *)
ReadsBack(decimal, v, printed) ==
    LET base == IF decimal THEN 10 ELSE 16
        digits == IF decimal /\ v < 0 THEN Tail(printed) ELSE printed
    IN  /\ decimal /\ v < 0 => printed[1] = "-"
        /\ digits \in Seq(0..(base - 1))
        /\ Len(digits) > 1 => digits[1] # 0
        /\ Value(digits, base) = IF ~decimal THEN Unsigned(v) ELSE IF v < 0 THEN -v ELSE v

Row == {"-"} \cup (0..15)   \* the characters of a number

LEMMA DigitsAreRow == ASSUME NEW s \in Seq(0..9) \cup Seq(0..15) PROVE s \in Seq(Row)
<1>1. 0..9 \subseteq Row /\ 0..15 \subseteq Row
  BY DEF Row
<1> QED
  BY <1>1, SeqMonotonic

LEMMA HexReadsBack ==
  ASSUME NEW v \in Ints
  PROVE  /\ ReadsBack(FALSE, v, itoa16(Unsigned(v)))
         /\ itoa16(Unsigned(v)) \in Seq(Row)
<1> DEFINE i == Unsigned(v)
<1>1. i \in Nat
  BY Signs, IntModAssumption
<1>2. 16 - 1 = 15
  OBVIOUS
<1> HIDE DEF i
<1>3. /\ itoa16(i) \in Seq(0..(16 - 1))
      /\ Value(itoa16(i), 16) = i
      /\ Len(itoa16(i)) > 1 => itoa16(i)[1] # 0
  BY <1>1, <1>2, HexReads
<1>4. itoa16(i) \in Seq(Row)
  BY <1>1, HexReads, DigitsAreRow
<1> QED
  BY <1>3, <1>4, Zenon DEF ReadsBack, i

LEMMA DecimalReadsBack ==
  ASSUME NEW v \in Ints
  PROVE  ReadsBack(TRUE, v, Decimal(v)) /\ Decimal(v) \in Seq(Row)
<1>1. v \in Int /\ 10 - 1 = 9
  BY IntModAssumption DEF Ints
<1>2. CASE v >= 0
  <2>1. v \in Nat /\ v < IntMod /\ ~(v < 0)
    BY <1>1, <1>2, Signs
  <2>2. Decimal(v) = itoa10(v)
    BY <1>2, <2>1, Signs DEF Decimal
  <2>3. /\ itoa10(v) \in Seq(0..(10 - 1))
        /\ Value(itoa10(v), 10) = v
        /\ Len(itoa10(v)) > 1 => itoa10(v)[1] # 0
    BY <1>1, <2>1, DecimalReads
  <2>4. itoa10(v) \in Seq(Row)
    BY <2>1, DecimalReads, DigitsAreRow
  <2> QED
    BY <2>1, <2>2, <2>3, <2>4, Zenon DEF ReadsBack
<1>3. CASE v < 0
  <2> DEFINE i == -v
             s == itoa10(i)
             printed == <<"-">> \o s
  <2>1. i \in Nat /\ i < IntMod
    BY <1>1, <1>3, Signs
  <2>2. Decimal(v) = printed
    BY <1>3, Signs DEF Decimal
  <2> HIDE DEF i
  <2>3. /\ s \in Seq(0..(10 - 1)) /\ s \in Seq(0..9)
        /\ Value(s, 10) = i
        /\ Len(s) > 1 => s[1] # 0
    BY <1>1, <2>1, DecimalReads
  <2> HIDE DEF s
  <2> DEFINE sign == <<"-">>
  <2>4. s \in Seq(Row) /\ sign \in Seq(Row) /\ Len(sign) = 1 /\ sign[1] = "-"
    BY <2>3, DigitsAreRow DEF Row
  <2>5. printed = sign \o s
    OBVIOUS
  <2> HIDE DEF sign, printed
  <2>6. Len(s) \in Nat
    BY <2>4
  <2>7. /\ printed \in Seq(Row) /\ Len(printed) = Len(sign) + Len(s)
        /\ \A j \in 1..(Len(sign) + Len(s)) :
              printed[j] = IF j <= Len(sign) THEN sign[j] ELSE s[j - Len(sign)]
    BY <2>4, <2>5, ConcatProperties
  <2>8. printed[1] = "-"
    <3>1. 1 \in 1..(1 + Len(s)) /\ 1 <= 1
      BY <2>6
    <3> QED
      BY <2>4, <2>7, <3>1
  <2>9. ASSUME NEW j \in 1..Len(s) PROVE printed[j + 1] = s[j]
    <3>1. j + 1 \in 1..(1 + Len(s)) /\ ~(j + 1 <= 1) /\ (j + 1) - 1 = j
      BY <2>6
    <3> QED
      BY <2>4, <2>7, <3>1
  <2> DEFINE t == Tail(printed)
  <2>10. /\ t \in Seq(Row) /\ Len(t) = Len(s)
         /\ \A j \in 1..Len(t) : t[j] = s[j]
    BY <2>4, <2>6, <2>7, <2>9
  <2> HIDE DEF t
  <2>11. t = s
    BY <2>4, <2>10, SeqEqual
  <2> QED
    BY <1>3, <2>2, <2>3, <2>7, <2>8, <2>11, Zenon DEF ReadsBack, i, t
<1>4. v >= 0 \/ v < 0
  BY <1>1
<1> QED
  BY <1>2, <1>3, <1>4, Zenon

(* While a format of one conversion is printed, it is untouched or done.   *)
Printed ==
    printing /\ asked[1] \in OneNumber =>
        \E v \in Ints :
            /\ asked[2] = <<v>>
            /\ \/ fmt = asked[1] /\ args = <<v>> /\ out = <<>>
               \/ fmt = <<>> /\ out = Converted(asked[1][2], v)

LEMMA PrintBegins ==
  ASSUME NEW c \in Prints, k_vprintf_internal(c[1], c[2])
  PROVE  Printed'
<1> SUFFICES ASSUME c[1] \in OneNumber
             PROVE  \E v \in Ints :
                       /\ c[2] = <<v>> /\ fmt' = c[1] /\ args' = <<v>> /\ out' = <<>>
  BY DEF k_vprintf_internal, Printed
<1>1. PICK v \in Ints : c[2] = <<v>>
  BY PrintsAssumption
<1>2. c[1] # INVALID
  BY DEF OneNumber, INVALID
<1> QED
  BY <1>1, <1>2 DEF k_vprintf_internal

LEMMA PrintGoesOn == ASSUME Printed, PrintTurn PROVE Printed'
<1> SUFFICES ASSUME printing', asked'[1] \in OneNumber
             PROVE  \E v \in Ints :
                       /\ asked'[2] = <<v>>
                       /\ \/ fmt' = asked'[1] /\ args' = <<v>> /\ out' = <<>>
                          \/ fmt' = <<>> /\ out' = Converted(asked'[1][2], v)
  BY DEF Printed
<1>1. asked' = asked /\ printing /\ fmt # <<>>
  <2>1. ~print_end
    BY DEF print_end
  <2>2. Len(<<>>) = 0 /\ ~(0 >= 2)
    OBVIOUS
  <2> QED
    BY <2>1, <2>2, Zenon DEF PrintTurn, print_char, print_argument, print_unknown
<1>2. PICK v \in Ints : asked[2] = <<v>> /\ fmt = asked[1] /\ args = <<v>> /\ out = <<>>
  BY <1>1 DEF Printed
<1>3. fmt = <<"%", "d">> \/ fmt = <<"%", "x">>
  BY <1>1, <1>2 DEF OneNumber
<1>4. Head(fmt) = "%" /\ fmt[2] \in {"d", "x"} /\ Tail(Tail(fmt)) = <<>> /\ Head(args) = v
  <2>1. Head(args) = v
    BY <1>2
  <2>2. CASE fmt = <<"%", "d">>
    <3>1. Head(fmt) = "%" /\ fmt[2] = "d" /\ Tail(Tail(fmt)) = <<>>
      BY <2>2
    <3> QED
      BY <2>1, <3>1
  <2>3. CASE fmt = <<"%", "x">>
    <3>1. Head(fmt) = "%" /\ fmt[2] = "x" /\ Tail(Tail(fmt)) = <<>>
      BY <2>3
    <3> QED
      BY <2>1, <3>1
  <2> QED
    BY <1>3, <2>2, <2>3
<1>5. print_argument
  BY <1>1, <1>4 DEF PrintTurn, print_char, print_unknown, print_end, Conversions
<1> DEFINE s == Converted(fmt[2], v)
<1>6. s \in Seq(Row)
  <2>1. s = Decimal(v) \/ s = itoa16(Unsigned(v))
    BY <1>4 DEF Converted
  <2> QED
    BY <2>1, HexReadsBack, DecimalReadsBack
<1>7. fmt' = <<>> /\ out' = <<>> \o s
  BY <1>2, <1>4, <1>5 DEF print_argument, Puts
<1> HIDE DEF s
<1>8. out' = s
  BY <1>6, <1>7, ConcatEmptySeq
<1> QED
  BY <1>1, <1>2, <1>7, <1>8 DEF s

(* What printf() prints for %d and %x reads back as its argument, without  *)
(* leading zeros, for every width of an int and every argument.            *)
THEOREM NumbersReadBack == Spec => []PrintsNumber
<1>1. Init => Printed
  BY DEF Init, PrintIdle, Printed
<1>2. ASSUME Printed, [Next]_rvars PROVE Printed'
  <2>1. ASSUME UNCHANGED pvars PROVE Printed'
    BY <1>2, <2>1 DEF Printed, pvars
  <2> QED
    BY <1>2, <2>1, Disjoint, PrintBegins, PrintGoesOn
<1>3. ASSUME Printed PROVE PrintsNumber
  <2> SUFFICES ASSUME printing, fmt = <<>>, asked[1] \in OneNumber
               PROVE  ReadsBack(asked[1] = <<"%", "d">>, asked[2][1], out)
    BY Zenon DEF PrintsNumber, ReadsBack
  <2>1. asked[1] = <<"%", "d">> \/ asked[1] = <<"%", "x">>
    BY DEF OneNumber
  <2>2. PICK v \in Ints : asked[2] = <<v>> /\ out = Converted(asked[1][2], v)
    BY <1>3, <2>1 DEF Printed
  <2>3. asked[2][1] = v
    BY <2>2
  <2>4. CASE asked[1] = <<"%", "d">>
    <3>1. out = Decimal(v)
      BY <2>2, <2>4 DEF Converted
    <3> QED
      BY <2>3, <2>4, <3>1, DecimalReadsBack
  <2>5. CASE asked[1] = <<"%", "x">>
    <3>1. out = itoa16(Unsigned(v)) /\ (asked[1] = <<"%", "d">>) = FALSE
      BY <2>2, <2>5 DEF Converted
    <3> QED
      BY <2>3, <3>1, HexReadsBack
  <2> QED
    BY <2>1, <2>4, <2>5
<1> QED
  BY <1>1, <1>2, <1>3, PTL DEF Spec

-----------------------------------------------------------------------------
(* Text. The tables of a file, in any order, are kept as the file has them *)
(* until the text is drawn.                                                *)
LEMMA AlwaysFont == Spec => []FontInv
<1>1. Init => FontInv
  BY FontInit DEF Init
<1>2. FontInv /\ [Next]_rvars => FontInv'
  BY Disjoint, FontKept
<1> QED
  BY <1>1, <1>2, PTL DEF Spec

(* get_font() has the face of the file, whichever file of the format it is.*)
THEOREM FacesAreLoaded == Spec => []LoadsFace
  BY AlwaysFont, FaceLoaded, PTL

(* draw_char() draws a character strictly inside a segment as its glyph,   *)
(* one at an end as that or the missing one, unless a segment with a range *)
(* offset has it, and in the box of the glyph drawn if it has one.         *)
THEOREM GlyphsAreDrawn == Spec => []DrawsItsGlyph
<1>1. FontInv => DrawsItsGlyph
  BY DEF FontInv, DrawnSo
<1> QED
  BY <1>1, AlwaysFont, PTL
=============================================================================
