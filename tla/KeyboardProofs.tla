--------------------------- MODULE KeyboardProofs ---------------------------
(***************************************************************************)
(* Proofs about module Keyboard, for every set of keys, size of the ring   *)
(* and number of events the keyboard can hold back.                        *)
(***************************************************************************)
EXTENDS Keyboard, SequenceTheorems, TLAPS

Events == {"down", "up"} \X Keys

-----------------------------------------------------------------------------
(* Remainders of the sums and differences that occur.                      *)
LEMMA ModSmall ==
  ASSUME NEW m \in Nat \ {0}, NEW x \in 0..(m - 1)
  PROVE  x % m = x
  OBVIOUS

LEMMA ModOnce ==
  ASSUME NEW m \in Nat \ {0}, NEW x \in m..(2 * m - 1)
  PROVE  x % m = x - m
  OBVIOUS

LEMMA ModBelow ==
  ASSUME NEW m \in Nat \ {0}, NEW x \in (1 - m)..(-1)
  PROVE  x % m = x + m
  OBVIOUS

LEMMA NextSlot ==
  ASSUME NEW h \in Slots
  PROVE  /\ next(h) = IF h + 1 = FIFO_SIZE THEN 0 ELSE h + 1
         /\ next(h) \in Slots
  BY FifoAssumption, ModSmall, ModOnce DEF next, Slots

(* The bytes of an event: the code comes last, F0 just before it.          *)
LEMMA BytesOf ==
  ASSUME NEW e \in Events
  PROVE  /\ Bytes(e) \in Seq({E0, F0} \cup Keys)
         /\ Len(Bytes(e)) \in 1..3
         /\ \A i \in 1..Len(Bytes(e)) :
              /\ Bytes(e)[i] \in {E0, F0} <=> i < Len(Bytes(e))
              /\ Bytes(e)[i] = F0 <=> i = Len(Bytes(e)) - 1 /\ e[1] = "up"
              /\ i = Len(Bytes(e)) => Bytes(e)[i] = e[2]
  <1>1. e[1] \in {"down", "up"} /\ e[2] \in Keys
    BY DEF Events
  <1>2. E0 # F0 /\ E0 \notin Keys /\ F0 \notin Keys
    BY CodesAssumption DEF E0, F0
  <1>3. CASE e[2] \in Extended /\ e[1] = "up"
    <2>1. Bytes(e) = <<E0, F0, e[2]>>
      BY <1>3 DEF Bytes
    <2>. QED  BY <1>1, <1>2, <1>3, <2>1
  <1>4. CASE e[2] \in Extended /\ e[1] # "up"
    <2>1. Bytes(e) = <<E0, e[2]>>
      BY <1>4 DEF Bytes
    <2>. QED  BY <1>1, <1>2, <1>4, <2>1
  <1>5. CASE e[2] \notin Extended /\ e[1] = "up"
    <2>1. Bytes(e) = <<F0, e[2]>>
      BY <1>5 DEF Bytes
    <2>. QED  BY <1>1, <1>2, <1>5, <2>1
  <1>6. CASE e[2] \notin Extended /\ e[1] # "up"
    <2>1. Bytes(e) = <<e[2]>>
      BY <1>6 DEF Bytes
    <2>. QED  BY <1>1, <1>2, <1>6, <2>1
  <1>. QED  BY <1>3, <1>4, <1>5, <1>6

-----------------------------------------------------------------------------
(* The ring as a sequence: what putting and getting make of it.            *)
LEMMA UnreadIs ==
  ASSUME NEW h \in Slots, NEW t \in Slots
  PROVE  /\ Unread(h, t) = IF h >= t THEN h - t ELSE h - t + FIFO_SIZE
         /\ Unread(h, t) \in 0..(FIFO_SIZE - 1)
  <1>1. CASE h >= t
    BY <1>1, FifoAssumption, ModSmall DEF Unread, Slots
  <1>2. CASE h < t
    <2>1. h - t \in (1 - FIFO_SIZE)..(-1)
      BY <1>2, FifoAssumption DEF Slots
    <2>. QED  BY <1>2, <2>1, FifoAssumption, ModBelow DEF Unread, Slots
  <1>. QED  BY <1>1, <1>2, FifoAssumption DEF Slots

LEMMA SlotOf ==
  ASSUME NEW t \in Slots, NEW i \in 1..FIFO_SIZE
  PROVE  /\ (t + i - 1) % FIFO_SIZE
              = IF t + i - 1 >= FIFO_SIZE THEN t + i - 1 - FIFO_SIZE ELSE t + i - 1
         /\ (t + i - 1) % FIFO_SIZE \in Slots
  <1>1. CASE t + i - 1 >= FIFO_SIZE
    <2>1. t + i - 1 \in FIFO_SIZE..(2 * FIFO_SIZE - 1)
      BY <1>1, FifoAssumption DEF Slots
    <2>. QED  BY <1>1, <2>1, FifoAssumption, ModOnce DEF Slots
  <1>2. CASE t + i - 1 < FIFO_SIZE
    <2>1. t + i - 1 \in 0..(FIFO_SIZE - 1)
      BY <1>2, FifoAssumption DEF Slots
    <2>. QED  BY <1>2, <2>1, FifoAssumption, ModSmall DEF Slots
  <1>. QED  BY <1>1, <1>2, FifoAssumption DEF Slots

LEMMA TextTyped ==
  ASSUME NEW h \in Slots, NEW t \in Slots, NEW b \in [Slots -> Chars]
  PROVE  /\ Text(b, h, t) \in Seq(Chars)
         /\ Len(Text(b, h, t)) = Unread(h, t)
         /\ \A i \in 1..Unread(h, t) :
              Text(b, h, t)[i] = b[(t + i - 1) % FIFO_SIZE]
  <1>1. Unread(h, t) \in Nat /\ Unread(h, t) < FIFO_SIZE
    BY UnreadIs, FifoAssumption
  <1>2. \A i \in 1..Unread(h, t) : b[(t + i - 1) % FIFO_SIZE] \in Chars
    BY <1>1, SlotOf, FifoAssumption
  <1>3. Text(b, h, t) \in [1..Unread(h, t) -> Chars]
    BY <1>2 DEF Text
  <1>. QED  BY <1>1, <1>3 DEF Text

LEMMA FullIs ==
  ASSUME NEW h \in Slots, NEW t \in Slots
  PROVE  next(h) = t <=> Unread(h, t) = FIFO_SIZE - 1
  <1>1. Unread(h, t) = IF h >= t THEN h - t ELSE h - t + FIFO_SIZE
    BY UnreadIs
  <1>2. next(h) = IF h + 1 = FIFO_SIZE THEN 0 ELSE h + 1
    BY NextSlot
  <1>. QED  BY <1>1, <1>2, FifoAssumption DEF Slots

LEMMA PutAppends ==
  ASSUME NEW h \in Slots, NEW t \in Slots, NEW b \in [Slots -> Chars],
         NEW c \in Chars, next(h) # t,
         NEW b2 \in [Slots -> Chars],
         \A i \in Slots : b2[i] = IF i = h THEN c ELSE b[i]
  PROVE  Text(b2, next(h), t) = Append(Text(b, h, t), c)
  <1> DEFINE n == Unread(h, t)
             old == Text(b, h, t)
             new == Text(b2, next(h), t)
  <1>1. n \in 0..(FIFO_SIZE - 2)
    BY UnreadIs, FullIs, FifoAssumption
  <1>2. Unread(next(h), t) = n + 1
    <2>1. Unread(h, t) = IF h >= t THEN h - t ELSE h - t + FIFO_SIZE
      BY UnreadIs
    <2>2. next(h) = (IF h + 1 = FIFO_SIZE THEN 0 ELSE h + 1) /\ next(h) \in Slots
      BY NextSlot
    <2>3. Unread(next(h), t) = IF next(h) >= t THEN next(h) - t
                                               ELSE next(h) - t + FIFO_SIZE
      BY <2>2, UnreadIs
    <2>. QED  BY <1>1, <2>1, <2>2, <2>3, FifoAssumption DEF Slots
  <1>3. next(h) \in Slots
    BY NextSlot
  <1>a. /\ new \in Seq(Chars)
        /\ Len(new) = Unread(next(h), t)
        /\ \A i \in 1..Unread(next(h), t) : new[i] = b2[(t + i - 1) % FIFO_SIZE]
    BY <1>3, TextTyped
  <1>4. new \in Seq(Chars) /\ Len(new) = n + 1
    BY <1>2, <1>a
  <1>5. old \in Seq(Chars) /\ Len(old) = n
    BY TextTyped
  <1>6. ASSUME NEW i \in 1..(n + 1)
        PROVE  new[i] = Append(old, c)[i]
    <2>1. new[i] = b2[(t + i - 1) % FIFO_SIZE]
      <3>1. i \in 1..Unread(next(h), t)
        BY <1>2
      <3>. QED  BY <3>1, <1>a
    <2>a. i \in 1..FIFO_SIZE
      BY <1>1, FifoAssumption
    <2>b. /\ (t + i - 1) % FIFO_SIZE
                = IF t + i - 1 >= FIFO_SIZE THEN t + i - 1 - FIFO_SIZE ELSE t + i - 1
          /\ (t + i - 1) % FIFO_SIZE \in Slots
      BY <2>a, SlotOf
    <2>c. n = IF h >= t THEN h - t ELSE h - t + FIFO_SIZE
      BY UnreadIs
    <2>2. CASE i = n + 1
      <3>1. (t + i - 1) % FIFO_SIZE = h
        BY <2>2, <2>b, <2>c, FifoAssumption DEF Slots
      <3>. QED  BY <2>1, <2>2, <3>1, <1>5
    <2>3. CASE i \in 1..n
      <3>1. (t + i - 1) % FIFO_SIZE # h /\ (t + i - 1) % FIFO_SIZE \in Slots
        BY <2>3, <2>b, <2>c, FifoAssumption DEF Slots
      <3>2. old[i] = b[(t + i - 1) % FIFO_SIZE]
        BY <2>3, TextTyped
      <3>3. b2[(t + i - 1) % FIFO_SIZE] = b[(t + i - 1) % FIFO_SIZE]
        BY <3>1
      <3>4. Append(old, c)[i] = old[i]
        BY <2>3, <1>5
      <3>. QED  BY <2>1, <3>2, <3>3, <3>4
    <2>4. i = n + 1 \/ i \in 1..n
      <3>. HIDE DEF n
      <3>. QED  BY <1>1, FifoAssumption
    <2>. HIDE DEF old, new
    <2>. QED  BY <2>2, <2>3, <2>4
  <1>7. Append(old, c) \in Seq(Chars) /\ Len(Append(old, c)) = n + 1
    BY <1>5
  <1>. HIDE DEF n, old, new
  <1>8. new = Append(old, c)
    BY <1>4, <1>6, <1>7, SeqEqual
  <1>. QED  BY <1>8 DEF old, new

LEMMA GetTakesHead ==
  ASSUME NEW h \in Slots, NEW t \in Slots, NEW b \in [Slots -> Chars], h # t
  PROVE  /\ Text(b, h, t) # <<>>
         /\ Head(Text(b, h, t)) = b[t]
         /\ Text(b, h, next(t)) = Tail(Text(b, h, t))
  <1> DEFINE n == Unread(h, t)
             old == Text(b, h, t)
             new == Text(b, h, next(t))
  <1>0. n = (IF h >= t THEN h - t ELSE h - t + FIFO_SIZE) /\ n \in 0..(FIFO_SIZE - 1)
    BY UnreadIs
  <1>a. next(t) = (IF t + 1 = FIFO_SIZE THEN 0 ELSE t + 1) /\ next(t) \in Slots
    BY NextSlot
  <1>1. n \in 1..(FIFO_SIZE - 1)
    BY <1>0, FifoAssumption DEF Slots
  <1>2. Unread(h, next(t)) = n - 1
    <2>1. Unread(h, next(t)) = IF h >= next(t) THEN h - next(t)
                                               ELSE h - next(t) + FIFO_SIZE
      BY <1>a, UnreadIs
    <2>. QED  BY <1>0, <1>a, <2>1, FifoAssumption DEF Slots
  <1>3. old \in Seq(Chars) /\ Len(old) = n
    BY TextTyped
  <1>4. next(t) \in Slots
    BY NextSlot
  <1>5. new \in Seq(Chars) /\ Len(new) = n - 1
    BY <1>2, <1>4, TextTyped
  <1>6. old[1] = b[t]
    <2>1. old[1] = b[(t + 1 - 1) % FIFO_SIZE]
      BY <1>1, TextTyped
    <2>2. (t + 1 - 1) % FIFO_SIZE = t
      BY SlotOf, FifoAssumption DEF Slots
    <2>. QED  BY <2>1, <2>2
  <1>7. ASSUME NEW i \in 1..(n - 1)
        PROVE  new[i] = Tail(old)[i]
    <2>1. new[i] = b[(next(t) + i - 1) % FIFO_SIZE]
      BY <1>2, <1>4, TextTyped
    <2>2. old[i + 1] = b[(t + (i + 1) - 1) % FIFO_SIZE]
      <3>1. i + 1 \in 1..Unread(h, t)
        BY <1>1
      <3>. QED  BY <3>1, TextTyped
    <2>3. (next(t) + i - 1) % FIFO_SIZE = (t + (i + 1) - 1) % FIFO_SIZE
      <3>1. i \in 1..FIFO_SIZE /\ i + 1 \in 1..FIFO_SIZE
        BY <1>1, FifoAssumption
      <3>2. (next(t) + i - 1) % FIFO_SIZE
               = IF next(t) + i - 1 >= FIFO_SIZE THEN next(t) + i - 1 - FIFO_SIZE
                                                 ELSE next(t) + i - 1
        BY <3>1, <1>4, SlotOf
      <3>3. (t + (i + 1) - 1) % FIFO_SIZE
               = IF t + (i + 1) - 1 >= FIFO_SIZE THEN t + (i + 1) - 1 - FIFO_SIZE
                                                 ELSE t + (i + 1) - 1
        BY <3>1, SlotOf
      <3>. QED  BY <3>1, <3>2, <3>3, <1>a, <1>1, FifoAssumption DEF Slots
    <2>4. Tail(old)[i] = old[i + 1]
      BY <1>1, <1>3
    <2>. QED  BY <2>1, <2>2, <2>3, <2>4
  <1>8. Tail(old) \in Seq(Chars) /\ Len(Tail(old)) = n - 1
    BY <1>1, <1>3
  <1>. HIDE DEF n, old, new
  <1>9. new = Tail(old)
    BY <1>5, <1>7, <1>8, SeqEqual
  <1>10. old # <<>> /\ Head(old) = b[t]
    BY <1>1, <1>3, <1>6
  <1>. QED  BY <1>9, <1>10 DEF old, new

-----------------------------------------------------------------------------
(* The inductive invariant: the prefixes the handler remembers are those   *)
(* of the event it is in the middle of, and, with no shift key down, the   *)
(* last shift event on its way is a release, or there is none and the      *)
(* driver is not in shift.                                                 *)
Prefixes ==
    /\ got # 0 => wire # <<>> /\ got < Len(Bytes(Head(wire)))
    /\ kbd_state.is_break <=>
          got # 0 /\ Head(wire)[1] = "up" /\ got = Len(Bytes(Head(wire))) - 1

NoShiftFrom(w, i) == \A j \in 1..Len(w) : j >= i => w[j][2] \notin Shifts
Settles(w, s) ==
    \/ ~s /\ NoShiftFrom(w, 1)
    \/ \E i \in 1..Len(w) :
          w[i][1] = "up" /\ w[i][2] \in Shifts /\ NoShiftFrom(w, i + 1)

IInv ==
    /\ TypeOK
    /\ Prefixes
    /\ held = {} => Settles(wire, kbd_state.shift)

LEMMA AnswerIs == Answer \in Events /\ Answer[2] \notin Shifts /\ ACK \in Keys
  BY CodesAssumption DEF Answer, Events, Keys

LEMMA InitIInv == Init => IInv
  <1> SUFFICES ASSUME Init PROVE IInv
    OBVIOUS
  <1>1. wire \in Seq(Events) /\ Len(wire) = 2
    BY AnswerIs DEF Init
  <1>2. TypeOK
    BY <1>1, FifoAssumption DEF Init, TypeOK, Events, Chars, Slots
  <1>3. Prefixes
    BY DEF Init, Prefixes
  <1>4. NoShiftFrom(wire, 1)
    BY AnswerIs DEF Init, NoShiftFrom
  <1>. QED  BY <1>2, <1>3, <1>4 DEF IInv, Settles, Init

(* Whether the byte that comes is a prefix, and which key a code is of.    *)
LEMMA ByteIs ==
  ASSUME IInv, wire # <<>>
  PROVE  /\ Head(wire) \in Events
         /\ Len(Bytes(Head(wire))) \in 1..3
         /\ got + 1 \in 1..Len(Bytes(Head(wire)))
         /\ Byte \in {E0, F0} <=> got + 1 < Len(Bytes(Head(wire)))
         /\ Byte = F0 <=> got + 1 = Len(Bytes(Head(wire))) - 1 /\ Head(wire)[1] = "up"
         /\ Byte \notin {E0, F0} => /\ Byte = Head(wire)[2]
                                    /\ kbd_state.is_break <=> Head(wire)[1] = "up"
  <1>1. Head(wire) \in Events
    BY DEF IInv, TypeOK, Events
  <1>2. Len(Bytes(Head(wire))) \in 1..3
    BY <1>1, BytesOf
  <1>p. /\ got \in 0..2
        /\ got # 0 => got < Len(Bytes(Head(wire)))
        /\ kbd_state.is_break <=>
              got # 0 /\ Head(wire)[1] = "up" /\ got = Len(Bytes(Head(wire))) - 1
    BY DEF IInv, TypeOK, Prefixes
  <1>3. got + 1 \in 1..Len(Bytes(Head(wire)))
    BY <1>2, <1>p
  <1>4. Byte \in {E0, F0} <=> got + 1 < Len(Bytes(Head(wire)))
    BY <1>1, <1>3, BytesOf DEF Byte
  <1>5. Byte = F0 <=> got + 1 = Len(Bytes(Head(wire))) - 1 /\ Head(wire)[1] = "up"
    BY <1>1, <1>3, BytesOf DEF Byte
  <1>6. ASSUME Byte \notin {E0, F0}
        PROVE  /\ Byte = Head(wire)[2]
               /\ kbd_state.is_break <=> Head(wire)[1] = "up"
    <2>1. got + 1 = Len(Bytes(Head(wire)))
      BY <1>2, <1>3, <1>4, <1>6
    <2>2. Byte = Head(wire)[2]
      BY <1>1, <1>3, <2>1, BytesOf DEF Byte
    <2>3. Head(wire)[1] = "up" => Len(Bytes(Head(wire))) # 1
      BY DEF Bytes
    <2>. QED  BY <1>2, <1>p, <2>1, <2>2, <2>3
  <1>. QED  BY <1>1, <1>2, <1>3, <1>4, <1>5, <1>6

LEMMA TypesTyped ==
  ASSUME NEW k \in Keys
  PROVE  Types(k) \subseteq Chars
  BY DEF Types, scancode_map, shift_map, Chars

-----------------------------------------------------------------------------
(* How what the wire will end in changes with it.                          *)
LEMMA SettlesAppend ==
  ASSUME NEW w \in Seq(Events), NEW s \in BOOLEAN, NEW e \in Events,
         \/ Settles(w, s) /\ e[2] \notin Shifts
         \/ e[1] = "up" /\ e[2] \in Shifts
  PROVE  Settles(Append(w, e), s)
  <1> DEFINE w2 == Append(w, e)
  <1>1. /\ Len(w2) = Len(w) + 1 /\ Len(w) \in Nat
        /\ \A i \in 1..Len(w) : w2[i] = w[i]
        /\ w2[Len(w) + 1] = e
    OBVIOUS
  <1> HIDE DEF w2
  <1>2. CASE e[1] = "up" /\ e[2] \in Shifts
    <2>1. NoShiftFrom(w2, Len(w2) + 1)
      BY <1>1 DEF NoShiftFrom
    <2>. QED  BY <1>1, <1>2, <2>1 DEF Settles, w2
  <1>3. CASE e[2] \notin Shifts /\ ~s /\ NoShiftFrom(w, 1)
    <2>1. NoShiftFrom(w2, 1)
      BY <1>1, <1>3 DEF NoShiftFrom
    <2>. QED  BY <1>3, <2>1 DEF Settles, w2
  <1>4. ASSUME e[2] \notin Shifts, NEW i \in 1..Len(w),
               w[i][1] = "up", w[i][2] \in Shifts, NoShiftFrom(w, i + 1)
        PROVE  Settles(w2, s)
    <2>1. NoShiftFrom(w2, i + 1)
      BY <1>1, <1>4 DEF NoShiftFrom
    <2>2. i \in 1..Len(w2) /\ w2[i] = w[i]
      BY <1>1
    <2>. QED  BY <1>4, <2>1, <2>2 DEF Settles
  <1>. QED  BY <1>2, <1>3, <1>4 DEF Settles, w2

LEMMA SettlesTail ==
  ASSUME NEW w \in Seq(Events), NEW s \in BOOLEAN, w # <<>>, Settles(w, s)
  PROVE  Settles(Tail(w), IF Head(w)[2] \in Shifts THEN Head(w)[1] # "up" ELSE s)
  <1> DEFINE w2 == Tail(w)
             s2 == IF Head(w)[2] \in Shifts THEN Head(w)[1] # "up" ELSE s
  <1>1. /\ Len(w2) = Len(w) - 1 /\ Len(w) \in Nat \ {0}
        /\ \A i \in 1..Len(w2) : w2[i] = w[i + 1]
        /\ Head(w) = w[1]
    OBVIOUS
  <1> HIDE DEF w2, s2
  <1>2. CASE ~s /\ NoShiftFrom(w, 1)
    <2>1. NoShiftFrom(w2, 1)
      BY <1>1, <1>2 DEF NoShiftFrom
    <2>2. w[1][2] \notin Shifts
      BY <1>1, <1>2 DEF NoShiftFrom
    <2>3. ~s2
      BY <1>1, <1>2, <2>2 DEF s2
    <2>. QED  BY <2>1, <2>3 DEF Settles, w2, s2
  <1>3. ASSUME NEW i \in 1..Len(w), w[i][1] = "up", w[i][2] \in Shifts,
               NoShiftFrom(w, i + 1)
        PROVE  Settles(w2, s2)
    <2>1. CASE i = 1
      <3>1. NoShiftFrom(w2, 1)
        BY <1>1, <1>3, <2>1 DEF NoShiftFrom
      <3>2. ~s2
        BY <1>1, <1>3, <2>1 DEF s2
      <3>. QED  BY <3>1, <3>2 DEF Settles
    <2>2. CASE i # 1
      <3>1. i - 1 \in 1..Len(w2) /\ w2[i - 1] = w[i]
        BY <1>1, <2>2
      <3>2. NoShiftFrom(w2, (i - 1) + 1)
        BY <1>1, <1>3 DEF NoShiftFrom
      <3>. QED  BY <1>3, <3>1, <3>2 DEF Settles
    <2>. QED  BY <2>1, <2>2
  <1>. QED  BY <1>2, <1>3 DEF Settles, w2, s2

LEMMA AnsweredIs ==
  ASSUME NEW w \in Seq(Events), NEW w2 \in Answered(w)
  PROVE  /\ w2 \in Seq(Events) /\ Len(w2) = Len(w) + 2 /\ w2 # <<>>
         /\ \E d \in {0, 2} : \A i \in 1..Len(w2) :
               w2[i] = IF i - d \in 1..Len(w) THEN w[i - d] ELSE Answer
  <1> DEFINE a == <<Answer, Answer>>
  <1>1. a \in Seq(Events) /\ Len(a) = 2 /\ a[1] = Answer /\ a[2] = Answer
    BY AnswerIs
  <1>2. w2 = a \o w \/ w2 = w \o a
    BY DEF Answered
  <1> HIDE DEF a
  <1>3. Len(w) \in Nat
    OBVIOUS
  <1>4. CASE w2 = a \o w
    <2>1. /\ a \o w \in Seq(Events)
          /\ Len(a \o w) = Len(a) + Len(w)
          /\ \A i \in 1..Len(a) + Len(w) :
               (a \o w)[i] = IF i <= Len(a) THEN a[i] ELSE w[i - Len(a)]
      BY <1>1, ConcatProperties
    <2>2. w2 \in Seq(Events) /\ Len(w2) = Len(w) + 2 /\ w2 # <<>>
      BY <1>1, <1>3, <1>4, <2>1
    <2>3. \A i \in 1..Len(w2) :
             w2[i] = IF i - 2 \in 1..Len(w) THEN w[i - 2] ELSE Answer
      BY <1>1, <1>3, <1>4, <2>1, <2>2
    <2>. QED  BY <2>2, <2>3
  <1>5. CASE w2 = w \o a
    <2>1. /\ w \o a \in Seq(Events)
          /\ Len(w \o a) = Len(w) + Len(a)
          /\ \A i \in 1..Len(w) + Len(a) :
               (w \o a)[i] = IF i <= Len(w) THEN w[i] ELSE a[i - Len(w)]
      BY <1>1, ConcatProperties
    <2>2. w2 \in Seq(Events) /\ Len(w2) = Len(w) + 2 /\ w2 # <<>>
      BY <1>1, <1>3, <1>5, <2>1
    <2>3. \A i \in 1..Len(w2) :
             w2[i] = IF i - 0 \in 1..Len(w) THEN w[i - 0] ELSE Answer
      BY <1>1, <1>3, <1>5, <2>1, <2>2
    <2>. QED  BY <2>2, <2>3
  <1>. QED  BY <1>2, <1>4, <1>5

LEMMA SettlesAnswered ==
  ASSUME NEW w \in Seq(Events), NEW s \in BOOLEAN, Settles(w, s),
         NEW w2 \in Answered(w)
  PROVE  Settles(w2, s)
  <1>1. w2 \in Seq(Events) /\ Len(w2) = Len(w) + 2 /\ Len(w) \in Nat
    BY AnsweredIs
  <1>2. PICK d \in {0, 2} : \A i \in 1..Len(w2) :
            w2[i] = IF i - d \in 1..Len(w) THEN w[i - d] ELSE Answer
    BY AnsweredIs
  <1>3. CASE ~s /\ NoShiftFrom(w, 1)
    <2>1. NoShiftFrom(w2, 1)
      BY <1>1, <1>2, <1>3, AnswerIs DEF NoShiftFrom
    <2>. QED  BY <1>3, <2>1 DEF Settles
  <1>4. ASSUME NEW i \in 1..Len(w), w[i][1] = "up", w[i][2] \in Shifts,
               NoShiftFrom(w, i + 1)
        PROVE  Settles(w2, s)
    <2>1. i + d \in 1..Len(w2) /\ w2[i + d] = w[i]
      BY <1>1, <1>2
    <2>2. ASSUME NEW j \in 1..Len(w2), j >= i + d + 1
          PROVE  w2[j][2] \notin Shifts
      <3>1. CASE j - d \in 1..Len(w)
        <4>1. j - d >= i + 1 /\ w2[j] = w[j - d]
          BY <1>1, <1>2, <2>2, <3>1
        <4>. QED  BY <1>4, <3>1, <4>1 DEF NoShiftFrom
      <3>2. CASE j - d \notin 1..Len(w)
        BY <1>2, <3>2, AnswerIs
      <3>. QED  BY <3>1, <3>2
    <2>3. NoShiftFrom(w2, i + d + 1)
      BY <2>2 DEF NoShiftFrom
    <2>. QED  BY <1>4, <2>1, <2>3 DEF Settles
  <1>. QED  BY <1>3, <1>4 DEF Settles

-----------------------------------------------------------------------------
(* What each action does to the wire, the modifiers and the ring, once the *)
(* invariant says which byte it reads.                                     *)
LEMMA SendsStep ==
  ASSUME IInv, NEW e \in Events, Sends(e),
         \/ e[2] \notin Shifts /\ held' = held
         \/ e[1] = "up" /\ e[2] \in Shifts /\ held' \subseteq held
         \/ held' = held \cup {e[2]} /\ e[2] \in Shifts
  PROVE  IInv'
  <1>1. wire \in Seq(Events) /\ wire' = Append(wire, e)
    BY DEF IInv, TypeOK, Sends, Events
  <1>2. wire' \in Seq(Events) /\ wire' # <<>>
    BY <1>1
  <1>3. TypeOK'
    BY <1>2 DEF IInv, TypeOK, Sends, fifo, Events
  <1>4. wire # <<>> => Head(wire') = Head(wire)
    BY <1>1
  <1>5. Prefixes'
    BY <1>2, <1>4 DEF IInv, TypeOK, Prefixes, Sends
  <1>6. ASSUME held' = {}
        PROVE  Settles(wire', kbd_state'.shift)
    <2>1. kbd_state'.shift = kbd_state.shift /\ kbd_state.shift \in BOOLEAN
      BY DEF IInv, TypeOK, Sends
    <2>2. CASE e[1] = "up" /\ e[2] \in Shifts
      BY <1>1, <2>1, <2>2, SettlesAppend
    <2>3. CASE ~(e[1] = "up" /\ e[2] \in Shifts)
      <3>1. held = {} /\ e[2] \notin Shifts
        BY <1>6, <2>3
      <3>. QED  BY <1>1, <2>1, <3>1, SettlesAppend DEF IInv
    <2>. QED  BY <2>2, <2>3
  <1>. QED  BY <1>3, <1>5, <1>6 DEF IInv

LEMMA PrefixStep ==
  ASSUME IInv, Prefix
  PROVE  IInv'
  <1>1. /\ Head(wire) \in Events
        /\ Len(Bytes(Head(wire))) \in 1..3
        /\ got + 1 < Len(Bytes(Head(wire)))
        /\ Byte = F0 <=> got + 1 = Len(Bytes(Head(wire))) - 1 /\ Head(wire)[1] = "up"
    BY ByteIs DEF Prefix
  <1>2. /\ got \in 0..2
        /\ kbd_state.is_break =>
              got # 0 /\ got = Len(Bytes(Head(wire))) - 1
    BY DEF IInv, TypeOK, Prefixes
  <1>3. ~kbd_state.is_break
    BY <1>1, <1>2
  <1>4. /\ wire' = wire /\ wire # <<>> /\ got' = got + 1 /\ held' = held
        /\ kbd_state'.shift = kbd_state.shift
        /\ kbd_state'.is_break = (Byte = F0)
        /\ Byte \in {E0, F0} /\ E0 # F0
    BY <1>3 DEF Prefix, IInv, TypeOK, E0, F0
  <1>5. PICK n \in 1..3 : n = Len(Bytes(Head(wire)))
    BY <1>1
  <1>a. got + 1 < n /\ got \in 0..2
    BY <1>1, <1>2, <1>5
  <1>b. got' \in 0..2 /\ got' # 0 /\ got' < n
    BY <1>4, <1>a
  <1>6. TypeOK'
    BY <1>b DEF IInv, TypeOK, Prefix, fifo
  <1>c. Byte = F0 <=> got' = n - 1 /\ Head(wire)[1] = "up"
    BY <1>1, <1>4, <1>5
  <1>7. Prefixes'
    BY <1>4, <1>5, <1>b, <1>c DEF Prefixes
  <1>. QED  BY <1>4, <1>6, <1>7 DEF IInv

(* A code is the last byte of its event; shift and caps are what the       *)
(* abstract keyboard makes of it, and one of the characters it may type is *)
(* put, unless the event is a release.                                     *)
LEMMA CodeIs ==
  ASSUME IInv, Code
  PROVE  LET k == Head(wire)[2]
             down == Head(wire)[1] = "down"
         IN  /\ wire \in Seq(Events) /\ wire # <<>> /\ Head(wire) \in Events
             /\ Head(wire)[1] \in {"down", "up"} /\ k \in Keys
             /\ Byte = k
             /\ kbd_state.is_break <=> ~down
             /\ got' = 0
             /\ kbd_state'.is_break = FALSE
             /\ kbd_state'.shift = IF k \in Shifts THEN down ELSE kbd_state.shift
             /\ kbd_state'.caps = IF k = CAPS /\ down THEN ~kbd_state.caps
                                                      ELSE kbd_state.caps
             /\ wire' \in IF k = CAPS /\ down THEN Answered(Tail(wire)) ELSE {Tail(wire)}
             /\ wire' \in Seq(Events)
             /\ kbd_state' \in [shift : BOOLEAN, caps : BOOLEAN, is_break : BOOLEAN,
                                is_extended : BOOLEAN]
  <1>1. /\ wire # <<>> /\ Head(wire) \in Events /\ Byte = Head(wire)[2]
        /\ kbd_state.is_break <=> Head(wire)[1] = "up"
    <2>1. wire # <<>> /\ Byte \notin {E0, F0}
      BY DEF Code
    <2>. QED  BY <2>1, ByteIs
  <1>2. wire \in Seq(Events)
    BY DEF IInv, TypeOK, Events
  <1>3. Head(wire)[1] \in {"down", "up"} /\ Head(wire)[2] \in Keys
    BY <1>1 DEF Events
  <1>4. kbd_state.is_break <=> ~(Head(wire)[1] = "down")
    BY <1>1, <1>3
  <1>5. kbd_state.shift \in BOOLEAN /\ kbd_state.caps \in BOOLEAN
        /\ kbd_state.is_break \in BOOLEAN
    BY DEF IInv, TypeOK
  <1>6. /\ kbd_state' = [shift |-> shift_now(Byte), caps |-> caps_now(Byte),
                         is_break |-> FALSE, is_extended |-> FALSE]
        /\ got' = 0
        /\ wire' \in IF Byte = CAPS /\ ~kbd_state.is_break THEN Answered(Tail(wire))
                                                           ELSE {Tail(wire)}
    BY DEF Code
  <1>7. Tail(wire) \in Seq(Events)
    BY <1>1, <1>2
  <1>8. wire' \in Seq(Events)
    BY <1>6, <1>7, AnsweredIs
  <1>. QED  BY <1>1, <1>2, <1>3, <1>4, <1>5, <1>6, <1>8 DEF shift_now, caps_now

LEMMA PutTyped ==
  ASSUME IInv, NEW c \in Chars, k_fifo_put(c)
  PROVE  buffer' \in [Slots -> Chars] /\ head' \in Slots /\ tail' \in Slots
  BY NextSlot DEF IInv, TypeOK, k_fifo_put, fifo

LEMMA CodeStep ==
  ASSUME IInv, Code
  PROVE  IInv'
  <1>1. /\ wire \in Seq(Events) /\ wire # <<>> /\ Head(wire)[1] \in {"down", "up"}
        /\ Byte = Head(wire)[2] /\ Head(wire)[2] \in Keys
        /\ wire' \in Seq(Events) /\ got' = 0
        /\ kbd_state'.is_break = FALSE
        /\ kbd_state'.shift = IF Head(wire)[2] \in Shifts
                              THEN Head(wire)[1] = "down" ELSE kbd_state.shift
        /\ kbd_state' \in [shift : BOOLEAN, caps : BOOLEAN, is_break : BOOLEAN,
                            is_extended : BOOLEAN]
        /\ wire' \in Answered(Tail(wire)) \cup {Tail(wire)}
    BY CodeIs
  <1>2. buffer' \in [Slots -> Chars] /\ head' \in Slots /\ tail' \in Slots
    <2>1. CASE UNCHANGED fifo
      BY <2>1 DEF fifo, IInv, TypeOK
    <2>2. ASSUME NEW c \in Types(Byte), k_fifo_put(c)
          PROVE  buffer' \in [Slots -> Chars] /\ head' \in Slots /\ tail' \in Slots
      <3>1. c \in Chars
        BY <1>1, TypesTyped
      <3>. QED  BY <2>2, <3>1, PutTyped
    <2>. QED  BY <2>1, <2>2 DEF Code
  <1>3. TypeOK'
    BY <1>1, <1>2 DEF IInv, TypeOK, Code, Events
  <1>4. Prefixes'
    BY <1>1 DEF Prefixes
  <1>5. ASSUME held' = {}
        PROVE  Settles(wire', kbd_state'.shift)
    <2>1. Settles(wire, kbd_state.shift) /\ kbd_state.shift \in BOOLEAN
      BY <1>5 DEF IInv, TypeOK, Code
    <2>2. Settles(Tail(wire), IF Head(wire)[2] \in Shifts THEN Head(wire)[1] # "up"
                                                          ELSE kbd_state.shift)
      BY <1>1, <2>1, SettlesTail
    <2>3. Settles(Tail(wire), kbd_state'.shift)
      <3>1. kbd_state'.shift = IF Head(wire)[2] \in Shifts THEN Head(wire)[1] # "up"
                                                           ELSE kbd_state.shift
        BY <1>1
      <3>. QED  BY <2>2, <3>1
    <2>4. Tail(wire) \in Seq(Events) /\ kbd_state'.shift \in BOOLEAN
      BY <1>1
    <2>. QED  BY <1>1, <2>3, <2>4, SettlesAnswered
  <1>. QED  BY <1>3, <1>4, <1>5 DEF IInv

LEMMA GetStep ==
  ASSUME IInv, SYS_GETCHAR
  PROVE  IInv'
  <1>1. TypeOK'
    BY NextSlot DEF IInv, TypeOK, SYS_GETCHAR
  <1>2. Prefixes'
    BY DEF IInv, Prefixes, SYS_GETCHAR
  <1>. QED  BY <1>1, <1>2 DEF IInv, SYS_GETCHAR

LEMMA StepIInv == IInv /\ [Next]_vars => IInv'
  <1> SUFFICES ASSUME IInv, [Next]_vars PROVE IInv'
    OBVIOUS
  <1>1. ASSUME NEW k \in Keys \ {ACK}, KeyDown(k)
        PROVE  IInv'
    <2>1. <<"down", k>> \in Events /\ Sends(<<"down", k>>)
      BY <1>1 DEF KeyDown, Events
    <2>2. \/ k \notin Shifts /\ held' = held
          \/ k \in Shifts /\ held' = held \cup {k}
      BY <1>1 DEF KeyDown
    <2>. QED  BY <2>1, <2>2, SendsStep
  <1>2. ASSUME NEW k \in Keys \ {ACK}, KeyUp(k)
        PROVE  IInv'
    <2>1. <<"up", k>> \in Events /\ Sends(<<"up", k>>)
      BY <1>2 DEF KeyUp, Events
    <2>2. \/ k \notin Shifts /\ held' = held
          \/ k \in Shifts /\ held' \subseteq held
      BY <1>2 DEF KeyUp, IInv, TypeOK
    <2>. QED  BY <2>1, <2>2, SendsStep
  <1>3. CASE Prefix
    BY <1>3, PrefixStep
  <1>4. CASE Code
    BY <1>4, CodeStep
  <1>5. CASE SYS_GETCHAR
    BY <1>5, GetStep
  <1>6. CASE UNCHANGED vars
    BY <1>6 DEF vars, fifo, IInv, TypeOK, Prefixes
  <1>. QED  BY <1>1, <1>2, <1>3, <1>4, <1>5, <1>6 DEF Next

(* IInv is an invariant of the keyboard.                                   *)
LEMMA Invariance == Spec => []IInv
  BY InitIInv, StepIInv, PTL DEF Spec

(* The codes on the wire, the handler's memory, the ring and its cursors   *)
(* keep their types, for every ring size and every set of keys (ps2.c,     *)
(* fifo.c).                                                                *)
THEOREM KeyboardTyped == Spec => []TypeOK
  <1>1. IInv => TypeOK
    BY DEF IInv
  <1>. QED  BY <1>1, Invariance, PTL

(* The driver is never left in shift once it has read everything and no    *)
(* shift key is down, whatever was pressed in between (ps2.c:79-91,        *)
(* 121-122).                                                               *)
THEOREM ShiftIsReleased == Spec => []NoStuckShift
  <1>1. IInv => NoStuckShift
    BY DEF IInv, NoStuckShift, Settles
  <1>. QED  BY <1>1, Invariance, PTL

-----------------------------------------------------------------------------
(* The refinement. A prefix is a stutter of TypedText; a code is a press   *)
(* or a release.                                                           *)
LEMMA TextEmpty ==
  ASSUME NEW h \in Slots, NEW t \in Slots, NEW b \in [Slots -> Chars], h = t
  PROVE  Text(b, h, t) = <<>>
  <1>1. Unread(h, t) = 0
    <2>1. Unread(h, t) = IF h >= t THEN h - t ELSE h - t + FIFO_SIZE
      BY UnreadIs
    <2>. QED  BY <2>1, FifoAssumption DEF Slots
  <1>2. Text(b, h, t) \in Seq(Chars) /\ Len(Text(b, h, t)) = 0
    BY <1>1, TextTyped
  <1>. QED  BY <1>2, EmptySeq

LEMMA InitText == Init => Typing!Init
  <1> SUFFICES ASSUME Init PROVE Typing!Init
    OBVIOUS
  <1>1. Text(buffer, head, tail) = <<>>
    <2>1. head \in Slots /\ tail \in Slots /\ head = tail
      BY FifoAssumption DEF Init, Slots
    <2>2. buffer \in [Slots -> Chars]
      BY DEF Init, Chars
    <2>. QED  BY <2>1, <2>2, TextEmpty
  <1>. QED  BY <1>1 DEF Init, Typing!Init, Answer, Typing!Answer, EMPTY, Typing!EMPTY

LEMMA SendsText ==
  ASSUME NEW e \in Events, Sends(e)
  PROVE  Typing!Happen
  BY DEF Sends, Typing!Happen, Events, fifo

LEMMA PrefixText ==
  ASSUME IInv, Prefix
  PROVE  UNCHANGED Typing!vars
  <1>1. kbd_state'.shift = kbd_state.shift /\ kbd_state'.caps = kbd_state.caps
    BY DEF IInv, TypeOK, Prefix
  <1>. QED  BY <1>1 DEF Prefix, fifo, Typing!vars

LEMMA TypesAllowed ==
  ASSUME NEW k \in Keys
  PROVE  Types(k) \subseteq Typing!Typed(k, upper_now(k))
  <1>1. k \in PastBoth => k \notin Lettered \cup Plain
    BY CodesAssumption
  <1>2. k \in Lettered => k \notin PastShift
    BY CodesAssumption
  <1>3. <<"upper", k>> # NUL
    BY DEF NUL
  <1>. QED  BY <1>1, <1>2, <1>3 DEF Types, scancode_map, shift_map, Typing!Typed,
                 Typing!lower, NUL, JUNK, Typing!NUL, Typing!JUNK

LEMMA PutText ==
  ASSUME IInv, NEW c \in Chars,
         IF c = NUL THEN UNCHANGED fifo ELSE k_fifo_put(c)
  PROVE  Text(buffer, head, tail)' = Typing!Kept(c)
  <1>1. head \in Slots /\ tail \in Slots /\ buffer \in [Slots -> Chars]
    BY DEF IInv, TypeOK
  <1>2. Typing!Kept(c) = IF c # NUL /\ Unread(head, tail) < FIFO_SIZE - 1
                         THEN Append(Text(buffer, head, tail), c)
                         ELSE Text(buffer, head, tail)
    BY <1>1, TextTyped DEF Typing!Kept, NUL, Typing!NUL
  <1>3. CASE UNCHANGED fifo /\ (c = NUL \/ next(head) = tail)
    <2>1. c = NUL \/ ~(Unread(head, tail) < FIFO_SIZE - 1)
      BY <1>1, <1>3, FullIs, FifoAssumption
    <2>. QED  BY <1>2, <1>3, <2>1 DEF fifo
  <1>4. CASE c # NUL /\ next(head) # tail
    <2>1. /\ buffer' = [buffer EXCEPT ![head] = c]
          /\ head' = next(head)
          /\ tail' = tail
      BY <1>4 DEF k_fifo_put, Full
    <2>2. buffer' \in [Slots -> Chars]
      BY <1>1, <2>1
    <2>3. Text(buffer', next(head), tail) = Append(Text(buffer, head, tail), c)
      <3>1. \A i \in Slots : buffer'[i] = IF i = head THEN c ELSE buffer[i]
        BY <1>1, <2>1
      <3>2. next(head) # tail
        BY <1>4
      <3>. QED  BY <1>1, <2>2, <3>1, <3>2, PutAppends
    <2>4. Unread(head, tail) < FIFO_SIZE - 1
      <3>1. Unread(head, tail) \in 0..(FIFO_SIZE - 1)
        BY <1>1, UnreadIs
      <3>. QED  BY <1>1, <1>4, <3>1, FullIs, FifoAssumption
    <2>. QED  BY <1>2, <1>4, <2>1, <2>3, <2>4
  <1>5. c = NUL \/ next(head) = tail => UNCHANGED fifo
    BY DEF k_fifo_put, Full
  <1>. QED  BY <1>3, <1>4, <1>5

LEMMA CodeText ==
  ASSUME IInv, Code
  PROVE  Typing!Next
  <1> DEFINE k == Head(wire)[2]
             down == Head(wire)[1] = "down"
  <1>1. /\ wire # <<>> /\ k \in Keys /\ Byte = k
        /\ Head(wire)[1] \in {"down", "up"}
        /\ kbd_state.is_break <=> ~down
        /\ kbd_state'.shift = IF k \in Shifts THEN down ELSE kbd_state.shift
        /\ kbd_state'.caps = IF k = CAPS /\ down THEN ~kbd_state.caps
                                                 ELSE kbd_state.caps
        /\ wire' \in IF k = CAPS /\ down THEN Answered(Tail(wire)) ELSE {Tail(wire)}
    BY CodeIs
  <1>2. kbd_state.shift \in BOOLEAN /\ kbd_state.caps \in BOOLEAN
    BY DEF IInv, TypeOK
  <1>3. ret' = ret
    BY DEF Code
  <1>4. CASE ~down
    <2>1. UNCHANGED fifo
      BY <1>1, <1>4 DEF Code
    <2>2. Text(buffer, head, tail)' = Text(buffer, head, tail)
      BY <2>1 DEF fifo
    <2>3. Typing!Release
      BY <1>1, <1>2, <1>3, <1>4, <2>2 DEF Typing!Release
    <2>. QED  BY <2>3 DEF Typing!Next
  <1>5. CASE down
    <2>1. PICK c \in Types(k) : IF c = NUL THEN UNCHANGED fifo ELSE k_fifo_put(c)
      BY <1>1, <1>5 DEF Code
    <2>2. c \in Chars
      BY <1>1, TypesTyped
    <2>3. Text(buffer, head, tail)' = Typing!Kept(c)
      BY <2>1, <2>2, PutText
    <2>4. upper_now(k) = (kbd_state'.shift # kbd_state'.caps)
      BY <1>1, <1>5 DEF upper_now, shift_now, caps_now
    <2>5. c \in Typing!Typed(k, kbd_state'.shift # kbd_state'.caps)
      BY <1>1, <2>1, <2>4, TypesAllowed
    <2>6. wire' \in IF k = CAPS THEN Typing!Answered(Tail(wire)) ELSE {Tail(wire)}
      BY <1>1, <1>5 DEF Answered, Typing!Answered, Answer, Typing!Answer
    <2>7. kbd_state'.shift = (kbd_state.shift \/ k \in Shifts)
      BY <1>1, <1>2, <1>5
    <2>8. kbd_state'.caps = (kbd_state.caps # (k = CAPS))
      BY <1>1, <1>2, <1>5
    <2>9. Typing!Press
      BY <1>1, <1>3, <1>5, <2>3, <2>5, <2>6, <2>7, <2>8 DEF Typing!Press
    <2>. QED  BY <2>9 DEF Typing!Next
  <1>. QED  BY <1>4, <1>5

LEMMA GetText ==
  ASSUME IInv, SYS_GETCHAR
  PROVE  Typing!Read
  <1>1. head \in Slots /\ tail \in Slots /\ buffer \in [Slots -> Chars]
    BY DEF IInv, TypeOK
  <1>2. wire' = wire /\ kbd_state' = kbd_state /\ buffer' = buffer /\ head' = head
    BY DEF SYS_GETCHAR
  <1>3. CASE head = tail
    <2>1. Text(buffer, head, tail) = <<>>
      BY <1>1, <1>3, TextEmpty
    <2>2. ret' = EMPTY /\ tail' = tail
      BY <1>3 DEF SYS_GETCHAR, Empty
    <2>. QED  BY <1>2, <2>1, <2>2 DEF Typing!Read, EMPTY, Typing!EMPTY
  <1>4. CASE head # tail
    <2>1. /\ Text(buffer, head, tail) # <<>>
          /\ Head(Text(buffer, head, tail)) = buffer[tail]
          /\ Text(buffer, head, next(tail)) = Tail(Text(buffer, head, tail))
      BY <1>1, <1>4, GetTakesHead
    <2>2. ret' = buffer[tail] /\ tail' = next(tail)
      BY <1>4 DEF SYS_GETCHAR, Empty
    <2>3. Text(buffer, head, tail)' = Tail(Text(buffer, head, tail))
      BY <1>2, <2>1, <2>2
    <2>. QED  BY <1>2, <2>1, <2>2, <2>3 DEF Typing!Read
  <1>. QED  BY <1>3, <1>4

LEMMA StepText == IInv /\ [Next]_vars => [Typing!Next]_(Typing!vars)
  <1> SUFFICES ASSUME IInv, [Next]_vars PROVE [Typing!Next]_(Typing!vars)
    OBVIOUS
  <1>1. ASSUME NEW k \in Keys \ {ACK}, KeyDown(k) \/ KeyUp(k)
        PROVE  Typing!Next
    <2>1. PICK e \in Events : Sends(e)
      BY <1>1 DEF KeyDown, KeyUp, Events
    <2>. QED  BY <2>1, SendsText DEF Typing!Next
  <1>2. CASE Prefix
    BY <1>2, PrefixText
  <1>3. CASE Code
    BY <1>3, CodeText
  <1>4. CASE SYS_GETCHAR
    BY <1>4, GetText DEF Typing!Next
  <1>5. CASE UNCHANGED vars
    BY <1>5 DEF vars, fifo, Typing!vars
  <1>. QED  BY <1>1, <1>2, <1>3, <1>4, <1>5 DEF Next

(* Interrupt by interrupt, the decoder, the two tables and the ring        *)
(* implement typed text: events are understood in order, whatever prefixes *)
(* they have and whatever calls come between their bytes, and getchar()    *)
(* returns the oldest character kept (ps2.c:72-123, fifo.c:15-40).         *)
THEOREM KeyboardIsTypedText == Spec => TypesText
  BY InitText, StepText, Invariance, PTL DEF Spec, TypesText, Typing!Spec

=============================================================================
