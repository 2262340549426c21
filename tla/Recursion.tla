----------------------------- MODULE Recursion ------------------------------
(***************************************************************************)
(* Induction over the natural numbers, with a set in place of a predicate, *)
(* and the existence of functions defined by recursion: what proofs about  *)
(* the loops of the code need.                                             *)
(***************************************************************************)
EXTENDS Integers, TLAPS, WellFoundedInduction

Lt == {ss \in Nat \X Nat : ss[1] < ss[2]}

(* A set of natural numbers has a least one.                               *)
LEMMA LeastNatural ==
  ASSUME NEW T, T \subseteq Nat, T # {}
  PROVE  \E m \in T : \A k \in T : m <= k
<1>1. IsWellFoundedOn(Lt, Nat)
  <2>1. OpToRel(<, Nat) = Lt
    BY DEF OpToRel, Lt
  <2>2. QED
    BY <2>1, NatLessThanWellFounded
<1>2. PICK m \in T : \A k \in T : ~(<<k, m>> \in Lt)
  BY <1>1, WFMin
<1>3. ASSUME NEW k \in T PROVE m <= k
  <2>1. k \in Nat /\ m \in Nat
    OBVIOUS
  <2>2. <<k, m>> \in Lt <=> k < m
    BY <2>1 DEF Lt
  <2>3. QED
    BY <1>2, <2>1, <2>2
<1>4. QED
  BY <1>3

(* Induction over a set instead of a predicate.                            *)
LEMMA Induct ==
  ASSUME NEW T, 0 \in T, \A k \in Nat : k \in T => k + 1 \in T
  PROVE  Nat \subseteq T
<1> SUFFICES ASSUME Nat \ T # {} PROVE FALSE
  OBVIOUS
<1>1. Nat \ T \subseteq Nat
  OBVIOUS
<1>2. PICK m \in Nat \ T : \A k \in Nat \ T : m <= k
  BY <1>1, LeastNatural
<1>3. m # 0 /\ m - 1 \in Nat
  BY <1>2
<1>4. m - 1 \in T
  BY <1>2, <1>3
<1>5. QED
  BY <1>3, <1>4

(* f begins with first and goes on with step.                              *)
Follows(f, n, first, step) == f[0] = first /\ \A i \in 1..n : f[i] = step[<<i, f[i - 1]>>]

(* There is such a function.                                               *)
LEMMA RecursionExists ==
  ASSUME NEW S, NEW n \in Nat, NEW first \in S, NEW step \in [(1..n) \X S -> S]
  PROVE  \E f \in [0..n -> S] : Follows(f, n, first, step)
<1> DEFINE Upto(f, k) == f[0] = first /\ \A i \in 1..k : f[i] = step[<<i, f[i - 1]>>]
           T == {k \in Nat : k <= n => \E f \in [0..k -> S] : Upto(f, k)}
<1>1. 0 \in T
  <2> DEFINE f == [i \in 0..0 |-> first]
  <2>1. f \in [0..0 -> S] /\ Upto(f, 0)
    OBVIOUS
  <2> HIDE DEF f
  <2>2. QED
    BY <2>1
<1>2. ASSUME NEW k \in Nat, k \in T PROVE k + 1 \in T
  <2> SUFFICES ASSUME k + 1 <= n
               PROVE  \E f \in [0..(k + 1) -> S] : Upto(f, k + 1)
    OBVIOUS
  <2>1. PICK f \in [0..k -> S] : Upto(f, k)
    BY <1>2
  <2> DEFINE g == [i \in 0..(k + 1) |-> IF i <= k THEN f[i] ELSE step[<<k + 1, f[k]>>]]
  <2>2. step[<<k + 1, f[k]>>] \in S
    <3>1. <<k + 1, f[k]>> \in (1..n) \X S
      OBVIOUS
    <3>2. QED
      BY <3>1
  <2>3. g \in [0..(k + 1) -> S]
    BY <2>2
  <2>4. g[0] = first
    BY <2>1
  <2>5. ASSUME NEW i \in 1..(k + 1) PROVE g[i] = step[<<i, g[i - 1]>>]
    <3>1. CASE i <= k
      <4>1. g[i] = f[i] /\ g[i - 1] = f[i - 1] /\ i \in 1..k
        BY <3>1
      <4>2. QED
        BY <2>1, <4>1
    <3>2. CASE i = k + 1
      <4>1. g[i] = step[<<k + 1, f[k]>>] /\ g[i - 1] = f[k]
        BY <3>2
      <4>2. QED
        BY <3>2, <4>1
    <3>3. QED
      BY <3>1, <3>2
  <2> HIDE DEF g
  <2>6. QED
    BY <2>3, <2>4, <2>5
<1> HIDE DEF T
<1>3. n \in T
  BY <1>1, <1>2, Induct
<1>4. QED
  BY <1>3 DEF T, Follows

(* What a loop makes of a value of S, step by step, stays in S.            *)
LEMMA LoopStays ==
  ASSUME NEW S, NEW n \in Nat, NEW w, w[0] \in S,
         \A i \in 1..n : w[i - 1] \in S => w[i] \in S
  PROVE  \A i \in 0..n : w[i] \in S
<1> DEFINE T == {k \in Nat : k <= n => w[k] \in S}
<1>1. 0 \in T
  OBVIOUS
<1>2. ASSUME NEW k \in Nat, k \in T PROVE k + 1 \in T
  <2> SUFFICES ASSUME k + 1 <= n PROVE w[k + 1] \in S
    OBVIOUS
  <2>1. k + 1 \in 1..n /\ (k + 1) - 1 = k /\ w[k] \in S
    BY <1>2
  <2> QED
    BY <2>1
<1> HIDE DEF T
<1>3. Nat \subseteq T
  BY <1>1, <1>2, Induct
<1> QED
  BY <1>3 DEF T
=============================================================================
