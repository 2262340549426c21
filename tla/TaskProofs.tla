----------------------------- MODULE TaskProofs -----------------------------
(***************************************************************************)
(* Theorems about the scheduler of Task, and about the waiting times that  *)
(* TaskBounds measures, for every number of tasks, every sleep and every   *)
(* width of system_millis.                                                 *)
(***************************************************************************)
EXTENDS TaskBounds, TLAPS

(* The search of scheduler() stays inside the used part of the table...    *)
LEMMA VisitActive ==
    ASSUME task_count \in Nat, current_idx \in Active, NEW k \in Turns
    PROVE  Visit(k) \in Active
  BY DEF Active, Turns, Visit

(* ... and reaches every slot of it.                                       *)
LEMMA VisitOnto ==
    ASSUME task_count \in Nat, current_idx \in Active, NEW i \in Active
    PROVE  \E k \in Turns : Visit(k) = i
  <1> DEFINE k == IF i > current_idx THEN i - current_idx
                                     ELSE i - current_idx + task_count
  <1>1. k \in Turns
    BY DEF Active, Turns
  <1>2. Visit(k) = i
    BY DEF Active, Visit
  <1>3. QED
    BY <1>1, <1>2

(* What scheduler() does: it picks a READY task, or idles because there is *)
(* none.                                                                   *)
LEMMA SchedulerPicks ==
    ASSUME task_count \in Nat, current_idx \in Active,
           NEW ACTION st, scheduler(st)
    PROVE  /\ current_idx' \in Active
           /\ \/ /\ current_task' \in Active
                 /\ st[current_task'] = READY
              \/ /\ current_task' = IDLE
                 /\ \A i \in Active : st[i] # READY
  <1>1. CASE \E k \in Turns : /\ st[Visit(k)] = READY
                              /\ current_idx' = Visit(k)
                              /\ current_task' = Visit(k)
    BY <1>1, VisitActive
  <1>2. CASE /\ \A k \in Turns : st[Visit(k)] # READY
             /\ current_task' = IDLE
             /\ current_idx' = current_idx
    <2>1. \A i \in Active : st[i] # READY
      BY <1>2, VisitOnto
    <2>2. QED
      BY <1>2, <2>1
  <1>3. QED
    BY <1>1, <1>2 DEF scheduler

-----------------------------------------------------------------------------
(* What the steps keep: besides the types, that the scheduler's search      *)
(* starts inside the used part of the table, without which it could pick a *)
(* slot past task_count, and that those slots are as .bss left them, so    *)
(* that SYS_SPAWN does not overwrite a task that exited.                   *)
FreeSlotsUnused == \A i \in Slot : i >= task_count => state[i] = READY

IInv ==
    /\ TypeOK
    /\ current_idx \in Active
    /\ CurrentIsRunnable
    /\ IdleOnlyWhenNoneReady
    /\ FreeSlotsUnused

LEMMA InitIInv == Init => IInv
  BY NumDefaultAssumption, MaxTasksAssumption, MaxSleepAssumption, MillisModAssumption
  DEF Init, IInv, TypeOK, Active, Slot, CurrentIsRunnable, IdleOnlyWhenNoneReady,
      FreeSlotsUnused, IDLE, READY

(* A handler that ends in scheduler() keeps the invariant, provided that   *)
(* it keeps the types of what it assigns.                                  *)
LEMMA SchedulingStep ==
    ASSUME IInv, scheduler(state'), task_count' = task_count,
           state' \in [Slot -> {READY, SLEEPING, TERMINATED}],
           sleep_ticks' \in [Slot -> 0..MaxSleep],
           start_time' = start_time,
           system_millis' \in 0..(MillisMod - 1),
           tick_pending' \in BOOLEAN,
           FreeSlotsUnused'
    PROVE  IInv'
  <1>1. /\ current_idx' \in Active
        /\ \/ current_task' \in Active /\ state'[current_task'] = READY
           \/ current_task' = IDLE /\ \A i \in Active : state'[i] # READY
    BY SchedulerPicks DEF IInv, TypeOK
  <1>2. Active \subseteq Slot /\ IDLE \notin Active
    BY MaxTasksAssumption DEF IInv, TypeOK, Active, Slot, IDLE
  <1>3. Active' = Active
    BY DEF Active
  <1>4. TypeOK'
    BY <1>1, <1>2 DEF IInv, TypeOK, Slot
  <1>5. CurrentIsRunnable' /\ IdleOnlyWhenNoneReady'
    BY <1>1, <1>2, <1>3 DEF CurrentIsRunnable, IdleOnlyWhenNoneReady
  <1>6. QED
    BY <1>1, <1>3, <1>4, <1>5 DEF IInv

LEMMA NextIInv == IInv /\ [Next]_vars => IInv'
  <1> SUFFICES ASSUME IInv, [Next]_vars PROVE IInv'
    OBVIOUS
  <1> USE DEF IInv, TypeOK
  <1>1. current_task # IDLE => current_task \in Slot
    OBVIOUS
  <1>2. CASE Expire
    BY <1>2 DEF Expire, sched, Active, CurrentIsRunnable, IdleOnlyWhenNoneReady,
             FreeSlotsUnused
  <1>3. CASE k_timer1_isr
    <2>1. state' \in [Slot -> {READY, SLEEPING, TERMINATED}]
      BY <1>3 DEF k_timer1_isr, k_tick_handler
    <2>2. sleep_ticks' \in [Slot -> 0..MaxSleep]
      BY <1>3, MaxSleepAssumption DEF k_timer1_isr, k_tick_handler, Counts
    <2>3. system_millis' \in 0..(MillisMod - 1)
      BY <1>3, MillisModAssumption, MaxSleepAssumption DEF k_timer1_isr
    <2>4. FreeSlotsUnused'
      BY <1>3 DEF k_timer1_isr, k_tick_handler, Wakes, Sleeper, Active, Slot,
                  FreeSlotsUnused
    <2>5. QED
      BY <1>3, <2>1, <2>2, <2>3, <2>4, SchedulingStep DEF k_timer1_isr
  <1>4. CASE SYS_YIELD
    <2>1. scheduler(state')
      BY <1>4 DEF SYS_YIELD, scheduler
    <2>2. FreeSlotsUnused'
      BY <1>4 DEF SYS_YIELD, FreeSlotsUnused
    <2>3. QED
      BY <1>4, <2>1, <2>2, SchedulingStep DEF SYS_YIELD
  <1>5. ASSUME NEW n \in 0..MaxSleep, SYS_SLEEP(n) PROVE IInv'
    <2>1. state' \in [Slot -> {READY, SLEEPING, TERMINATED}]
      BY <1>1, <1>5 DEF SYS_SLEEP
    <2>2. sleep_ticks' \in [Slot -> 0..MaxSleep]
      BY <1>1, <1>5 DEF SYS_SLEEP
    <2>3. FreeSlotsUnused'
      BY <1>5 DEF SYS_SLEEP, FreeSlotsUnused, CurrentIsRunnable, Active, Slot
    <2>4. QED
      BY <1>5, <2>1, <2>2, <2>3, SchedulingStep DEF SYS_SLEEP
  <1>6. CASE SYS_EXIT
    <2>1. state' \in [Slot -> {READY, SLEEPING, TERMINATED}]
      BY <1>1, <1>6 DEF SYS_EXIT
    <2>2. FreeSlotsUnused'
      BY <1>6 DEF SYS_EXIT, FreeSlotsUnused, CurrentIsRunnable, Active, Slot
    <2>3. QED
      BY <1>6, <2>1, <2>2, SchedulingStep DEF SYS_EXIT
  <1>7. CASE SYS_SPAWN
    <2>1. Active \subseteq Active' /\ current_idx' \in Active'
      BY <1>7 DEF SYS_SPAWN, sched, Active
    <2>2. TypeOK'
      BY <1>7, MaxTasksAssumption DEF SYS_SPAWN, sched, Slot
    <2>3. CurrentIsRunnable'
      BY <1>7, <2>1, MaxTasksAssumption
      DEF SYS_SPAWN, sched, CurrentIsRunnable, Active, Slot
    <2>4. IdleOnlyWhenNoneReady'
      BY <1>7 DEF SYS_SPAWN, sched, IdleOnlyWhenNoneReady
    <2>5. FreeSlotsUnused'
      BY <1>7 DEF SYS_SPAWN, FreeSlotsUnused, Slot
    <2>6. QED
      BY <2>1, <2>2, <2>3, <2>4, <2>5
  <1>8. CASE UNCHANGED vars
    BY <1>8 DEF vars, sched, Active, CurrentIsRunnable, IdleOnlyWhenNoneReady,
             FreeSlotsUnused
  <1>9. QED
    BY <1>2, <1>3, <1>4, <1>5, <1>6, <1>7, <1>8 DEF Next

LEMMA SpecIInv == Spec => []IInv
  BY InitIInv, NextIInv, PTL DEF Spec

(* Type correctness of the task table and the scheduler.                   *)
THEOREM TypeCorrect == Spec => []TypeOK
  BY SpecIInv, PTL DEF IInv

(* The processor is only given to an existing READY task.                  *)
THEOREM RunsOnlyReady == Spec => []CurrentIsRunnable
  BY SpecIInv, PTL DEF IInv

(* The idle task never runs while a task is READY.                         *)
THEOREM IdlesOnlyIfNeeded == Spec => []IdleOnlyWhenNoneReady
  BY SpecIInv, PTL DEF IInv

(* A task that exited stays TERMINATED.                                    *)
THEOREM ExitIsFinal == Spec => TerminatedForever
  <1> DEFINE Kept == \A i \in Slot : state[i] = TERMINATED => state'[i] = TERMINATED
  <1>1. IInv /\ [Next]_vars => [Kept]_vars
    <2> SUFFICES ASSUME IInv, Next, NEW i \in Slot, state[i] = TERMINATED
                 PROVE  state'[i] = TERMINATED
      BY DEF Kept
    <2> USE DEF TERMINATED, SLEEPING, READY
    <2>1. CASE Expire
      BY <2>1 DEF Expire
    <2>2. CASE k_timer1_isr
      BY <2>2 DEF k_timer1_isr, k_tick_handler, Wakes, Sleeper
    <2>3. CASE SYS_YIELD
      BY <2>3 DEF SYS_YIELD
    <2>4. ASSUME NEW n \in 0..MaxSleep, SYS_SLEEP(n) PROVE state'[i] = TERMINATED
      BY <2>4 DEF SYS_SLEEP, IInv, TypeOK, CurrentIsRunnable
    <2>5. CASE SYS_EXIT
      BY <2>5 DEF SYS_EXIT, IInv, TypeOK
    <2>6. CASE SYS_SPAWN
      BY <2>6 DEF SYS_SPAWN, IInv, FreeSlotsUnused, TypeOK, Slot
    <2>7. QED
      BY <2>1, <2>2, <2>3, <2>4, <2>5, <2>6 DEF Next
  <1>2. QED
    BY <1>1, SpecIInv, PTL DEF Spec, TerminatedForever

-----------------------------------------------------------------------------
(* The history variables restrict nothing: TaskBounds takes the steps of   *)
(* Task, and stutters when a tick is lost.                                 *)
THEOREM BoundsImplementTask == BSpec => Spec
  <1>1. BInit => Init
    BY DEF BInit
  <1>2. [BNext]_bvars => [Next]_vars
    BY DEF BNext, bvars, vars, sched, BExpire, BLostTick, BTick, BSleep, BSwitch, BSpawn,
           Next
  <1>3. QED
    BY <1>1, <1>2, PTL DEF BSpec, Spec

(* Between two slots of a ring of n there are 1 to n turns.                *)
LEMMA RingDistance ==
    ASSUME NEW n \in Nat, NEW c \in 0..(n - 1), NEW i \in 0..(n - 1)
    PROVE  (IF i > c THEN i - c ELSE i - c + n) \in 1..n
  OBVIOUS

(* A READY task that scheduler() passes over is closer in its next search. *)
LEMMA PassedOverIsCloser ==
    ASSUME task_count \in Nat, current_idx \in Active, task_count' = task_count,
           NEW ACTION st, scheduler(st),
           NEW i \in Active, st[i] = READY, current_task' # i
    PROVE  Dist(i)' \in Nat /\ Dist(i)' < Dist(i)
  <1> DEFINE d == Dist(i)
  <1>1. d \in Turns /\ Visit(d) = i
    BY DEF Active, Dist, Turns, Visit
  <1>2. PICK k \in Turns : /\ \A j \in 1..(k - 1) : st[Visit(j)] # READY
                           /\ current_idx' = Visit(k)
                           /\ current_task' = Visit(k)
    BY <1>1 DEF scheduler
  <1>3. k < d
    <2>1. d \notin 1..(k - 1)
      BY <1>1, <1>2
    <2>2. d # k
      BY <1>1, <1>2
    <2>3. QED
      BY <1>1, <2>1, <2>2 DEF Turns
  <1>4. Dist(i)' = d - k
    BY <1>1, <1>2, <1>3 DEF Dist, Visit, Turns, Active
  <1>5. QED
    BY <1>1, <1>3, <1>4 DEF Turns

(* The inductive invariant behind BypassBound.                             *)
BypassInv ==
    /\ IInv
    /\ bypass \in [Slot -> Nat]
    /\ BypassCloser
    /\ \A i \in Slot : (i \in Active /\ state[i] = READY) \/ bypass[i] = 0

(* Steps that end in scheduler() and count what it passed over.            *)
LEMMA CountingStep ==
    ASSUME BypassInv, IInv', CountBypass, scheduler(state'),
           task_count' = task_count
    PROVE  BypassInv'
  <1> USE DEF BypassInv
  <1>1. /\ task_count \in Nat
        /\ current_idx \in Active /\ current_idx' \in Active
        /\ Active' = Active /\ Active \subseteq Slot
    BY MaxTasksAssumption DEF IInv, TypeOK, Active, Slot
  <1>2. bypass' \in [Slot -> Nat]
    BY DEF CountBypass
  <1>3. BypassCloser'
    <2> SUFFICES ASSUME NEW i \in Active, state'[i] = READY
                 PROVE  bypass'[i] + Dist(i)' <= task_count
      BY <1>1 DEF BypassCloser
    <2>1. Dist(i) \in 1..task_count
      BY <1>1, RingDistance DEF Dist, Active
    <2>2. Dist(i)' \in 1..task_count
      <3>1. current_idx' \in 0..(task_count - 1) /\ i \in 0..(task_count - 1)
        BY <1>1 DEF Active
      <3>2. QED
        BY <1>1, <3>1, RingDistance DEF Dist
    <2>3. CASE current_task' = i
      BY <1>1, <2>2, <2>3 DEF CountBypass
    <2>4. CASE current_task' # i
      <3>1. Dist(i)' < Dist(i)
        BY <1>1, <2>4, PassedOverIsCloser
      <3>2. bypass'[i] = bypass[i] + 1
        BY <1>1, <2>4 DEF CountBypass
      <3>3. bypass[i] + Dist(i) <= task_count /\ bypass[i] \in Nat
        BY <1>1, <2>1 DEF BypassCloser
      <3>4. QED
        BY <1>1, <2>1, <2>2, <3>1, <3>2, <3>3
    <2>5. QED
      BY <2>3, <2>4
  <1>4. \A i \in Slot : (i \in Active' /\ state'[i] = READY) \/ bypass'[i] = 0
    BY <1>1 DEF CountBypass
  <1>5. QED
    BY <1>2, <1>3, <1>4

LEMMA BypassInvInit == BInit => BypassInv
  <1> SUFFICES ASSUME BInit PROVE BypassInv
    OBVIOUS
  <1>1. IInv
    BY InitIInv DEF BInit
  <1>2. bypass = [i \in Slot |-> 0]
    BY DEF BInit, None
  <1>3. Active \subseteq Slot /\ current_idx \in Active /\ task_count \in Nat
    BY <1>1, MaxTasksAssumption DEF IInv, TypeOK, Active, Slot
  <1>4. \A i \in Active : bypass[i] = 0 /\ Dist(i) <= task_count
    BY <1>2, <1>3 DEF Dist, Active
  <1>5. BypassCloser
    BY <1>3, <1>4 DEF BypassCloser, Dist, Active
  <1>6. QED
    BY <1>1, <1>2, <1>5 DEF BypassInv

LEMMA BypassInvNext == BypassInv /\ [BNext]_bvars => BypassInv'
  <1> SUFFICES ASSUME BypassInv, [BNext]_bvars PROVE BypassInv'
    OBVIOUS
  <1>1. IInv'
    <2>1. [Next]_vars
      BY DEF BNext, bvars, vars, sched, BExpire, BLostTick, BTick, BSleep, BSwitch,
             BSpawn, Next
    <2>2. QED
      BY <2>1, NextIInv DEF BypassInv
  <1>2. CASE BExpire \/ BLostTick \/ UNCHANGED bvars
    BY <1>1, <1>2 DEF BExpire, BLostTick, Expire, bvars, vars, sched, BypassInv,
                      BypassCloser, Dist, Active
  <1>3. CASE BTick
    BY <1>1, <1>3, CountingStep DEF BTick, k_timer1_isr
  <1>4. ASSUME NEW n \in 0..MaxSleep, BSleep(n) PROVE BypassInv'
    BY <1>1, <1>4, CountingStep DEF BSleep, SYS_SLEEP
  <1>5. CASE BSwitch
    <2>1. scheduler(state') /\ task_count' = task_count
      BY <1>5 DEF BSwitch, SYS_YIELD, SYS_EXIT, scheduler
    <2>2. QED
      BY <1>1, <1>5, <2>1, CountingStep DEF BSwitch
  <1>6. CASE BSpawn
    <2> USE DEF BypassInv
    <2>1. /\ task_count \in Nat /\ current_idx \in Active
          /\ task_count' = task_count + 1 /\ current_idx' = current_idx
          /\ bypass' = bypass
          /\ Active \subseteq Slot /\ task_count \in Slot
      BY <1>6, MaxTasksAssumption
      DEF BSpawn, SYS_SPAWN, sched, IInv, TypeOK, Active, Slot
    <2>2. \A i \in Slot : state'[i] = IF i = task_count THEN READY ELSE state[i]
      BY <1>6, <2>1 DEF BSpawn, SYS_SPAWN, IInv, TypeOK
    <2>3. Active' = Active \cup {task_count} /\ task_count \notin Active
      BY <2>1 DEF Active
    <2>4. \A i \in Active : Dist(i)' <= Dist(i) + 1
      BY <2>1 DEF Dist, Active
    <2>5. BypassCloser'
      <3> SUFFICES ASSUME NEW i \in Active', state'[i] = READY
                   PROVE  bypass'[i] + Dist(i)' <= task_count'
        BY DEF BypassCloser
      <3>1. Dist(i) \in Int /\ Dist(i)' \in Int
        BY <2>1, <2>3 DEF Dist, Active
      <3>2. CASE i = task_count
        BY <2>1, <2>3, <3>1, <3>2 DEF Dist, Active
      <3>3. CASE i \in Active
        <4>1. bypass[i] + Dist(i) <= task_count /\ bypass[i] \in Nat
          BY <2>1, <2>2, <2>3, <3>3 DEF BypassCloser
        <4>2. QED
          BY <2>1, <2>4, <3>1, <3>3, <4>1
      <3>4. QED
        BY <2>3, <3>2, <3>3
    <2>6. \A i \in Slot : (i \in Active' /\ state'[i] = READY) \/ bypass'[i] = 0
      BY <2>1, <2>2, <2>3
    <2>7. QED
      BY <1>1, <2>1, <2>5, <2>6
  <1>7. QED
    BY <1>2, <1>3, <1>4, <1>5, <1>6 DEF BNext

(* Round robin bound: no READY task is passed over more than               *)
(* task_count - 1 times in a row.                                          *)
THEOREM BoundedBypass == BSpec => []BypassBound
  <1>1. BypassInv => BypassBound
    <2> SUFFICES ASSUME BypassInv, NEW i \in Active, state[i] = READY
                 PROVE  bypass[i] <= task_count - 1
      BY DEF BypassBound
    <2>1. /\ task_count \in Nat /\ current_idx \in Active
          /\ Active \subseteq Slot
      BY MaxTasksAssumption DEF BypassInv, IInv, TypeOK, Active, Slot
    <2>2. Dist(i) \in Int /\ Dist(i) >= 1
      BY <2>1 DEF Dist, Active
    <2>3. bypass[i] \in Nat /\ bypass[i] + Dist(i) <= task_count
      BY <2>1 DEF BypassInv, BypassCloser
    <2>4. QED
      BY <2>1, <2>2, <2>3
  <1>2. QED
    BY <1>1, BypassInvInit, BypassInvNext, PTL DEF BSpec

-----------------------------------------------------------------------------
(* The inductive invariant behind NoEarlyWake: the ticks served since a    *)
(* sleeper called are at most the expirations since then plus the one that *)
(* may have been pending, and one that is pending now was not served yet.  *)
Pending == IF tick_pending THEN 1 ELSE 0

NapInv ==
    /\ IInv
    /\ asked \in [Slot -> 0..MaxSleep]
    /\ waited \in [Slot -> 0..MaxSleep]
    /\ \A i \in Slot : state[i] = SLEEPING =>
          asked[i] - sleep_ticks[i] + Pending <= waited[i] + 1

LEMMA NapInvInit == BInit => NapInv
  <1> SUFFICES ASSUME BInit PROVE NapInv
    OBVIOUS
  <1>1. IInv
    BY InitIInv DEF BInit
  <1>2. asked \in [Slot -> 0..MaxSleep] /\ waited \in [Slot -> 0..MaxSleep]
    BY MaxSleepAssumption DEF BInit, None
  <1>3. \A i \in Slot : state[i] # SLEEPING
    BY DEF BInit, Init, READY, SLEEPING
  <1>4. QED
    BY <1>1, <1>2, <1>3 DEF NapInv

LEMMA NapInvNext == NapInv /\ [BNext]_bvars => NapInv'
  <1> SUFFICES ASSUME NapInv, [BNext]_bvars PROVE NapInv'
    OBVIOUS
  <1> USE MaxSleepAssumption
  <1>1. IInv'
    <2>1. [Next]_vars
      BY DEF BNext, bvars, vars, sched, BExpire, BLostTick, BTick, BSleep, BSwitch,
             BSpawn, Next
    <2>2. QED
      BY <2>1, NextIInv DEF NapInv
  <1>2. \A i \in Slot : /\ sleep_ticks[i] \in 0..MaxSleep /\ asked[i] \in 0..MaxSleep
                        /\ waited[i] \in 0..MaxSleep
    BY DEF NapInv, IInv, TypeOK
  <1>3. CASE BExpire \/ BLostTick
    <2>1. /\ asked' = asked /\ sleep_ticks' = sleep_ticks /\ state' = state
          /\ CountExpiration /\ Pending' = 1
      BY <1>3 DEF BExpire, BLostTick, Expire, vars, Pending
    <2>2. waited' \in [Slot -> 0..MaxSleep]
      BY <1>2, <2>1 DEF CountExpiration
    <2>3. ASSUME NEW i \in Slot, state[i] = SLEEPING
          PROVE  asked[i] - sleep_ticks[i] + 1 <= waited'[i] + 1
      <3>1. asked[i] - sleep_ticks[i] + Pending <= waited[i] + 1
        BY <2>3 DEF NapInv
      <3>2. waited'[i] = IF waited[i] < MaxSleep THEN waited[i] + 1 ELSE waited[i]
        BY <2>1, <2>3 DEF CountExpiration
      <3>3. QED
        BY <1>2, <3>1, <3>2 DEF Pending
    <2>4. QED
      BY <1>1, <2>1, <2>2, <2>3 DEF NapInv
  <1>4. CASE BTick
    <2>1. /\ asked' = [i \in Slot |-> IF state'[i] = SLEEPING THEN asked[i] ELSE 0]
          /\ waited' = [i \in Slot |-> IF state'[i] = SLEEPING THEN waited[i] ELSE 0]
          /\ tick_pending /\ Pending = 1 /\ Pending' = 0 /\ k_tick_handler
      BY <1>4 DEF BTick, k_timer1_isr, Napping, Pending
    <2>2. /\ asked' \in [Slot -> 0..MaxSleep]
          /\ waited' \in [Slot -> 0..MaxSleep]
      BY <1>2, <2>1
    <2>3. ASSUME NEW i \in Slot, state'[i] = SLEEPING
          PROVE  asked'[i] - sleep_ticks'[i] + Pending' <= waited'[i] + 1
      <3>1. state[i] = SLEEPING
        BY <2>1, <2>3 DEF k_tick_handler, READY, SLEEPING
      <3>2. sleep_ticks'[i] >= sleep_ticks[i] - 1 /\ sleep_ticks'[i] \in Int
        BY <1>2, <2>1 DEF k_tick_handler
      <3>3. asked[i] - sleep_ticks[i] + 1 <= waited[i] + 1
        BY <2>1, <3>1 DEF NapInv
      <3>4. QED
        BY <1>2, <2>1, <2>3, <3>2, <3>3
    <2>4. QED
      BY <1>1, <2>2, <2>3 DEF NapInv
  <1>5. ASSUME NEW n \in 0..MaxSleep, BSleep(n) PROVE NapInv'
    <2>1. current_task \in Slot
      BY <1>5 DEF BSleep, SYS_SLEEP, NapInv, IInv, TypeOK
    <2>2. asked' \in [Slot -> 0..MaxSleep] /\ waited' \in [Slot -> 0..MaxSleep]
      BY <1>5, <2>1 DEF BSleep, NapInv
    <2>3. ASSUME NEW i \in Slot, state'[i] = SLEEPING
          PROVE  asked'[i] - sleep_ticks'[i] + Pending' <= waited'[i] + 1
      <3>1. Pending' = Pending /\ Pending \in 0..1
        BY <1>5 DEF BSleep, SYS_SLEEP, Pending
      <3>2. CASE i = current_task
        <4>1. asked'[i] = n /\ sleep_ticks'[i] = n /\ waited'[i] = 0
          BY <1>5, <2>1, <3>2 DEF BSleep, SYS_SLEEP, NapInv, IInv, TypeOK
        <4>2. QED
          BY <3>1, <4>1
      <3>3. CASE i # current_task
        <4>1. /\ asked'[i] = asked[i] /\ sleep_ticks'[i] = sleep_ticks[i]
              /\ waited'[i] = waited[i] /\ state[i] = SLEEPING
          BY <1>5, <2>1, <2>3, <3>3 DEF BSleep, SYS_SLEEP, NapInv, IInv, TypeOK
        <4>2. QED
          BY <3>1, <4>1 DEF NapInv
      <3>4. QED
        BY <3>2, <3>3
    <2>4. QED
      BY <1>1, <2>2, <2>3 DEF NapInv
  <1>6. CASE BSwitch \/ BSpawn \/ UNCHANGED bvars
    <2>1. /\ asked' = asked /\ waited' = waited /\ sleep_ticks' = sleep_ticks
          /\ Pending' = Pending
      BY <1>6 DEF BSwitch, BSpawn, SYS_YIELD, SYS_EXIT, SYS_SPAWN, naps, bvars, vars,
                  Pending
    <2>2. \A i \in Slot : state'[i] = SLEEPING => state[i] = SLEEPING
      BY <1>6 DEF BSwitch, BSpawn, SYS_YIELD, SYS_EXIT, SYS_SPAWN, bvars, vars,
                  NapInv, IInv, TypeOK, READY, SLEEPING, TERMINATED
    <2>3. QED
      BY <1>1, <2>1, <2>2 DEF NapInv
  <1>7. QED
    BY <1>3, <1>4, <1>5, <1>6 DEF BNext

(* A sleeper of n ticks is woken after at least n - 1 timer periods.       *)
THEOREM SleepsLongEnough == BSpec => NoEarlyWake
  <1> DEFINE Woken(i) == state[i] = SLEEPING /\ state'[i] = READY
             Late == \A i \in Slot : Woken(i) => waited[i] >= asked[i] - 1
  <1>1. NapInv /\ [BNext]_bvars => [Late]_bvars
    <2> SUFFICES ASSUME NapInv, BNext, NEW i \in Slot, Woken(i)
                 PROVE  waited[i] >= asked[i] - 1
      OBVIOUS
    <2>1. /\ sleep_ticks[i] \in 0..MaxSleep /\ asked[i] \in 0..MaxSleep
          /\ waited[i] \in 0..MaxSleep
          /\ asked[i] - sleep_ticks[i] + Pending <= waited[i] + 1
      BY DEF NapInv, IInv, TypeOK
    <2>2. CASE BTick
      <3>1. Pending = 1 /\ sleep_ticks[i] <= 1
        BY <2>2 DEF BTick, k_timer1_isr, k_tick_handler, Wakes, Pending, READY, SLEEPING
      <3>2. QED
        BY <2>1, <3>1, MaxSleepAssumption
    <2>3. CASE BExpire \/ BLostTick
      BY <2>3 DEF BExpire, BLostTick, Expire, vars, READY, SLEEPING
    <2>4. ASSUME NEW n \in 0..MaxSleep, BSleep(n) PROVE FALSE
      BY <2>4 DEF BSleep, SYS_SLEEP, NapInv, IInv, TypeOK, READY, SLEEPING
    <2>5. CASE BSwitch
      BY <2>5 DEF BSwitch, SYS_YIELD, SYS_EXIT, NapInv, IInv, TypeOK, READY, SLEEPING,
                  TERMINATED
    <2>6. CASE BSpawn
      <3>1. i < task_count
        BY DEF NapInv, IInv, TypeOK, FreeSlotsUnused, Slot, READY, SLEEPING
      <3>2. QED
        BY <2>6, <3>1 DEF BSpawn, SYS_SPAWN, NapInv, IInv, TypeOK, Slot, READY, SLEEPING
    <2>7. QED
      BY <2>2, <2>3, <2>4, <2>5, <2>6 DEF BNext
  <1>2. QED
    BY <1>1, NapInvInit, NapInvNext, PTL DEF BSpec, NoEarlyWake

-----------------------------------------------------------------------------
(* Arithmetic of a counter that wraps at m.                                *)
LEMMA WrapLemma ==
    ASSUME NEW m \in Nat, NEW x \in 0..(m - 1)
    PROVE  /\ x % m = x
           /\ (x - m) % m = x
           /\ (x + 1) % m = IF x = m - 1 THEN 0 ELSE x + 1
  OBVIOUS

(* The inductive form of SleepLedger, without %: system_millis is what it  *)
(* was plus the ticks served, wrapped at most once because a sleep is      *)
(* shorter than MillisMod.                                                 *)
Advanced(t, n) == system_millis = t + n \/ system_millis = t + n - MillisMod

LedgerInv ==
    /\ IInv
    /\ asked \in [Slot -> 0..MaxSleep]
    /\ slept_at \in [Slot -> 0..(MillisMod - 1)]
    /\ \A i \in Slot : state[i] = SLEEPING =>
          /\ sleep_ticks[i] <= asked[i]
          /\ Advanced(slept_at[i], asked[i] - sleep_ticks[i])

LEMMA LedgerInvInit == BInit => LedgerInv
  <1> SUFFICES ASSUME BInit PROVE LedgerInv
    OBVIOUS
  <1>1. IInv
    BY InitIInv DEF BInit
  <1>2. asked \in [Slot -> 0..MaxSleep] /\ slept_at \in [Slot -> 0..(MillisMod - 1)]
    BY MaxSleepAssumption, MillisModAssumption DEF BInit, None
  <1>3. \A i \in Slot : state[i] # SLEEPING
    BY DEF BInit, Init, READY, SLEEPING
  <1>4. QED
    BY <1>1, <1>2, <1>3 DEF LedgerInv

LEMMA LedgerInvNext == LedgerInv /\ [BNext]_bvars => LedgerInv'
  <1> SUFFICES ASSUME LedgerInv, [BNext]_bvars PROVE LedgerInv'
    OBVIOUS
  <1> USE MaxSleepAssumption, MillisModAssumption
  <1>1. IInv'
    <2>1. [Next]_vars
      BY DEF BNext, bvars, vars, sched, BExpire, BLostTick, BTick, BSleep, BSwitch,
             BSpawn, Next
    <2>2. QED
      BY <2>1, NextIInv DEF LedgerInv
  <1>2. /\ system_millis \in 0..(MillisMod - 1)
        /\ \A i \in Slot : /\ sleep_ticks[i] \in 0..MaxSleep
                           /\ asked[i] \in 0..MaxSleep
                           /\ slept_at[i] \in 0..(MillisMod - 1)
    BY DEF LedgerInv, IInv, TypeOK
  <1>3. CASE BTick
    <2>1. /\ asked' = [i \in Slot |-> IF state'[i] = SLEEPING THEN asked[i] ELSE 0]
          /\ slept_at' = [i \in Slot |-> IF state'[i] = SLEEPING THEN slept_at[i] ELSE 0]
          /\ k_tick_handler /\ system_millis' = (system_millis + 1) % MillisMod
      BY <1>3 DEF BTick, k_timer1_isr, Napping
    <2>2. /\ asked' \in [Slot -> 0..MaxSleep]
          /\ slept_at' \in [Slot -> 0..(MillisMod - 1)]
      BY <1>2, <2>1
    <2>3. ASSUME NEW i \in Slot, state'[i] = SLEEPING
          PROVE  /\ sleep_ticks'[i] <= asked'[i]
                 /\ Advanced(slept_at[i], asked[i] - sleep_ticks[i])'
      <3>1. Sleeper(i) /\ sleep_ticks[i] > 1
        <4>1. state[i] = SLEEPING /\ ~Wakes(i)
          BY <2>1, <2>3 DEF k_tick_handler, READY, SLEEPING
        <4>2. i \in Active
          BY <4>1 DEF LedgerInv, IInv, TypeOK, FreeSlotsUnused, Active, Slot, READY,
                      SLEEPING
        <4>3. QED
          BY <1>2, <4>1, <4>2 DEF Sleeper, Wakes
      <3>2. sleep_ticks'[i] = sleep_ticks[i] - 1
        BY <1>2, <2>1, <3>1 DEF k_tick_handler, Counts
      <3>3. asked'[i] = asked[i] /\ slept_at'[i] = slept_at[i]
        BY <2>1, <2>3
      <3>4. /\ sleep_ticks[i] <= asked[i]
            /\ Advanced(slept_at[i], asked[i] - sleep_ticks[i])
        BY <3>1 DEF LedgerInv, Sleeper
      <3>5. system_millis' = IF system_millis = MillisMod - 1 THEN 0
                                                            ELSE system_millis + 1
        BY <1>2, <2>1, WrapLemma
      <3>6. QED
        BY <1>2, <3>2, <3>3, <3>4, <3>5 DEF Advanced
    <2>4. QED
      BY <1>1, <2>2, <2>3 DEF LedgerInv, Advanced
  <1>4. ASSUME NEW n \in 0..MaxSleep, BSleep(n) PROVE LedgerInv'
    <2>1. current_task \in Slot /\ system_millis' = system_millis
      BY <1>4 DEF BSleep, SYS_SLEEP, LedgerInv, IInv, TypeOK
    <2>2. /\ asked' \in [Slot -> 0..MaxSleep]
          /\ slept_at' \in [Slot -> 0..(MillisMod - 1)]
      BY <1>2, <1>4, <2>1 DEF BSleep, LedgerInv
    <2>3. ASSUME NEW i \in Slot, state'[i] = SLEEPING
          PROVE  /\ sleep_ticks'[i] <= asked'[i]
                 /\ Advanced(slept_at'[i], asked'[i] - sleep_ticks'[i])
      <3>1. CASE i = current_task
        <4>1. /\ asked'[i] = n /\ sleep_ticks'[i] = n
              /\ slept_at'[i] = system_millis
          BY <1>4, <2>1, <3>1 DEF BSleep, SYS_SLEEP, LedgerInv, IInv, TypeOK
        <4>2. QED
          BY <1>2, <4>1 DEF Advanced
      <3>2. CASE i # current_task
        <4>1. /\ asked'[i] = asked[i] /\ sleep_ticks'[i] = sleep_ticks[i]
              /\ slept_at'[i] = slept_at[i] /\ state[i] = SLEEPING
          BY <1>4, <2>1, <2>3, <3>2 DEF BSleep, SYS_SLEEP, LedgerInv, IInv, TypeOK
        <4>2. QED
          BY <4>1 DEF LedgerInv
      <3>3. QED
        BY <3>1, <3>2
    <2>4. QED
      BY <1>1, <2>1, <2>2, <2>3 DEF LedgerInv, Advanced
  <1>5. CASE BExpire \/ BLostTick \/ BSwitch \/ BSpawn \/ UNCHANGED bvars
    <2>1. /\ asked' = asked /\ slept_at' = slept_at /\ sleep_ticks' = sleep_ticks
          /\ system_millis' = system_millis
      BY <1>5 DEF BExpire, Expire, BLostTick, BSwitch, BSpawn, SYS_YIELD, SYS_EXIT,
                  SYS_SPAWN, naps, bvars, vars
    <2>2. \A i \in Slot : state'[i] = SLEEPING => state[i] = SLEEPING
      BY <1>5 DEF BExpire, Expire, BLostTick, BSwitch, BSpawn, SYS_YIELD, SYS_EXIT,
                  SYS_SPAWN, bvars, vars, LedgerInv, IInv, TypeOK, READY, SLEEPING,
                  TERMINATED
    <2>3. QED
      BY <1>1, <2>1, <2>2 DEF LedgerInv, Advanced
  <1>6. QED
    BY <1>3, <1>4, <1>5 DEF BNext

(* sleep_ticks and system_millis agree, also when system_millis wraps.     *)
THEOREM ClocksAgree == BSpec => []SleepLedger
  <1>1. LedgerInv => SleepLedger
    <2> SUFFICES ASSUME LedgerInv, NEW i \in Slot, state[i] = SLEEPING
                 PROVE  (system_millis - slept_at[i]) % MillisMod
                          = asked[i] - sleep_ticks[i]
      BY DEF SleepLedger
    <2> DEFINE n == asked[i] - sleep_ticks[i]
    <2>1. /\ system_millis \in Int /\ slept_at[i] \in Int
          /\ n \in 0..(MillisMod - 1) /\ Advanced(slept_at[i], n)
      BY MaxSleepAssumption, MillisModAssumption DEF LedgerInv, IInv, TypeOK
    <2>2. system_millis - slept_at[i] = n \/ system_millis - slept_at[i] = n - MillisMod
      BY <2>1, MillisModAssumption DEF Advanced
    <2>3. QED
      BY <2>1, <2>2, WrapLemma, MillisModAssumption
  <1>2. QED
    BY <1>1, LedgerInvInit, LedgerInvNext, PTL DEF BSpec
=============================================================================
