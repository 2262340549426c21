-------------------------------- MODULE Task --------------------------------
(***************************************************************************)
(* The multitasking core of ZephOS: the task table, the round-robin        *)
(* scheduler, the 1 ms tick and the system calls that change the state of  *)
(* a task (core/task.c, core/syscall.c, the timer ISR of                   *)
(* drivers/Express-A9/Express-A9_timer.c).                                 *)
(*                                                                         *)
(* One core; the kernel runs with IRQs masked from its entry (svc.s:27,    *)
(* irq.s:4) to the end of every handler below, so each handler is a step.  *)
(* A task is its index in task_table; its id is the index + 1.             *)
(***************************************************************************)
EXTENDS Integers

CONSTANTS
    MaxTasks,     \* MAX_TASKS: slots of task_table
    NumDefault,   \* tasks main() creates before the first one starts
    MaxSleep,     \* bound: largest argument of SYS_SLEEP considered
    MillisMod     \* number of values of system_millis (2^32 in the code)

ASSUME MaxTasksAssumption == MaxTasks \in Nat
ASSUME NumDefaultAssumption == NumDefault \in 1..MaxTasks
ASSUME MaxSleepAssumption == MaxSleep \in Nat
ASSUME MillisModAssumption == MillisMod \in Nat /\ MillisMod > MaxSleep

VARIABLES
    task_count,     \* slots in use; the others are zeroed .bss
    state,          \* task_table[i].state
    sleep_ticks,    \* task_table[i].sleep_ticks
    start_time,     \* task_table[i].start_time
    system_millis,  \* ticks served, as a uint32_t
    current_idx,    \* the scheduler's static: slot chosen last
    current_task,   \* slot current_task points to, or IDLE
    tick_pending    \* SP804 timer 1 raised its interrupt, not yet served

sched == <<current_idx, current_task>>
vars == <<task_count, state, sleep_ticks, start_time, system_millis, sched,
          tick_pending>>

Slot == 0..(MaxTasks - 1)
Active == 0..(task_count - 1)     \* slots holding a task

IDLE == -1                        \* current_task = &idle_task_tcb
READY == "TASK_READY"             \* 0, so what .bss says of a free slot
SLEEPING == "TASK_SLEEPING"
TERMINATED == "TASK_TERMINATED"   \* nothing ever sets TASK_WAITING_IO

(***************************************************************************)
(* After main(): the default tasks are READY, task 0 is running, and the   *)
(* timer, armed before the tasks were created, may already be pending.     *)
(***************************************************************************)
Init ==
    /\ task_count = NumDefault
    /\ state = [i \in Slot |-> READY]
    /\ sleep_ticks = [i \in Slot |-> 0]
    /\ start_time = [i \in Slot |-> 0]
    /\ system_millis = 0
    /\ current_idx = 0
    /\ current_task = 0
    /\ tick_pending \in BOOLEAN

-----------------------------------------------------------------------------
(* The search of scheduler(): which slot its k-th turn examines, and how   *)
(* many turns it has. The operators named X_... are mistakes one could     *)
(* make in X: PROJECT.json names the property that notices each.           *)
Visit_WrapsLate(k) ==      \* `>` for `>=` in task.c:90
    IF current_idx + k <= task_count THEN current_idx + k
                                     ELSE current_idx + k - task_count
Visit_FromZero(k) == k - 1 \* search_idx = -1 in task.c:85

Visit(k) == IF current_idx + k < task_count
            THEN current_idx + k
            ELSE current_idx + k - task_count

Turns_OneShort == 1..(task_count - 1)   \* current_idx itself is left out
Turns == 1..task_count

(* scheduler() over the task states st: the first READY slot after         *)
(* current_idx in cyclic order, current_idx itself last; else the idle     *)
(* task, and current_idx keeps its value.                                  *)
scheduler(st) ==
    \/ \E k \in Turns :
          /\ st[Visit(k)] = READY
          /\ \A j \in 1..(k - 1) : st[Visit(j)] # READY
          /\ current_idx' = Visit(k)
          /\ current_task' = Visit(k)
    \/ /\ \A k \in Turns : st[Visit(k)] # READY
       /\ current_task' = IDLE
       /\ UNCHANGED current_idx

(* k_tick_handler(): a sleeper counts down to zero and, at zero, is READY. *)
Sleeper_AnyState(i) == i \in Active     \* no test of TASK_SLEEPING
Sleeper_OneShort(i) == i < task_count - 1 /\ state[i] = SLEEPING
Sleeper(i) == i \in Active /\ state[i] = SLEEPING

Counts_Wrapping(i) == Sleeper(i)        \* no test of sleep_ticks > 0
Counts(i) == Sleeper(i) /\ sleep_ticks[i] > 0

Wakes_IfCounted(i) == Sleeper(i) /\ sleep_ticks[i] = 1   \* sleep(0) left out
Wakes_OneEarly(i) == Sleeper(i) /\ sleep_ticks[i] <= 2
Wakes(i) == Sleeper(i) /\ sleep_ticks[i] <= 1

k_tick_handler ==
    /\ sleep_ticks' = [i \in Slot |-> IF Counts(i) THEN sleep_ticks[i] - 1
                                                   ELSE sleep_ticks[i]]
    /\ state' = [i \in Slot |-> IF Wakes(i) THEN READY ELSE state[i]]

-----------------------------------------------------------------------------
(* The periodic SP804 timer reaches zero. One that is still pending is     *)
(* not counted twice: the tick is lost.                                    *)
Expire ==
    /\ ~tick_pending
    /\ tick_pending' = TRUE
    /\ UNCHANGED <<task_count, state, sleep_ticks, start_time, system_millis,
                   sched>>

(* k_timer1_isr(), whatever task (or the idle one) it interrupts.          *)
k_timer1_isr ==
    /\ tick_pending
    /\ tick_pending' = FALSE
    /\ system_millis' = (system_millis + 1) % MillisMod
    /\ k_tick_handler
    /\ scheduler(state')
    /\ UNCHANGED <<task_count, start_time>>

(* System calls of the running task. The idle task makes none: it loops on *)
(* wfi.                                                                    *)
SYS_YIELD ==
    /\ current_task # IDLE
    /\ scheduler(state)
    /\ UNCHANGED <<task_count, state, sleep_ticks, start_time, system_millis,
                   tick_pending>>

SYS_SLEEP(n) ==
    /\ current_task # IDLE
    /\ sleep_ticks' = [sleep_ticks EXCEPT ![current_task] = n]
    /\ state' = [state EXCEPT ![current_task] = SLEEPING]
    /\ scheduler(state')
    /\ UNCHANGED <<task_count, start_time, system_millis, tick_pending>>

SYS_EXIT ==
    /\ current_task # IDLE
    /\ state' = [state EXCEPT ![current_task] = TERMINATED]
    /\ scheduler(state')
    /\ UNCHANGED <<task_count, sleep_ticks, start_time, system_millis,
                   tick_pending>>

(* k_task_create() when a slot and a stack are found; when they are not it *)
(* returns -1 or -2 and the state is as it was. The slot of a task that    *)
(* ended is never used again.                                              *)
SYS_SPAWN ==
    /\ current_task # IDLE
    /\ task_count < MaxTasks
    /\ state' = [state EXCEPT ![task_count] = READY]
    /\ start_time' = [start_time EXCEPT ![task_count] = system_millis]
    /\ task_count' = task_count + 1
    /\ UNCHANGED <<sleep_ticks, system_millis, sched, tick_pending>>

Next ==
    \/ Expire
    \/ k_timer1_isr
    \/ SYS_YIELD
    \/ \E n \in 0..MaxSleep : SYS_SLEEP(n)
    \/ SYS_EXIT
    \/ SYS_SPAWN

(* Only the hardware is fair: the timer keeps expiring, and user code runs *)
(* with IRQs enabled, so a pending interrupt is taken. No task is assumed  *)
(* to yield, sleep or exit.                                                *)
Fairness == WF_vars(Expire) /\ WF_vars(k_timer1_isr)

Spec == Init /\ [][Next]_vars
FairSpec == Spec /\ Fairness

-----------------------------------------------------------------------------
(* Every variable has its C type.                                          *)
TypeOK ==
    /\ task_count \in 1..MaxTasks
    /\ state \in [Slot -> {READY, SLEEPING, TERMINATED}]
    /\ sleep_ticks \in [Slot -> 0..MaxSleep]
    /\ start_time \in [Slot -> 0..(MillisMod - 1)]
    /\ system_millis \in 0..(MillisMod - 1)
    /\ current_idx \in Slot
    /\ current_task \in Slot \cup {IDLE}
    /\ tick_pending \in BOOLEAN

(* The processor is only ever given to a task that exists and is READY:    *)
(* never to a sleeper, to a task that exited, or to one of the zeroed      *)
(* slots past task_count, which read as READY but have no stack.           *)
CurrentIsRunnable ==
    current_task # IDLE => current_task \in Active /\ state[current_task] = READY

(* The idle task runs only when no task is READY: a tick that wakes a      *)
(* sleeper leaves idle in the same interrupt (task.c:100-102).             *)
IdleOnlyWhenNoneReady ==
    current_task = IDLE => \A i \in Active : state[i] # READY

(* A task that called SYS_EXIT never leaves TASK_TERMINATED: the tick does *)
(* not wake it, whatever its sleep_ticks, and SYS_SPAWN never recycles it. *)
TerminatedForever ==
    [][\A i \in Slot : state[i] = TERMINATED => state'[i] = TERMINATED]_vars

(* A READY task gets the processor, even if no other task ever gives it up *)
(* voluntarily and whatever tasks are created meanwhile.                   *)
NoStarvation ==
    \A i \in Slot :
        (i \in Active /\ state[i] = READY) ~> (current_task = i)

(* A task that sleeps is made READY again, sleep(0) included.              *)
SleepersWake ==
    \A i \in Slot : (state[i] = SLEEPING) ~> (state[i] = READY)

=============================================================================
