----------------------------- MODULE TaskBounds -----------------------------
(***************************************************************************)
(* How long a task can be kept waiting: Task with history variables that   *)
(* measure it. They are never read by a guard, so the behaviours are those *)
(* of Task (with the lost ticks, stutters there, made visible).            *)
(***************************************************************************)
EXTENDS Task

VARIABLES
    bypass,    \* scheduler() runs in a row that left the READY task i waiting
    asked,     \* argument of the SYS_SLEEP the sleeper i is in, else 0
    slept_at,  \* system_millis at that call, else 0
    waited     \* timer expirations since that call, up to MaxSleep, else 0

naps == <<asked, slept_at, waited>>
bvars == <<vars, bypass, naps>>

None == [i \in Slot |-> 0]

BInit ==
    /\ Init
    /\ bypass = None
    /\ asked = None
    /\ slept_at = None
    /\ waited = None

(* One run of scheduler(), after the states it looks at have been set.     *)
CountBypass ==
    bypass' = [i \in Slot |->
                 IF i \in Active /\ state'[i] = READY /\ current_task' # i
                 THEN bypass[i] + 1
                 ELSE 0]

CountExpiration ==
    waited' = [i \in Slot |-> IF state[i] = SLEEPING /\ waited[i] < MaxSleep
                              THEN waited[i] + 1
                              ELSE waited[i]]

(* What is left of h once those that are awake forget their nap.           *)
Napping(h) == [i \in Slot |-> IF state'[i] = SLEEPING THEN h[i] ELSE 0]

-----------------------------------------------------------------------------
BExpire ==
    /\ Expire
    /\ CountExpiration
    /\ UNCHANGED <<bypass, asked, slept_at>>

(* The timer expires while its interrupt still waits: nobody will see it.  *)
BLostTick ==
    /\ tick_pending
    /\ CountExpiration
    /\ UNCHANGED <<vars, bypass, asked, slept_at>>

BTick ==
    /\ k_timer1_isr
    /\ CountBypass
    /\ asked' = Napping(asked)
    /\ slept_at' = Napping(slept_at)
    /\ waited' = Napping(waited)

BSleep(n) ==
    /\ SYS_SLEEP(n)
    /\ CountBypass
    /\ asked' = [asked EXCEPT ![current_task] = n]
    /\ slept_at' = [slept_at EXCEPT ![current_task] = system_millis]
    /\ waited' = [waited EXCEPT ![current_task] = 0]

BSwitch ==
    /\ SYS_YIELD \/ SYS_EXIT
    /\ CountBypass
    /\ UNCHANGED naps

BSpawn ==
    /\ SYS_SPAWN
    /\ UNCHANGED <<bypass, naps>>

BNext ==
    \/ BExpire
    \/ BLostTick
    \/ BTick
    \/ \E n \in 0..MaxSleep : BSleep(n)
    \/ BSwitch
    \/ BSpawn

BSpec == BInit /\ [][BNext]_bvars

-----------------------------------------------------------------------------
(* Turns the search takes to reach slot i from current_idx.                *)
Dist(i) == IF i > current_idx THEN i - current_idx
                              ELSE i - current_idx + task_count

(* Round robin: scheduler() never leaves a READY task waiting more than    *)
(* task_count - 1 times in a row, although tasks wake, yield, sleep, exit  *)
(* and are created between two runs and current_idx stays where it was     *)
(* while the idle task runs (task.c:84-102).                               *)
BypassBound ==
    \A i \in Active : state[i] = READY => bypass[i] <= task_count - 1

(* The reason: a READY task that was passed over is that much closer.      *)
BypassCloser ==
    \A i \in Active : state[i] = READY => bypass[i] + Dist(i) <= task_count

(* The two clocks agree: what a sleeper still has to count down is what it *)
(* asked for less the milliseconds served since, also across the wrap of   *)
(* system_millis (task.c:204, Express-A9_timer.c:47).                      *)
SleepLedger ==
    \A i \in Slot : state[i] = SLEEPING =>
        (system_millis - slept_at[i]) % MillisMod = asked[i] - sleep_ticks[i]

(* sleep(n) lasts at least n - 1 periods of the timer: one tick of the n   *)
(* can be the one that was already under way, or already pending, when     *)
(* the task called; ticks are lost but never served twice.                 *)
NoEarlyWake ==
    [][\A i \in Slot :
          state[i] = SLEEPING /\ state'[i] = READY => waited[i] >= asked[i] - 1]_bvars
=============================================================================
