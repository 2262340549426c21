----------------------------- MODULE Processors -----------------------------
(***************************************************************************)
(* What context switching promises: every task has registers of its own.   *)
(* They change by the task's own instructions, by its own system calls     *)
(* (the return address moves past the svc, r0 takes the result at most     *)
(* once), and by nothing another task or an interrupt does.                *)
(***************************************************************************)
EXTENDS Integers

CONSTANTS Tasks, Words, PcMod, First, NONE

VARIABLES
    ctx,       \* registers of each task
    running,   \* the task executing in user mode, or NONE
    serving    \* the task whose call the kernel is executing, or NONE

Contexts == [pc : 0..(PcMod - 1), r0 : Words, rest : Words]

Init ==
    /\ ctx \in [Tasks -> Contexts]
    /\ \A t \in Tasks : ctx[t] = ctx[First]    \* k_task_init: one template
    /\ running = First
    /\ serving = NONE

Step ==
    /\ running # NONE
    /\ \E c \in Contexts : ctx' = [ctx EXCEPT ![running] = c]
    /\ UNCHANGED <<running, serving>>

Interrupt ==
    /\ running # NONE
    /\ running' = NONE
    /\ UNCHANGED <<ctx, serving>>

Call ==
    /\ running # NONE
    /\ ctx' = [ctx EXCEPT ![running].pc = (@ + 1) % PcMod]
    /\ running' = NONE
    /\ serving' = running

(* The call is over for the kernel, with or without a result.              *)
Served ==
    /\ serving # NONE
    /\ serving' = NONE
    /\ \/ \E v \in Words : ctx' = [ctx EXCEPT ![serving].r0 = v]
       \/ UNCHANGED ctx
    /\ UNCHANGED running

Resume ==
    /\ running = NONE
    /\ serving = NONE
    /\ running' \in Tasks
    /\ UNCHANGED <<ctx, serving>>

Next == Step \/ Interrupt \/ Call \/ Served \/ Resume

Spec == Init /\ [][Next]_<<ctx, running, serving>>

=============================================================================
