------------------------------ MODULE Context ------------------------------
(***************************************************************************)
(* How the processor is taken from one task and given to another: the      *)
(* register save and restore of arch/Arm/svc.s and arch/Arm/irq.s, the     *)
(* first frame k_task_init() builds, and what k_svc_dispatcher() does to   *)
(* the frame of its caller.                                                *)
(*                                                                         *)
(* A frame is the 16 words pushed at an entry, here pc, r0, the rest       *)
(* (r1-r12 and lr, moved verbatim) and the CPSR flags; a stack pointer is  *)
(* a pair <<owner of the stack, frames on it>>. Which task scheduler()     *)
(* picks is module Task's subject: here, any that was created. The calls   *)
(* that end with IRQs enabled are left to module ContextUnmasked.          *)
(***************************************************************************)
EXTENDS Integers

CONSTANTS
    Tasks,      \* those that can exist, the idle one included
    Boot,       \* those main() creates
    First,      \* &task_table[0]
    IDLE,       \* &idle_task_tcb
    NONE,       \* no task
    Words,      \* bound: the values a register is seen to take
    PcMod,      \* bound: number of code addresses
    MaxFrames   \* bound: frames one stack has room for

ASSUME TasksAssumption ==
    /\ Boot \subseteq Tasks
    /\ First \in Boot
    /\ IDLE \in Boot
    /\ NONE \notin Tasks
ASSUME WordsAssumption == 0 \in Words
ASSUME PcModAssumption == PcMod \in Nat \ {0}
ASSUME MaxFramesAssumption == MaxFrames \in Nat \ {0}

VARIABLES
    tasks,          \* those created
    current_task,
    tcb_sp,         \* tcb->sp of each task
    stack,          \* memory of each stack, by frames
    cpu,            \* pc, r0, rest and flags of the processor
    sp,             \* sp of User and System mode
    sys_spsr,       \* flags in the SPSR that System mode reads and writes
    at              \* the code being executed

vars == <<tasks, current_task, tcb_sp, stack, cpu, sp, sys_spsr, at>>

Addresses == 0..(PcMod - 1)
Flags == {0, 1}
KERNEL == -1                     \* an address of the kernel's code
USER == "user"
DISPATCH == "k_svc_dispatcher"
SVC_EXIT == "end of svc.s"
IRQ == "k_irq_handler"
IRQ_EXIT == "end of irq.s"

Frames == [pc : Addresses, r0 : Words, rest : Words, cpsr : Flags]

(* k_task_init(): the frame of a task that never ran. Its entry point is 0,*)
(* the numbers it leaves in r0-r12 and lr are abstracted to 0, and CPSR is *)
(* 0x10: User mode, no flag set, IRQs enabled.                             *)
k_task_init == [pc |-> 0, r0 |-> 0, rest |-> 0, cpsr |-> 0]

(* Registers while the kernel runs: its own, dead once it leaves.          *)
Kernel == [pc |-> KERNEL, r0 |-> 0, rest |-> 0, flags |-> 0]

(* pop {r0, lr}; msr SPSR, r0; pop {r0-r12}; ldmfd sp!, {pc}^              *)
Popped(f) == [pc |-> f.pc, r0 |-> f.r0, rest |-> f.rest, flags |-> f.cpsr]

(* start_first_task has restored the first task: IRQs are enabled. The     *)
(* stacks not allocated yet hold what the heap holds.                      *)
Init ==
    /\ tasks = Boot
    /\ current_task = First
    /\ tcb_sp = [t \in Tasks |-> <<t, 1>>]
    /\ \E junk \in Frames :
          stack = [t \in Tasks |-> [k \in 1..MaxFrames |->
                      IF t \in Boot THEN k_task_init ELSE junk]]
    /\ cpu = Popped(k_task_init)
    /\ sp = <<First, 0>>
    /\ sys_spsr = 0
    /\ at = USER

-----------------------------------------------------------------------------
(* Addresses an exception leaves in lr, and the one each handler pushes.   *)
exception_lr == (cpu.pc + 1) % PcMod
svc_return == exception_lr                  \* mov r0, lr
irq_return_Late == exception_lr             \* without sub r0, r0, #4
irq_return == (exception_lr + PcMod - 1) % PcMod

(* The frame one entry pushes on the stack of User mode. The SPSR it saves *)
(* is read in System mode (cps 0x1F), so it is not the one the exception   *)
(* wrote: on the emulated machine, it is what System mode wrote last.      *)
Pushed_R0Lost(pc) == [pc |-> pc, r0 |-> 0, rest |-> cpu.rest, cpsr |-> sys_spsr]
Pushed(pc) == [pc |-> pc, r0 |-> cpu.r0, rest |-> cpu.rest, cpsr |-> sys_spsr]

(* svc.s:27-46 and irq.s:4-23                                              *)
Save(pc) ==
    /\ sp[2] < MaxFrames
    /\ stack' = [stack EXCEPT ![sp[1]][sp[2] + 1] = Pushed(pc)]
    /\ sp' = <<sp[1], sp[2] + 1>>
    /\ tcb_sp' = [tcb_sp EXCEPT ![current_task] = sp']
    /\ cpu' = Kernel
    /\ UNCHANGED <<tasks, current_task, sys_spsr>>

(* The stack pointer the exit pops from: that of the task in current_task, *)
(* which a handler may have changed.                                       *)
RestoredFrom_OldStack == sp         \* ldr sp, [r1] forgotten
RestoredFrom == tcb_sp[current_task]

(* svc.s:52-64 and irq.s:30-42                                             *)
Restore ==
    LET p == RestoredFrom
        f == stack[p[1]][p[2]]
    IN  /\ cpu' = Popped(f)
        /\ sp' = <<p[1], p[2] - 1>>
        /\ sys_spsr' = f.cpsr
        /\ at' = USER
        /\ UNCHANGED <<tasks, current_task, tcb_sp, stack>>

(* What scheduler() may choose from: module Task's CurrentIsRunnable.      *)
scheduled_FreeSlots == Tasks        \* a slot past task_count reads READY
scheduled == tasks

(* context is current_task->sp at the entry: the caller's frame.          *)
Result(v) ==
    LET context == tcb_sp[current_task]
    IN  stack' = [stack EXCEPT ![context[1]][context[2]].r0 = v]

-----------------------------------------------------------------------------
(* The running task executes an instruction that is not svc.               *)
UserStep ==
    /\ at = USER
    /\ current_task # IDLE
    /\ cpu' \in [pc : Addresses, r0 : Words, rest : Words, flags : Flags]
    /\ UNCHANGED <<tasks, current_task, tcb_sp, stack, sp, sys_spsr, at>>

svc_entry ==
    /\ at = USER
    /\ current_task # IDLE            \* the idle task is a loop on wfi
    /\ Save(svc_return)
    /\ at' = DISPATCH

(* IRQs are enabled in User mode and masked from an entry to its exit.     *)
irq_entry ==
    /\ at = USER
    /\ Save(irq_return)
    /\ at' = IRQ

svc_exit == at = SVC_EXIT /\ Restore

irq_exit == at = IRQ_EXIT /\ Restore

(* GETCHAR, GETPID, MILLIS, FOPEN, FREAD, MALLOC                           *)
Reply ==
    /\ at = DISPATCH
    /\ \E v \in Words : Result(v)
    /\ at' = SVC_EXIT
    /\ UNCHANGED <<tasks, current_task, tcb_sp, cpu, sp, sys_spsr>>

(* PUTC, PRINTF and an unknown id: r0 stays the id of the call.            *)
NoReply ==
    /\ at = DISPATCH
    /\ at' = SVC_EXIT
    /\ UNCHANGED <<tasks, current_task, tcb_sp, stack, cpu, sp, sys_spsr>>

(* YIELD, SLEEP, EXIT                                                      *)
Reschedule ==
    /\ at = DISPATCH
    /\ current_task' \in scheduled
    /\ at' = SVC_EXIT
    /\ UNCHANGED <<tasks, tcb_sp, stack, cpu, sp, sys_spsr>>

(* SPAWN when a slot and a stack are found. Its result is written after    *)
(* the new stack, through the context fetched before it.                   *)
SpawnOf(t, v) ==
    LET context == tcb_sp[current_task]
    IN  /\ tasks' = tasks \cup {t}
        /\ tcb_sp' = [tcb_sp EXCEPT ![t] = <<t, 1>>]
        /\ stack' = [stack EXCEPT ![t][1] = k_task_init,
                                  ![context[1]][context[2]].r0 = v]

Spawn ==
    /\ at = DISPATCH
    /\ \E t \in Tasks \ tasks, v \in Words : SpawnOf(t, v)
    /\ at' = SVC_EXIT
    /\ UNCHANGED <<current_task, cpu, sp, sys_spsr>>

(* k_irq_handler(): the timer calls scheduler(), the keyboard does not. An *)
(* interrupt nobody registered is only printed: see ContextUnmasked.       *)
k_irq_handler ==
    /\ at = IRQ
    /\ current_task' \in scheduled
    /\ at' = IRQ_EXIT
    /\ UNCHANGED <<tasks, tcb_sp, stack, cpu, sp, sys_spsr>>

Next ==
    \/ UserStep \/ svc_entry \/ irq_entry \/ svc_exit \/ irq_exit
    \/ Reply \/ NoReply \/ Reschedule \/ Spawn \/ k_irq_handler

Spec == Init /\ [][Next]_vars

-----------------------------------------------------------------------------
TypeOK ==
    /\ tasks \in SUBSET Tasks
    /\ current_task \in tasks
    /\ tcb_sp \in [Tasks -> Tasks \X (0..MaxFrames)]
    /\ stack \in [Tasks -> [1..MaxFrames -> Frames]]
    /\ cpu \in [pc : Addresses \cup {KERNEL}, r0 : Words, rest : Words,
                flags : Flags]
    /\ sp \in Tasks \X (0..MaxFrames)
    /\ sys_spsr \in Flags
    /\ at \in {USER, DISPATCH, SVC_EXIT, IRQ, IRQ_EXIT}

(* However the task was stopped (svc.s or irq.s) and however it is resumed *)
(* (the other one, possibly), its stack is balanced: nothing is left on it *)
(* while it runs, and a task that waits has its one frame, on its own      *)
(* stack, where its TCB says.                                              *)
StacksBalanced ==
    /\ at = USER => sp = <<current_task, 0>>
    /\ \A t \in tasks : (at = USER /\ t = current_task) \/ tcb_sp[t] = <<t, 1>>

(* The registers task t will run with next: in the processor while it      *)
(* executes, in its frame while it does not. CPSR flags are left out: see  *)
(* SavesFlags.                                                             *)
registers(t) ==
    LET on_stack == stack[tcb_sp[t][1]][tcb_sp[t][2]]
        source == IF at = USER /\ t = current_task THEN cpu
                  ELSE IF t \in tasks THEN on_stack ELSE k_task_init
    IN  [pc |-> source.pc, r0 |-> source.r0, rest |-> source.rest]

(* Preemption is invisible, and a system call changes r0 of its caller     *)
(* only: the save, the switch and the restore amount to a processor per    *)
(* task.                                                                   *)
Registers == [t \in Tasks |-> registers(t)]
Running == IF at = USER THEN current_task ELSE NONE
Serving == IF at = DISPATCH THEN current_task ELSE NONE
Own == INSTANCE Processors
          WITH ctx <- Registers, running <- Running, serving <- Serving
ProcessorPerTask == Own!Spec

(* "Salva CPSR do usuario e LR" (irq.s:19): the frame an interrupt pushes  *)
(* holds the flags the interrupted code was computing with.                *)
SavesFlags ==
    [][at = USER /\ at' = IRQ =>
          stack'[sp'[1]][sp'[2]].cpsr = cpu.flags]_vars

=============================================================================
