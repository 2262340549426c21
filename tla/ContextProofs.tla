--------------------------- MODULE ContextProofs ---------------------------
(***************************************************************************)
(* Proofs about module Context, for any number of tasks, register values   *)
(* and addresses: the stacks stay balanced, and the switch implements a    *)
(* processor per task (module Processors).                                 *)
(***************************************************************************)
EXTENDS Context, TLAPS

USE TasksAssumption, WordsAssumption, PcModAssumption, MaxFramesAssumption

(* Every TCB points at the only frame of its own stack, whether it is the  *)
(* frame in use or the one the task's next entry will write again; and a   *)
(* task in User mode has popped it.                                        *)
IInv ==
    /\ TypeOK
    /\ \A t \in Tasks : tcb_sp[t] = <<t, 1>>
    /\ at = USER => sp = <<current_task, 0>> /\ cpu.pc \in Addresses

LEMMA FreshFrame == k_task_init \in Frames
BY SMT DEF k_task_init, Frames, Addresses, Flags

(* Arithmetic on addresses: what lr - 4 undoes.                            *)
LEMMA Ring ==
    ASSUME NEW N \in Nat, N > 0, NEW a \in 0..(N - 1)
    PROVE  /\ (a + 1) % N \in 0..(N - 1)
           /\ (((a + 1) % N) + N - 1) % N = a
<1>1. CASE a + 1 < N
  <2>1. (a + 1) % N = a + 1
    BY <1>1, SMT
  <2>2. (a + 1 + N - 1) % N = a
    BY <1>1, SMT
  <2> QED BY <1>1, <2>1, <2>2, SMT
<1>2. CASE a + 1 = N
  <2>1. (a + 1) % N = 0
    BY <1>2, SMT
  <2>2. (0 + N - 1) % N = a
    BY <1>2, SMT
  <2> QED BY <1>2, <2>1, <2>2, SMT
<1> QED BY <1>1, <1>2, SMT

LEMMA ReturnAddresses ==
    ASSUME cpu.pc \in Addresses
    PROVE  /\ svc_return \in Addresses
           /\ svc_return = (cpu.pc + 1) % PcMod
           /\ irq_return = cpu.pc
<1>1. PcMod \in Nat /\ PcMod > 0
  BY SMT
<1> QED BY <1>1, Ring DEF svc_return, irq_return, exception_lr, Addresses

-----------------------------------------------------------------------------
LEMMA Initially == Init => IInv
<1> SUFFICES ASSUME Init PROVE IInv OBVIOUS
<1>1. PICK junk \in Frames :
        stack = [t \in Tasks |-> [k \in 1..MaxFrames |->
                    IF t \in Boot THEN k_task_init ELSE junk]]
  BY DEF Init
<1>2. stack \in [Tasks -> [1..MaxFrames -> Frames]]
  BY <1>1, FreshFrame
<1>3. cpu = [pc |-> 0, r0 |-> 0, rest |-> 0, flags |-> 0]
  BY DEF Init, Popped, k_task_init
<1>4. cpu \in [pc : Addresses, r0 : Words, rest : Words, flags : Flags]
  BY <1>3, SMT DEF Addresses, Flags
<1>5. /\ tcb_sp = [t \in Tasks |-> <<t, 1>>]
      /\ sp = <<First, 0>>
      /\ tasks = Boot /\ current_task = First /\ sys_spsr = 0 /\ at = USER
  BY DEF Init
<1>6. tcb_sp \in [Tasks -> Tasks \X (0..MaxFrames)]
  BY <1>5, SMT
<1>7. sp \in Tasks \X (0..MaxFrames)
  BY <1>5, SMT
<1> QED BY <1>2, <1>4, <1>5, <1>6, <1>7, SMT DEF IInv, TypeOK, Flags

(* An entry from User mode writes the frame that was popped, and leaves    *)
(* every other one.                                                        *)
LEMMA SaveStep ==
    ASSUME IInv, at = USER, NEW pc \in Addresses, Save(pc)
    PROVE  /\ stack' = [stack EXCEPT ![current_task][1] =
                          [pc |-> pc, r0 |-> cpu.r0, rest |-> cpu.rest,
                           cpsr |-> sys_spsr]]
           /\ stack' \in [Tasks -> [1..MaxFrames -> Frames]]
           /\ sp' = <<current_task, 1>>
           /\ tcb_sp' = tcb_sp
           /\ cpu' = Kernel
           /\ UNCHANGED <<tasks, current_task, sys_spsr>>
<1>1. sp = <<current_task, 0>> /\ sp[1] = current_task /\ sp[2] + 1 = 1
  BY SMT DEF IInv
<1>2. current_task \in Tasks
  BY DEF IInv, TypeOK
<1>3. stack' = [stack EXCEPT ![current_task][1] =
                 [pc |-> pc, r0 |-> cpu.r0, rest |-> cpu.rest,
                  cpsr |-> sys_spsr]]
  BY <1>1 DEF Save, Pushed
<1>4. [pc |-> pc, r0 |-> cpu.r0, rest |-> cpu.rest, cpsr |-> sys_spsr]
        \in Frames
  BY DEF IInv, TypeOK, Frames
<1>5. stack' \in [Tasks -> [1..MaxFrames -> Frames]]
  BY <1>2, <1>3, <1>4 DEF IInv, TypeOK
<1>6. sp' = <<current_task, 1>>
  BY <1>1 DEF Save
<1>7. tcb_sp' = tcb_sp
  BY <1>2, <1>6 DEF Save, IInv, TypeOK
<1> QED BY <1>3, <1>5, <1>6, <1>7 DEF Save

(* An exit pops the frame of current_task.                                 *)
LEMMA RestoreStep ==
    ASSUME IInv, Restore
    PROVE  /\ cpu' = Popped(stack[current_task][1])
           /\ cpu' \in [pc : Addresses, r0 : Words, rest : Words, flags : Flags]
           /\ sp' = <<current_task, 0>>
           /\ sys_spsr' \in Flags
           /\ at' = USER
           /\ UNCHANGED <<tasks, current_task, tcb_sp, stack>>
<1>1. current_task \in Tasks
  BY DEF IInv, TypeOK
<1>2. /\ RestoredFrom = <<current_task, 1>>
      /\ RestoredFrom[1] = current_task
      /\ RestoredFrom[2] = 1
  BY <1>1 DEF IInv, RestoredFrom
<1>3. stack[current_task][1] \in Frames
  BY <1>1, SMT DEF IInv, TypeOK
<1>4. Popped(stack[current_task][1])
        \in [pc : Addresses, r0 : Words, rest : Words, flags : Flags]
  BY <1>3 DEF Popped, Frames
<1>5. stack[current_task][1].cpsr \in Flags
  BY <1>3 DEF Frames
<1> QED BY <1>2, <1>4, <1>5, SMT DEF Restore

(* A result goes to the frame of current_task and nowhere else.            *)
LEMMA ResultStep ==
    ASSUME IInv, NEW v \in Words, Result(v)
    PROVE  /\ stack' = [stack EXCEPT ![current_task][1].r0 = v]
           /\ stack' \in [Tasks -> [1..MaxFrames -> Frames]]
<1>1. current_task \in Tasks
  BY DEF IInv, TypeOK
<1>2. stack' = [stack EXCEPT ![current_task][1].r0 = v]
  <2>1. tcb_sp[current_task] = <<current_task, 1>>
    BY <1>1 DEF IInv
  <2>2. tcb_sp[current_task][1] = current_task /\ tcb_sp[current_task][2] = 1
    BY <2>1
  <2> QED BY <2>2 DEF Result
<1>3. stack[current_task][1] \in Frames
  BY <1>1, SMT DEF IInv, TypeOK
<1>4. [stack[current_task][1] EXCEPT !.r0 = v] \in Frames
  BY <1>3 DEF Frames
<1>5. stack' = [stack EXCEPT ![current_task] =
                 [@ EXCEPT ![1] = [stack[current_task][1] EXCEPT !.r0 = v]]]
  BY <1>1, <1>2 DEF IInv, TypeOK
<1> QED BY <1>1, <1>2, <1>4, <1>5 DEF IInv, TypeOK


(* SPAWN writes the first frame of the new stack and the caller's result.  *)
LEMMA SpawnStep ==
    ASSUME IInv, NEW t \in Tasks \ tasks, NEW v \in Words, SpawnOf(t, v)
    PROVE  /\ t # current_task
           /\ stack' = [stack EXCEPT ![t][1] = k_task_init,
                                     ![current_task][1].r0 = v]
           /\ stack' \in [Tasks -> [1..MaxFrames -> Frames]]
           /\ tcb_sp' = tcb_sp
           /\ tasks' = tasks \cup {t}
<1>1. current_task \in Tasks /\ t # current_task
  BY DEF IInv, TypeOK
<1>2. tcb_sp[current_task] = <<current_task, 1>>
  BY <1>1 DEF IInv
<1>3. tcb_sp[current_task][1] = current_task /\ tcb_sp[current_task][2] = 1
  BY <1>2
<1>4. stack' = [stack EXCEPT ![t][1] = k_task_init, ![current_task][1].r0 = v]
  BY <1>3 DEF SpawnOf
<1>5. stack[current_task][1] \in Frames
  BY <1>1, SMT DEF IInv, TypeOK
<1>6. [stack[current_task][1] EXCEPT !.r0 = v] \in Frames
  BY <1>5 DEF Frames
<1>7. stack' = [stack EXCEPT
                 ![t] = [@ EXCEPT ![1] = k_task_init],
                 ![current_task] =
                   [@ EXCEPT ![1] = [stack[current_task][1] EXCEPT !.r0 = v]]]
  BY <1>1, <1>4 DEF IInv, TypeOK
<1>8. stack' \in [Tasks -> [1..MaxFrames -> Frames]]
  BY <1>1, <1>6, <1>7, FreshFrame DEF IInv, TypeOK
<1>9. tcb_sp' = tcb_sp
  BY DEF SpawnOf, IInv, TypeOK
<1> QED BY <1>1, <1>4, <1>8, <1>9 DEF SpawnOf

LEMMA Inductive == IInv /\ [Next]_vars => IInv'
<1> SUFFICES ASSUME IInv, [Next]_vars PROVE IInv' OBVIOUS
<1>0. current_task \in Tasks /\ (at = USER => cpu.pc \in Addresses)
  BY DEF IInv, TypeOK
<1>1. CASE UserStep
  BY <1>1, <1>0 DEF UserStep, IInv, TypeOK
<1>2. CASE svc_entry \/ irq_entry
  <2>1. PICK pc \in Addresses : Save(pc)
    BY <1>0, <1>2, ReturnAddresses DEF svc_entry, irq_entry
  <2>2. at = USER /\ at' \in {DISPATCH, IRQ}
    BY <1>2 DEF svc_entry, irq_entry
  <2>3. Kernel \in [pc : Addresses \cup {KERNEL}, r0 : Words, rest : Words,
                    flags : Flags]
    BY SMT DEF Kernel, Flags
  <2>4. sp' \in Tasks \X (0..MaxFrames)
    BY <1>0, <2>1, <2>2, SaveStep, SMT
  <2> QED BY <2>1, <2>2, <2>3, <2>4, SaveStep
          DEF IInv, TypeOK, USER, DISPATCH, IRQ
<1>3. CASE svc_exit \/ irq_exit
  <2>1. Restore
    BY <1>3 DEF svc_exit, irq_exit
  <2>2. sp' \in Tasks \X (0..MaxFrames)
    BY <1>0, <2>1, RestoreStep, SMT
  <2>3. cpu' \in [pc : Addresses \cup {KERNEL}, r0 : Words, rest : Words,
                  flags : Flags] /\ cpu'.pc \in Addresses
    BY <2>1, RestoreStep
  <2> QED BY <2>1, <2>2, <2>3, RestoreStep DEF IInv, TypeOK
<1>4. CASE Reply
  <2>1. PICK v \in Words : Result(v)
    BY <1>4 DEF Reply
  <2> QED BY <1>4, <2>1, ResultStep DEF Reply, IInv, TypeOK, USER, SVC_EXIT
<1>5. CASE NoReply
  BY <1>5 DEF NoReply, IInv, TypeOK, USER, SVC_EXIT
<1>6. CASE Reschedule \/ k_irq_handler
  BY <1>6 DEF Reschedule, k_irq_handler, scheduled, IInv, TypeOK, USER,
              SVC_EXIT, IRQ_EXIT
<1>7. CASE Spawn
  <2>1. PICK t \in Tasks \ tasks, v \in Words : SpawnOf(t, v)
    BY <1>7 DEF Spawn
  <2>2. /\ stack' \in [Tasks -> [1..MaxFrames -> Frames]]
        /\ tcb_sp' = tcb_sp
        /\ tasks' = tasks \cup {t}
    BY <2>1, SpawnStep
  <2>3. /\ UNCHANGED <<current_task, cpu, sp, sys_spsr>>
        /\ at' = SVC_EXIT /\ at' # USER
    BY <1>7 DEF Spawn, USER, SVC_EXIT
  <2> QED BY <2>2, <2>3 DEF IInv, TypeOK
<1>8. CASE UNCHANGED vars
  BY <1>8 DEF vars, IInv, TypeOK
<1> QED BY <1>1, <1>2, <1>3, <1>4, <1>5, <1>6, <1>7, <1>8 DEF Next

LEMMA Invariant == Spec => []IInv
BY Initially, Inductive, PTL DEF Spec

(* Every variable has its type, whatever the number of tasks: in           *)
(* particular the processor only ever belongs to a created task.           *)
THEOREM ContextTyped == Spec => []TypeOK
<1>1. IInv => TypeOK
  BY DEF IInv
<1> QED BY <1>1, Invariant, PTL

(* svc.s and irq.s leave the stacks balanced in every interleaving of      *)
(* calls, interrupts and switches: the running task's is empty of frames,  *)
(* the others hold exactly one, where their TCBs say.                      *)
THEOREM BalancedStacks == Spec => []StacksBalanced
<1>1. IInv => StacksBalanced
  BY DEF IInv, TypeOK, StacksBalanced
<1> QED BY <1>1, Invariant, PTL

-----------------------------------------------------------------------------
(* What of a frame, or of the processor, a task calls its registers.       *)
Visible(x) == [pc |-> x.pc, r0 |-> x.r0, rest |-> x.rest]

Parked(t) == IF t \in tasks THEN stack[t][1] ELSE k_task_init

LEMMA RegistersAre ==
    IInv => \A t \in Tasks :
        Registers[t] = IF at = USER /\ t = current_task THEN Visible(cpu)
                                                        ELSE Visible(Parked(t))
<1> SUFFICES ASSUME IInv, NEW t \in Tasks
             PROVE  registers(t) =
                       IF at = USER /\ t = current_task THEN Visible(cpu)
                                                        ELSE Visible(Parked(t))
  BY DEF Registers
<1>1. tcb_sp[t] = <<t, 1>> /\ tcb_sp[t][1] = t /\ tcb_sp[t][2] = 1
  BY DEF IInv
<1>2. stack[tcb_sp[t][1]][tcb_sp[t][2]] = stack[t][1]
  BY <1>1
<1>3. CASE at = USER /\ t = current_task
  BY <1>3 DEF registers, Visible
<1>4. CASE ~(at = USER /\ t = current_task) /\ t \notin tasks
  BY <1>4 DEF registers, Visible, Parked
<1>5. CASE ~(at = USER /\ t = current_task) /\ t \in tasks
  BY <1>2, <1>5 DEF registers, Visible, Parked
<1> QED BY <1>3, <1>4, <1>5

LEMMA RegistersTyped == IInv => Registers \in [Tasks -> Own!Contexts]
<1> SUFFICES ASSUME IInv, NEW t \in Tasks PROVE Registers[t] \in Own!Contexts
  BY DEF Registers
<1>1. stack[t][1] \in Frames
  BY SMT DEF IInv, TypeOK
<1>2. Parked(t) \in Frames
  BY <1>1, FreshFrame DEF Parked
<1>3. Visible(Parked(t)) \in Own!Contexts
  BY <1>2 DEF Visible, Frames, Own!Contexts, Addresses
<1>4. at = USER => Visible(cpu) \in Own!Contexts
  BY DEF IInv, TypeOK, Visible, Own!Contexts, Addresses
<1> QED BY <1>3, <1>4, RegistersAre


LEMMA ImplementsInit == Init => Own!Init
<1> SUFFICES ASSUME Init PROVE Own!Init OBVIOUS
<1>1. IInv
  BY Initially
<1>2. at = USER /\ current_task = First /\ tasks = Boot /\ First \in Tasks
  BY DEF Init
<1>3. Running = First /\ Serving = NONE
  BY <1>2 DEF Running, Serving, USER, DISPATCH
<1>4. PICK junk \in Frames :
        stack = [t \in Tasks |-> [k \in 1..MaxFrames |->
                    IF t \in Boot THEN k_task_init ELSE junk]]
  BY DEF Init
<1>5. \A t \in Boot : stack[t][1] = k_task_init
  <2>1. 1 \in 1..MaxFrames
    BY SMT
  <2> QED BY <1>4, <2>1
<1>6. \A t \in Tasks : Parked(t) = k_task_init
  BY <1>2, <1>5 DEF Parked
<1>7. Visible(cpu) = Visible(k_task_init)
  BY DEF Init, Popped, Visible, k_task_init
<1>8. \A t \in Tasks : Registers[t] = Visible(k_task_init)
  BY <1>1, <1>6, <1>7, RegistersAre
<1> QED BY <1>1, <1>2, <1>3, <1>8, RegistersTyped DEF Own!Init

(* Two register maps are equal when they are equal at every task.          *)
LEMMA SameMap ==
    ASSUME IInv, IInv', NEW F, F \in [Tasks -> Own!Contexts],
           \A t \in Tasks : Registers'[t] = F[t]
    PROVE  Registers' = F
<1>1. (IInv => Registers \in [Tasks -> Own!Contexts])'
  BY RegistersTyped, PTL
<1> QED BY <1>1 DEF Own!Contexts

LEMMA ImplementsStep ==
    IInv /\ IInv' /\ [Next]_vars => [Own!Next]_<<Registers, Running, Serving>>
<1> SUFFICES ASSUME IInv, IInv', [Next]_vars
             PROVE  [Own!Next]_<<Registers, Running, Serving>>
  OBVIOUS
<1> DEFINE R == Registers
<1>0. /\ R \in [Tasks -> Own!Contexts]
      /\ current_task \in Tasks /\ current_task \in tasks
      /\ current_task # NONE
      /\ (at = USER => cpu.pc \in Addresses)
  BY RegistersTyped DEF IInv, TypeOK
<1>a. \A t \in Tasks :
        R[t] = IF at = USER /\ t = current_task THEN Visible(cpu)
                                                 ELSE Visible(Parked(t))
  BY RegistersAre
<1>b. \A t \in Tasks :
        R'[t] = IF at' = USER /\ t = current_task' THEN Visible(cpu')
                                                    ELSE Visible(Parked(t)')
  <2>1. (IInv => \A t \in Tasks :
          R[t] = IF at = USER /\ t = current_task THEN Visible(cpu)
                                                   ELSE Visible(Parked(t)))'
    BY RegistersAre, PTL
  <2> QED BY <2>1 DEF Visible
<1>1. CASE UserStep
  <2>1. /\ at = USER /\ at' = USER /\ current_task' = current_task
        /\ tasks' = tasks /\ stack' = stack
        /\ cpu' \in [pc : Addresses, r0 : Words, rest : Words, flags : Flags]
    BY <1>1 DEF UserStep
  <2>2. Visible(cpu') \in Own!Contexts
    BY <2>1 DEF Visible, Own!Contexts, Addresses
  <2>3. \A t \in Tasks :
          R'[t] = [R EXCEPT ![current_task] = Visible(cpu')][t]
    BY <1>0, <1>a, <1>b, <2>1 DEF Parked
  <2>4. [R EXCEPT ![current_task] = Visible(cpu')] \in [Tasks -> Own!Contexts]
    BY <1>0, <2>2
  <2>5. R' = [R EXCEPT ![current_task] = Visible(cpu')]
    BY <2>3, <2>4, SameMap
  <2> QED BY <1>0, <2>1, <2>2, <2>5
          DEF Own!Next, Own!Step, Running, Serving, USER, DISPATCH
<1>2. CASE svc_entry \/ irq_entry
  <2>1. /\ at = USER /\ at' \in {DISPATCH, IRQ} /\ at' # USER
        /\ svc_entry => at' = DISPATCH
        /\ irq_entry => at' = IRQ
    BY <1>2 DEF svc_entry, irq_entry, USER, DISPATCH, IRQ
  <2>2. PICK pc \in Addresses :
          /\ Save(pc)
          /\ svc_entry => pc = (cpu.pc + 1) % PcMod
          /\ irq_entry => pc = cpu.pc
    <3>1. svc_return \in Addresses /\ irq_return \in Addresses
      BY <1>0, <2>1, ReturnAddresses
    <3>2. CASE svc_entry
      <4>1. ~irq_entry
        BY <2>1, <3>2 DEF DISPATCH, IRQ
      <4> QED BY <1>0, <2>1, <3>1, <3>2, <4>1, ReturnAddresses DEF svc_entry
    <3>3. CASE irq_entry
      <4>1. ~svc_entry
        BY <2>1, <3>3 DEF DISPATCH, IRQ
      <4> QED BY <1>0, <2>1, <3>1, <3>3, <4>1, ReturnAddresses DEF irq_entry
    <3> QED BY <1>2, <3>2, <3>3
  <2>3. /\ stack' = [stack EXCEPT ![current_task][1] =
                      [pc |-> pc, r0 |-> cpu.r0, rest |-> cpu.rest,
                       cpsr |-> sys_spsr]]
        /\ tasks' = tasks /\ current_task' = current_task
    BY <2>1, <2>2, SaveStep
  <2>4. stack'[current_task][1] = [pc |-> pc, r0 |-> cpu.r0, rest |-> cpu.rest,
                                   cpsr |-> sys_spsr]
    <3>1. 1 \in 1..MaxFrames
      BY SMT
    <3> QED BY <1>0, <2>3, <3>1 DEF IInv, TypeOK
  <2>5. \A t \in Tasks : t # current_task => R'[t] = R[t]
    BY <1>0, <1>a, <1>b, <2>1, <2>3 DEF Parked, IInv, TypeOK
  <2>6. R'[current_task] = [pc |-> pc, r0 |-> cpu.r0, rest |-> cpu.rest]
    BY <1>0, <1>b, <2>1, <2>3, <2>4 DEF Parked, Visible
  <2>7. R[current_task] = [pc |-> cpu.pc, r0 |-> cpu.r0, rest |-> cpu.rest]
    BY <1>0, <1>a, <2>1 DEF Visible
  <2>8. /\ R' \in [Tasks -> Own!Contexts]
        /\ R' = [R EXCEPT ![current_task].pc = pc]
    <3>1. R' \in [Tasks -> Own!Contexts]
      <4>1. (IInv => R \in [Tasks -> Own!Contexts])'
        BY RegistersTyped, PTL
      <4> QED BY <4>1 DEF Own!Contexts
    <3>2. R'[current_task] = [R[current_task] EXCEPT !.pc = pc]
      BY <2>6, <2>7
    <3> QED BY <1>0, <2>5, <3>1, <3>2
  <2>9. CASE svc_entry
    <3>1. R' = [R EXCEPT ![current_task].pc = (@ + 1) % PcMod]
      <4>1. R[current_task].pc = cpu.pc /\ pc = (cpu.pc + 1) % PcMod
        BY <2>2, <2>7, <2>9
      <4> QED BY <2>8, <4>1
    <3> QED BY <1>0, <2>1, <2>3, <2>9, <3>1
            DEF Own!Next, Own!Call, Running, Serving, USER, DISPATCH
  <2>10. CASE irq_entry
    <3>1. R' = R
      <4>1. \A t \in Tasks : R'[t] = R[t]
        BY <2>2, <2>5, <2>6, <2>7, <2>10
      <4> QED BY <1>0, <2>8, <4>1
    <3>2. Running = current_task /\ Running' = NONE
      BY <2>1 DEF Running
    <3>3. Serving = NONE /\ Serving' = NONE
      BY <2>1, <2>10 DEF Serving, USER, DISPATCH, IRQ
    <3> QED BY <1>0, <3>1, <3>2, <3>3 DEF Own!Next, Own!Interrupt
  <2> QED BY <1>2, <2>9, <2>10
<1>3. CASE svc_exit \/ irq_exit
  <2>1. Restore /\ at # USER /\ at # DISPATCH
    BY <1>3 DEF svc_exit, irq_exit, USER, DISPATCH, SVC_EXIT, IRQ_EXIT
  <2>2. /\ cpu' = Popped(stack[current_task][1])
        /\ at' = USER /\ at' # DISPATCH
        /\ UNCHANGED <<tasks, current_task, stack>>
    BY <2>1, RestoreStep DEF USER, DISPATCH
  <2>3. Visible(cpu') = Visible(Parked(current_task))
    BY <1>0, <2>2 DEF Visible, Parked, Popped
  <2>4. \A t \in Tasks : R'[t] = R[t]
    BY <1>0, <1>a, <1>b, <2>1, <2>2, <2>3 DEF Parked
  <2>5. R' = R
    BY <1>0, <2>4, SameMap
  <2> QED BY <1>0, <2>1, <2>2, <2>5 DEF Own!Next, Own!Resume, Running, Serving
<1>4. CASE Reply \/ NoReply \/ Reschedule \/ Spawn
  <2>1. at = DISPATCH /\ at # USER /\ at' # USER /\ at' # DISPATCH
    BY <1>4 DEF Reply, NoReply, Reschedule, Spawn, USER, DISPATCH, SVC_EXIT
  <2>2. Running = NONE /\ Running' = NONE /\ Serving = current_task
        /\ Serving' = NONE
    BY <2>1 DEF Running, Serving
  <2>3. \A t \in Tasks : R[t] = Visible(Parked(t)) /\ R'[t] = Visible(Parked(t)')
    BY <1>a, <1>b, <2>1
  <2>4. CASE NoReply \/ Reschedule
    <3>1. UNCHANGED <<tasks, stack>>
      BY <2>4 DEF NoReply, Reschedule
    <3>2. \A t \in Tasks : R'[t] = R[t]
      BY <2>3, <3>1 DEF Parked
    <3>3. R' = R
      BY <1>0, <3>2, SameMap
    <3> QED BY <1>0, <2>2, <3>3 DEF Own!Next, Own!Served
  <2>5. ASSUME NEW v \in Words,
               \A t \in Tasks :
                   Parked(t)' = IF t = current_task
                                THEN [Parked(t) EXCEPT !.r0 = v]
                                ELSE Parked(t)
        PROVE  Own!Served
    <3>1. Parked(current_task) \in Frames
      <4>1. stack[current_task][1] \in Frames
        BY <1>0, SMT DEF IInv, TypeOK
      <4> QED BY <1>0, <4>1 DEF Parked
    <3>2. R'[current_task] = [R[current_task] EXCEPT !.r0 = v]
      <4>1. R'[current_task] = Visible([Parked(current_task) EXCEPT !.r0 = v])
        BY <1>0, <2>3, <2>5 DEF Visible
      <4>2. R[current_task] = Visible(Parked(current_task))
        BY <1>0, <2>3
      <4> QED BY <3>1, <4>1, <4>2 DEF Visible, Frames
    <3>3. \A t \in Tasks : R'[t] = [R EXCEPT ![current_task].r0 = v][t]
      BY <1>0, <2>3, <2>5, <3>2
    <3>4. [R EXCEPT ![current_task].r0 = v] \in [Tasks -> Own!Contexts]
      BY <1>0 DEF Own!Contexts
    <3>5. R' = [R EXCEPT ![current_task].r0 = v]
      BY <3>3, <3>4, SameMap
    <3> QED BY <1>0, <2>2, <3>5 DEF Own!Served
  <2>6. CASE Reply
    <3>1. PICK v \in Words : Result(v)
      BY <2>6 DEF Reply
    <3>2. stack' = [stack EXCEPT ![current_task][1].r0 = v] /\ tasks' = tasks
      BY <2>6, <3>1, ResultStep DEF Reply
    <3>3. 1 \in 1..MaxFrames
      BY SMT
    <3>4. stack'[current_task][1] = [stack[current_task][1] EXCEPT !.r0 = v]
      BY <1>0, <3>2, <3>3 DEF IInv, TypeOK
    <3>5. \A t \in Tasks :
              Parked(t)' = IF t = current_task
                           THEN [Parked(t) EXCEPT !.r0 = v]
                           ELSE Parked(t)
      BY <1>0, <3>2, <3>4 DEF Parked, IInv, TypeOK
    <3> QED BY <2>5, <3>5 DEF Own!Next
  <2>7. CASE Spawn
    <3>1. PICK u \in Tasks \ tasks, v \in Words : SpawnOf(u, v)
      BY <2>7 DEF Spawn
    <3>2. /\ u # current_task
          /\ stack' = [stack EXCEPT ![u][1] = k_task_init,
                                    ![current_task][1].r0 = v]
          /\ tasks' = tasks \cup {u}
      BY <3>1, SpawnStep
    <3>3. 1 \in 1..MaxFrames
      BY SMT
    <3>4. /\ stack'[current_task][1] = [stack[current_task][1] EXCEPT !.r0 = v]
          /\ stack'[u][1] = k_task_init
          /\ \A t \in Tasks \ {u, current_task} : stack'[t] = stack[t]
      BY <1>0, <3>1, <3>2, <3>3 DEF IInv, TypeOK
    <3>5. \A t \in Tasks :
              Parked(t)' = IF t = current_task
                           THEN [Parked(t) EXCEPT !.r0 = v]
                           ELSE Parked(t)
      <4> SUFFICES ASSUME NEW t \in Tasks
                   PROVE  Parked(t)' = IF t = current_task
                                       THEN [Parked(t) EXCEPT !.r0 = v]
                                       ELSE Parked(t)
        OBVIOUS
      <4>1. CASE t = u
        BY <3>1, <3>2, <3>4, <4>1 DEF Parked
      <4>2. CASE t = current_task
        BY <1>0, <3>1, <3>2, <3>4, <4>2 DEF Parked
      <4>3. CASE t \in Tasks \ {u, current_task}
        <5>1. stack'[t] = stack[t] /\ (t \in tasks' <=> t \in tasks)
          BY <3>2, <3>4, <4>3
        <5> QED BY <4>3, <5>1 DEF Parked
      <4> QED BY <4>1, <4>2, <4>3
    <3> QED BY <2>5, <3>5 DEF Own!Next
  <2> QED BY <1>4, <2>4, <2>6, <2>7 DEF Own!Next
<1>5. CASE k_irq_handler \/ UNCHANGED vars
  <2>1. /\ UNCHANGED <<tasks, stack, cpu>>
        /\ \/ at = IRQ /\ at' = IRQ_EXIT
           \/ at' = at /\ current_task' = current_task
    BY <1>5 DEF k_irq_handler, vars
  <2>2. \A t \in Tasks : Parked(t)' = Parked(t)
    BY <2>1 DEF Parked
  <2>3. \A t \in Tasks : R'[t] = R[t]
    BY <1>a, <1>b, <2>1, <2>2 DEF USER, IRQ, IRQ_EXIT
  <2>4. R' = R
    BY <1>0, <2>3, SameMap
  <2>5. Running' = Running /\ Serving' = Serving
    BY <2>1 DEF Running, Serving, USER, DISPATCH, IRQ, IRQ_EXIT
  <2> QED BY <2>4, <2>5
<1> QED BY <1>1, <1>2, <1>3, <1>4, <1>5 DEF Next

(* The register save, switch and restore implement a processor per task,   *)
(* for any number of tasks: preemption is invisible to the registers of    *)
(* every task, and a system call moves its caller's pc and r0 only.        *)
THEOREM ContextIsPerTask == Spec => ProcessorPerTask
BY ImplementsInit, ImplementsStep, Invariant, PTL
   DEF Spec, ProcessorPerTask, Own!Spec

=============================================================================
