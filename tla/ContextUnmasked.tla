-------------------------- MODULE ContextUnmasked --------------------------
(***************************************************************************)
(* Context with the calls of the kernel that end in k_enable_interrupts(): *)
(* in a system call, k_free() (SYS_FREE, SYS_FCLOSE) and the k_uart_print()*)
(* of "OUT OF MEMORY" (SYS_SPAWN) and "SD COMMAND FAIL" (a transfer); in   *)
(* k_irq_handler(), that of an interrupt nobody registered. The kernel is  *)
(* still on a stack of its own when IRQs come back, and the entry code     *)
(* takes whatever it interrupted for user code.                            *)
(***************************************************************************)
EXTENDS Context

VARIABLE masked   \* the I bit of CPSR while the kernel runs

uvars == <<vars, masked>>

UInit == Init /\ masked = FALSE

(* Each of these critical sections ends in cpsie i, not in the state it    *)
(* found, and the dispatcher or the handler has yet to return.             *)
k_enable_interrupts ==
    /\ at \in {DISPATCH, IRQ}
    /\ masked
    /\ masked' = FALSE
    /\ UNCHANGED vars

(* An interrupt before svc.s or irq.s is done: the frame has a kernel pc,  *)
(* and goes on top of that of the task which entered.                      *)
irq_in_kernel ==
    /\ at # USER
    /\ ~masked
    /\ Save(KERNEL)
    /\ at' = IRQ
    /\ masked' = TRUE

(* An entry masks IRQs, an exit restores a CPSR that enables them.         *)
Masked ==
    /\ Next
    /\ cpu.pc = KERNEL => at # USER     \* what such a task does is unknown
    /\ masked' = CASE at = USER /\ at' # USER -> TRUE
                   [] at' = USER              -> FALSE
                   [] OTHER                   -> masked

UNext == Masked \/ k_enable_interrupts \/ irq_in_kernel

USpec == UInit /\ [][UNext]_uvars

(* "Funcao Atomica (aka: nao vao acontecer interrupcoes dentro dela)"      *)
(* (syscall.c:14): no interrupt is taken inside k_svc_dispatcher().        *)
DispatcherAtomic == [][(at = DISPATCH) => (at' # IRQ)]_uvars

=============================================================================
