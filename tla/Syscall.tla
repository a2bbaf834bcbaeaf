------------------------------ MODULE Syscall -------------------------------
(***************************************************************************)
(* Ring 3 and back: user::enter, the SYSCALL stub (syscall_entry.s), the   *)
(* dispatcher (syscall.rs), notify_exit (user.rs), and the interrupts that *)
(* can come in between (interrupts.rs).                                    *)
(*                                                                         *)
(* One processor, one user program.  The stub is one step per register it  *)
(* moves, because the timer may interrupt between any two instructions     *)
(* unless the interrupt flag is clear.  A processor register that nothing  *)
(* here depends on is left out.                                            *)
(***************************************************************************)
EXTENDS Integers, Sequences

CONSTANTS MaxFences,   \* bound: what ScbaQuery can find in total_fences
          Rax,         \* an argument the program takes from rax
          NoValue      \* a register that holds nothing of interest

ASSUME FencesAssumption == MaxFences \in Nat

VARIABLES
    program,        \* instructions [op, nr, arg]; after them the program spins
    ring, rip, rsp, IF_, rax, rcx, rbx,   \* processor; rbx: the callee-saved ones
    seg,            \* CS and SS
    spc,            \* where the stub is
    stack,          \* SYSCALL_STACK, from its top down
    SYSCALL_USER_RSP,
    SYSCALL_COUNT, LAST_SYSCALL_NR, LAST_SYSCALL_RET,
    USER_EXITED,
    audit,          \* the entries this part adds to the audit log
    trampled        \* history: an interrupt frame was pushed on the user's stack

cpu   == <<ring, seg, rip, rsp, IF_, rax, rcx, rbx>>
stats == <<SYSCALL_COUNT, LAST_SYSCALL_NR, LAST_SYSCALL_RET>>
sysVars == <<program, cpu, spc, stack, SYSCALL_USER_RSP, stats, USER_EXITED, audit, trampled>>

UserStackTop   == "USER_STACK_TOP"
KernelStackTop == "SYSCALL_KERNEL_RSP"
UserRbx        == "user_rbx"

ENOSYS == 38

(***************************************************************************)
(* Selectors.  gdt.rs appends the descriptors in this order, the TSS in    *)
(* two slots; syscall.rs writes STAR as numbers of its own.                *)
(***************************************************************************)
GDT == <<"null", "kernel_code", "kernel_data", "tss", "tss_high", "user_data", "user_code">>

\* A selector is eight times the slot, plus the requested privilege level.
Selector(d, rpl) == 8 * ((CHOOSE i \in DOMAIN GDT : GDT[i] = d) - 1) + rpl

KernelSeg == [cs |-> Selector("kernel_code", 0), ss |-> Selector("kernel_data", 0)]
UserSeg   == [cs |-> Selector("user_code", 3), ss |-> Selector("user_data", 3)]

\* Bits 47:32 and 63:48 of IA32_STAR.
STAR == [syscall |-> 8, sysret |-> 32]

SyscallSeg == [cs |-> STAR.syscall, ss |-> STAR.syscall + 8]
SysretSeg  == [cs |-> STAR.sysret + 16 + 3, ss |-> STAR.sysret + 8 + 3]

\* An interrupt gate loads the CS of the kernel, and a null SS when it leaves ring 3.
GateSeg == [cs |-> Selector("kernel_code", 0), ss |-> 0]

-----------------------------------------------------------------------------
SyscallInit ==
    /\ program = <<>>
    /\ ring = 0 /\ seg = KernelSeg /\ rip = 1 /\ rsp = NoValue /\ IF_ = TRUE
    /\ rax = 0 /\ rcx = NoValue /\ rbx = UserRbx
    /\ spc = "kernel_main"
    /\ stack = <<>>
    /\ SYSCALL_USER_RSP = NoValue
    /\ SYSCALL_COUNT = 0 /\ LAST_SYSCALL_NR = NoValue /\ LAST_SYSCALL_RET = 0
    /\ USER_EXITED = FALSE
    /\ audit = <<>>
    /\ trampled = FALSE

\* user::enter: IRET to ring 3 with IF set, on the user stack.
Enter(prog) ==
    /\ spc = "kernel_main"
    /\ program' = prog
    /\ ring' = 3 /\ seg' = UserSeg /\ rip' = 1 /\ rsp' = UserStackTop /\ IF_' = TRUE
    /\ spc' = "user"
    /\ UNCHANGED <<rax, rcx, rbx, stack, SYSCALL_USER_RSP, stats, USER_EXITED, audit, trampled>>

\* The SFMASK written by syscall::init: IF is cleared by SYSCALL.
Masked_Nothing(flag) == flag
Masked(flag) == FALSE

\* The SYSCALL instruction.  (R11, the saved flags, is IF = 1: ring 3 cannot clear it.)
SyscallInstr ==
    /\ spc = "user" /\ rip <= Len(program) /\ program[rip].op = "syscall"
    /\ rcx' = rip + 1
    /\ ring' = 0 /\ seg' = SyscallSeg /\ IF_' = Masked(IF_)
    /\ spc' = "save_rsp"
    /\ UNCHANGED <<program, rip, rsp, rax, rbx, stack, SYSCALL_USER_RSP, stats, USER_EXITED,
                   audit, trampled>>

SaveRsp ==
    /\ spc = "save_rsp"
    /\ SYSCALL_USER_RSP' = rsp
    /\ spc' = "switch"
    /\ UNCHANGED <<program, cpu, stack, stats, USER_EXITED, audit, trampled>>

SwitchStack ==
    /\ spc = "switch"
    /\ rsp' = KernelStackTop
    /\ spc' = "push"
    /\ UNCHANGED <<program, ring, seg, rip, IF_, rax, rcx, rbx, stack, SYSCALL_USER_RSP, stats,
                   USER_EXITED, audit, trampled>>

\* Push what SYSRET and the caller need; the arguments then overwrite rcx.
PushAndMarshal ==
    /\ spc = "push"
    /\ stack' = <<rbx, rcx>> \o stack
    /\ rcx' = NoValue
    /\ spc' = "dispatch"
    /\ UNCHANGED <<program, ring, seg, rip, rsp, IF_, rax, rbx, SYSCALL_USER_RSP, stats,
                   USER_EXITED, audit, trampled>>

(***************************************************************************)
(* syscall_dispatch.  The callee uses rbx as it likes until it returns.    *)
(***************************************************************************)
Call == program[rip]
Nr   == Call.nr
Arg1 == IF Call.arg = Rax THEN rax ELSE Call.arg

DispatchLog ==
    /\ spc = "dispatch"
    /\ SYSCALL_COUNT' = SYSCALL_COUNT + 1
    /\ LAST_SYSCALL_NR' = Nr
    /\ audit' = Append(audit, <<"SyscallDispatched", Nr>>)
    /\ rbx' = NoValue
    /\ spc' = "handle"
    /\ UNCHANGED <<program, ring, seg, rip, rsp, IF_, rax, rcx, stack, SYSCALL_USER_RSP,
                   LAST_SYSCALL_RET, USER_EXITED, trampled>>

Return(v) ==
    /\ rax' = v
    /\ LAST_SYSCALL_RET' = v
    /\ spc' = "pop"
    /\ UNCHANGED <<program, ring, seg, rip, rsp, IF_, rcx, rbx, stack, SYSCALL_USER_RSP,
                   SYSCALL_COUNT, LAST_SYSCALL_NR, trampled>>

HandleYield ==
    /\ spc = "handle" /\ Nr = 0
    /\ Return(0)
    /\ UNCHANGED <<USER_EXITED, audit>>

\* The count of fences, or -1 when try_lock finds the scheduler taken.
HandleScbaQuery ==
    /\ spc = "handle" /\ Nr = 9
    /\ \E fences \in -1 .. MaxFences : Return(fences)
    /\ UNCHANGED <<USER_EXITED, audit>>

\* notify_exit: nothing stops the program.
HandleExit_NoFlag ==
    /\ spc = "handle" /\ Nr = 11
    /\ audit' = Append(audit, <<"ProcessExited", Arg1>>)
    /\ UNCHANGED USER_EXITED
    /\ Return(0)
HandleExit ==
    /\ spc = "handle" /\ Nr = 11
    /\ audit' = Append(audit, <<"ProcessExited", Arg1>>)
    /\ USER_EXITED' = TRUE
    /\ Return(0)

HandleUnknown ==
    /\ spc = "handle" /\ Nr \notin {0, 9, 11}
    /\ Return(-ENOSYS)
    /\ UNCHANGED <<USER_EXITED, audit>>

-----------------------------------------------------------------------------
Pop ==
    /\ spc = "pop"
    /\ rbx' = stack[1] /\ rcx' = stack[2]
    /\ stack' = SubSeq(stack, 3, Len(stack))
    /\ spc' = "restore_rsp"
    /\ UNCHANGED <<program, ring, seg, rip, rsp, IF_, rax, SYSCALL_USER_RSP, stats, USER_EXITED,
                   audit, trampled>>

RestoreRsp ==
    /\ spc = "restore_rsp"
    /\ rsp' = SYSCALL_USER_RSP
    /\ spc' = "sysret"
    /\ UNCHANGED <<program, ring, seg, rip, IF_, rax, rcx, rbx, stack, SYSCALL_USER_RSP, stats,
                   USER_EXITED, audit, trampled>>

\* RIP from RCX, RFLAGS from R11.
Sysret ==
    /\ spc = "sysret"
    /\ ring' = 3 /\ seg' = SysretSeg /\ rip' = rcx /\ IF_' = TRUE
    /\ spc' = "user"
    /\ UNCHANGED <<program, rsp, rax, rcx, rbx, stack, SYSCALL_USER_RSP, stats, USER_EXITED,
                   audit, trampled>>

(***************************************************************************)
(* Interrupts.  From ring 3 the processor takes RSP0 of the TSS; in ring 0 *)
(* the frame goes where rsp points.  The handler returns to where it came  *)
(* from with every register restored.                                      *)
(***************************************************************************)
TimerInterrupt ==
    /\ IF_ /\ spc \notin {"kernel_main", "halted"}
    /\ trampled' = (trampled \/ (ring = 0 /\ rsp = UserStackTop))
    /\ UNCHANGED <<program, cpu, spc, stack, SYSCALL_USER_RSP, stats, USER_EXITED, audit>>

\* A fault in ring 3 halts the machine; only the double-fault handler, reached
\* by exceptions without a handler of their own ("ud2"), logs it.
Halt ==
    /\ ring' = 0 /\ seg' = GateSeg /\ IF_' = FALSE /\ spc' = "halted"
    /\ UNCHANGED <<program, rip, rsp, rax, rcx, rbx, stack, SYSCALL_USER_RSP, stats,
                   USER_EXITED, trampled>>

PageFault ==
    /\ spc = "user"
    /\ Halt
    /\ UNCHANGED audit

GeneralProtectionFault ==
    /\ spc = "user" /\ rip <= Len(program) /\ program[rip].op = "hlt"
    /\ Halt
    /\ UNCHANGED audit

DoubleFault ==
    /\ spc = "user" /\ rip <= Len(program) /\ program[rip].op = "ud2"
    /\ Halt
    /\ audit' = Append(audit, <<"ProcessExited", 255>>)

SyscallStep ==
    \/ SyscallInstr \/ SaveRsp \/ SwitchStack \/ PushAndMarshal \/ DispatchLog
    \/ HandleYield \/ HandleScbaQuery \/ HandleExit \/ HandleUnknown
    \/ Pop \/ RestoreRsp \/ Sysret
    \/ GeneralProtectionFault \/ DoubleFault

-----------------------------------------------------------------------------
(***************************************************************************)
(* Properties.                                                             *)
(***************************************************************************)
\* A syscall is invisible to the program but for rax: whenever ring 3 runs, it
\* runs on its own stack with interrupts on, its callee-saved registers as it
\* left them and at the instruction after its last call, the syscall stack is
\* empty again, and no interrupt frame was ever pushed on its stack, although
\* the stub starts and ends there (SFMASK keeps the timer out of the window).
\* The selectors are those of gdt.rs on both sides, although SYSCALL and SYSRET
\* take theirs from STAR.
RoundTrip ==
    /\ ring = 3 => /\ rsp = UserStackTop /\ IF_ /\ rbx = UserRbx /\ stack = <<>>
                   /\ rip = SYSCALL_COUNT + 1
                   /\ seg = UserSeg
    /\ ring = 0 /\ spc # "halted" => seg = KernelSeg
    /\ ~trampled
=============================================================================
