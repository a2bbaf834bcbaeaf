----------------------------- MODULE UserSpace ------------------------------
(***************************************************************************)
(* kernel_main from the heap to ring 3 and the program it starts: Loader   *)
(* and Syscall composed.  What the program does depends on what the loader *)
(* put at its entry point: the embedded image, the hand-coded fallback, or *)
(* nothing that can be executed.                                           *)
(***************************************************************************)
EXTENDS Loader, Syscall

userVars == <<loaderVars, sysVars>>

Init == LoaderInit /\ SyscallInit

Boot ==
    /\ LoaderNext
    /\ UNCHANGED sysVars

Instr(nr, arg) == [op |-> "syscall", nr |-> nr, arg |-> arg]

\* _start of hello.s: the exit code is what ScbaQuery returned in rax.
HelloProgram == <<Instr(0, 0), Instr(9, 0), Instr(11, Rax)>>

\* USER_PROGRAM of user.rs clears rdi before Exit.
HandCoded == <<Instr(0, 0), Instr(9, 0), Instr(11, 0)>>

EntryPage == entry \div PAGE

\* The processor can fetch the first instruction.
Fetchable == EntryPage \in DOMAIN pages /\ pages[EntryPage].user /\ pages[EntryPage].x

\* The image's own program when load succeeded, its fallback otherwise.
Loaded == HeaderOk(elf) /\ ph > Len(elf.phs)

EnterUser ==
    /\ pc = "enter"
    /\ Enter(IF Loaded THEN elf.program ELSE HandCoded)
    /\ UNCHANGED loaderVars

User ==
    /\ pc = "enter" /\ Fetchable /\ SyscallStep
    /\ UNCHANGED loaderVars

Interrupt ==
    /\ TimerInterrupt
    /\ UNCHANGED loaderVars

\* The first fetch faults when the entry point is not executable.
Fault ==
    /\ pc = "enter" /\ ~Fetchable
    /\ PageFault
    /\ UNCHANGED loaderVars

Next == Boot \/ EnterUser \/ User \/ Interrupt \/ Fault

Spec == Init /\ [][Next]_userVars

\* The boot processor never stops executing; interrupts need not come.
FairSpec == Spec /\ WF_userVars(Boot \/ EnterUser \/ User \/ Fault)

-----------------------------------------------------------------------------
(***************************************************************************)
(* Properties.                                                             *)
(***************************************************************************)
\* Booting ends: the program announces its exit, or ring 3 faulted, or the
\* kernel panicked while it prepared memory.  Timer
\* interrupts, however many, cannot keep the program from its Exit call.
ReachesExit == <>(USER_EXITED \/ spc = "halted" \/ pc = "panic")
=============================================================================
