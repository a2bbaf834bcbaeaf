-------------------------------- MODULE Ztdf --------------------------------
(***************************************************************************)
(* The driver checker (kernel/src/ztdf.rs): a driver is bound at load time *)
(* to MMIO regions, interrupt lines and system calls, and every operation  *)
(* it attempts goes through ZtdfChecker::step.  The checker only answers;  *)
(* halting the driver and logging are up to the loop around it, of which   *)
(* there are four: three in run_demo of ztdf.rs, one in                    *)
(* register_nic_with_ztdf of net.rs.                                       *)
(*                                                                         *)
(* The arrays of operations in those loops are samples of what a driver    *)
(* may do; here a driver attempts any operations, in any order.  Addresses *)
(* have the width AddrSpace, 2^64 in the code.                             *)
(***************************************************************************)
EXTENDS Naturals, Sequences, FiniteSets

CONSTANTS AddrSpace,   \* addresses are 0 .. AddrSpace - 1
          MmioChoices, \* per driver, the lists of regions its spec may have
          Irqs,        \* interrupt lines a driver may try to handle
          Syscalls,    \* system calls a driver may try
          MaxOps       \* bound: operations one driver attempts

Addresses == 0 .. AddrSpace - 1
Regions   == [start : Addresses, len : Addresses]
Drivers   == {"uart", "mal", "esc", "nic"}

ASSUME AddrSpaceAssumption == AddrSpace \in Nat \ {0}
ASSUME MmioAssumption == \A d \in Drivers : MmioChoices[d] \subseteq Seq(Regions)
ASSUME MaxOpsAssumption == MaxOps \in Nat

VARIABLES
    overflow_checks,   \* build profile: overflow panics (dev) or wraps (release)
    mmio,              \* the regions of the driver's spec
    driver,            \* the driver whose loop runs, or was the last to run
    ops_done,          \* ZtdfChecker.ops_done
    loop,              \* "idle", "running", "broken" (left by break), "over", "panic"
    logged,            \* the audit entries of this loop
    trace              \* history: what this driver attempted, with the answers

ztdfVars == <<overflow_checks, mmio, driver, ops_done, loop, logged, trace>>

-----------------------------------------------------------------------------
(***************************************************************************)
(* DriverSpec.                                                             *)
(***************************************************************************)
UartSpec == [irqs |-> {4},  syscalls |-> {1, 2}]
MalSpec  == [irqs |-> {5},  syscalls |-> {0}]
EscSpec  == [irqs |-> {},   syscalls |-> {0}]
NicSpec  == [irqs |-> {11}, syscalls |-> {1, 2, 12, 13}]

SpecOf == [uart |-> UartSpec, mal |-> MalSpec, esc |-> EscSpec, nic |-> NicSpec]

Overflows(r) == r.start + r.len >= AddrSpace

\* MmioRegion::contains, in the width of an address.
Contains_Inclusive(r, a) == a >= r.start /\ a <= (r.start + r.len) % AddrSpace
Contains(r, a) == a >= r.start /\ a < (r.start + r.len) % AddrSpace

MmioAllowed(a) == \E i \in DOMAIN mmio : Contains(mmio[i], a)

\* The sum is computed only for a >= start, and no region after the first that
\* contains a is looked at.
SumOverflows(a) ==
    \E i \in DOMAIN mmio :
      /\ a >= mmio[i].start /\ Overflows(mmio[i])
      /\ \A j \in 1 .. i - 1 : ~Contains(mmio[j], a)

Ops == ({"MmioRead", "MmioWrite"} \X Addresses)
         \cup ({"HandleIrq"} \X Irqs) \cup ({"Syscall"} \X Syscalls) \cup {<<"Exit", 0>>}

IsMmio(op) == op[1] \in {"MmioRead", "MmioWrite"}

\* ZtdfChecker::step: the answer, for an operation that does not panic.
Answer(d, op) ==
    CASE IsMmio(op)          -> IF MmioAllowed(op[2]) THEN "Ok" ELSE "FaultMmio"
      [] op[1] = "HandleIrq" -> IF op[2] \in SpecOf[d].irqs THEN "Ok" ELSE "FaultIrq"
      [] op[1] = "Syscall"   -> IF op[2] \in SpecOf[d].syscalls
                                THEN "Ok" ELSE "FaultSyscall"
      [] op[1] = "Exit"      -> "Stopped"

\* step counts the operations it let through.
Counted_Attempts(r) == ops_done + 1
Counted(r) == IF r = "Ok" THEN ops_done + 1 ELSE ops_done

\* The answers each loop writes an entry for; for the others it only prints.
UartLogs == {"Stopped"}
MalLogs  == {"FaultMmio"}
EscLogs  == {"FaultSyscall"}
NicLogs  == {}

Logs == [uart |-> UartLogs, mal |-> MalLogs, esc |-> EscLogs, nic |-> NicLogs]

Event == [Stopped |-> "DriverStopped", FaultMmio |-> "DriverFaultMmio",
          FaultSyscall |-> "DriverFaultSyscall"]

Entry(d, op, r) == IF r = "Stopped" THEN <<Event[r], d, Counted(r), 0>>
                                    ELSE <<Event[r], d, op[2], Counted(r)>>

-----------------------------------------------------------------------------
ZtdfInit ==
    /\ overflow_checks = TRUE /\ mmio = <<>>
    /\ driver = "uart" /\ ops_done = 0 /\ loop = "idle" /\ logged = <<>> /\ trace = <<>>

\* DriverLoaded is logged, ZtdfChecker::new starts from 0.  The build profile
\* matters to the drivers alone, and is chosen with the first of them.
Load(d) ==
    /\ loop = "idle"
    /\ driver' = d
    /\ mmio' \in MmioChoices[d]
    /\ overflow_checks' \in IF d = "uart" THEN BOOLEAN ELSE {overflow_checks}
    /\ ops_done' = 0
    /\ logged' = <<<<"DriverLoaded", d, 0, 0>>>>
    /\ trace' = <<>>
    /\ loop' = "running"

\* One round of a loop: step, then what the loop does with the answer.
Attempt(op) ==
    /\ loop = "running" /\ Len(trace) < MaxOps
    /\ ~(overflow_checks /\ IsMmio(op) /\ SumOverflows(op[2]))
    /\ LET r == Answer(driver, op) IN
          /\ ops_done' = Counted(r)
          /\ logged' = IF r \in Logs[driver]
                       THEN Append(logged, Entry(driver, op, r)) ELSE logged
          /\ trace' = Append(trace, [op |-> op, result |-> r])
          /\ loop' = IF r = "Ok" THEN "running" ELSE "broken"
    /\ UNCHANGED <<overflow_checks, mmio, driver>>

\* start + len overflows in the dev profile: the kernel panics.
AttemptPanics(op) ==
    /\ loop = "running" /\ Len(trace) < MaxOps
    /\ overflow_checks /\ IsMmio(op) /\ SumOverflows(op[2])
    /\ loop' = "panic"
    /\ UNCHANGED <<overflow_checks, mmio, driver, ops_done, logged, trace>>

\* The array of operations is used up.
LoopOver ==
    /\ loop = "running"
    /\ loop' = "over"
    /\ UNCHANGED <<overflow_checks, mmio, driver, ops_done, logged, trace>>

\* The function the loop is in returns.
Unload ==
    /\ loop \in {"broken", "over"}
    /\ loop' = "idle" /\ mmio' = <<>> /\ ops_done' = 0 /\ logged' = <<>> /\ trace' = <<>>
    /\ UNCHANGED <<overflow_checks, driver>>

Round == LoopOver \/ \E op \in Ops : Attempt(op) \/ AttemptPanics(op)

-----------------------------------------------------------------------------
(***************************************************************************)
(* Properties.                                                             *)
(***************************************************************************)

\* The spec read as sets, without the width of the machine.
InSpec(d, op) ==
    CASE IsMmio(op) -> \E i \in DOMAIN mmio :
                         op[2] >= mmio[i].start /\ op[2] < mmio[i].start + mmio[i].len
      [] op[1] = "HandleIrq" -> op[2] \in SpecOf[d].irqs
      [] op[1] = "Syscall"   -> op[2] \in SpecOf[d].syscalls
      [] op[1] = "Exit"      -> TRUE

ReachesTop == \E i \in DOMAIN mmio : Overflows(mmio[i])

\* "On the first violation the driver is terminated": whatever a driver attempts,
\* what step let it do is within its spec, also where start + len wraps; the
\* first operation that is not lets nothing follow; and no operation within the
\* spec is refused unless a region reaches the top of the address space.
DriverBounded ==
    \A n \in 1 .. Len(trace) :
      /\ n < Len(trace) \/ loop = "broken" => (trace[n].result = "Ok" <=> n < Len(trace))
      /\ trace[n].result = "Ok" => InSpec(driver, trace[n].op)
      /\ trace[n].result \notin {"Ok", "Stopped"} =>
           ~InSpec(driver, trace[n].op) \/ ReachesTop

Last == trace[Len(trace)]

\* What an entry about the last operation has to say: the operation, and how many
\* had been done before it.
Account ==
    LET done == Len(trace) - 1
    IN CASE Last.op[1] = "Exit"    -> <<"DriverStopped", driver, done, 0>>
         [] Last.op[1] = "Syscall" -> <<"DriverFaultSyscall", driver, Last.op[2], done>>
         [] IsMmio(Last.op)        -> <<"DriverFaultMmio", driver, Last.op[2], done>>

\* The entries of a loop can be relied on: DriverLoaded comes first, and at most
\* one more follows, once the driver is stopped, which gives the call or address
\* that was refused and the operations done before it.  And the faults the
\* demonstration reports as "TERMINATED, MEAL logged" (ztdf.rs:277-278), MMIO
\* of mal and system calls of esc, have one, as has the exit of uart.
AuditTruthful ==
    loop # "idle" =>
      /\ logged[1] = <<"DriverLoaded", driver, 0, 0>>
      /\ \/ Len(logged) = 1
         \/ Len(logged) = 2 /\ loop = "broken" /\ logged[2] = Account
      /\ loop = "broken" =>
           \/ Len(logged) = 2
           \/ ~ \/ driver = "mal" /\ IsMmio(Last.op)
                \/ driver = "esc" /\ Last.op[1] = "Syscall"
                \/ driver = "uart" /\ Last.op[1] = "Exit"

Faults == {"FaultMmio", "FaultIrq", "FaultSyscall"}

\* ztdf.rs:19, of a driver that attempts what its spec does not allow:
\* "d is terminated and the violation is logged".
FaultsLogged == loop = "broken" /\ Last.result \in Faults => Len(logged) = 2
=============================================================================
