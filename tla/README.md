# AXIOM OS in TLA+

A verification development for the AXIOM kernel: TLA+ modules translated from
`kernel/src`, TLC runs on small instances, and TLAPS proofs of the central
invariants for every instance.

## The system and its parts

AXIOM is a single-address-space x86-64 kernel that boots, runs a demonstration
of each of its subsystems on the boot processor, and enters one ring-3 program.

| Part | Source | Modules | State of the work |
|---|---|---|---|
| SCBA scheduler, timer, context switch | `scheduler.rs`, `task.rs`, `interrupts.rs`, `context_switch.s` | `Scheduler`, `SchedulerProofs` | modelled, proved |
| MEAL audit log | `meal.rs`, report in `main.rs` | `Meal`, `MealProofs` | modelled, proved |
| EIPC channel | `eipc.rs`, AEAD of `poly1305.rs`, `crypto_aead.rs` | `Eipc`, `BoundedFifo`, `EipcProofs` | modelled, proved, refinement proved |
| SMP bring-up | `smp.rs`, lock of `serial.rs` | `Smp`, `SmpProofs` | partly: no ACPI search, no mode switches; proved |
| TCD capabilities | `axiom/capability.rs` | `Capability`, `Demos`, `PolicyProofs` | modelled, proved |
| Security lattice | `lattice.rs` | `Lattice`, `Demos`, `PolicyProofs` | modelled, proved |
| Frames, heap mapping, ELF loader, user set-up | `memory.rs`, `allocator.rs`, `elf_loader.rs`, `user.rs` | `Loader`, `UserSpace`, `UserSpaceProofs` | modelled, proved |
| System calls, ring 3, faults, selectors | `syscall.rs`, `syscall_entry.s`, `user.rs`, `interrupts.rs`, `gdt.rs` | `Syscall`, `UserSpace`, `UserSpaceProofs` | modelled, proved |
| Driver checker (ZTDF) | `ztdf.rs`, registration in `net.rs` | `Ztdf`, `Demos`, `DemosProofs` | modelled, proved |
| Network parsing and transmission | `net.rs` | `Net`, `Demos`, `DemosProofs` | partly: lengths and offsets; proved |
| Memory zeroing (VMZ) | `vmz.rs` | `Vmz`, `Demos`, `DemosProofs` | modelled, proved |
| Interrupt-safe log buffer | `log_buffer.rs` | `LogBuffer`, `LogBufferProofs` | modelled, proved; it has no caller |
| Boot sequence | `main.rs` | `UserSpace`, `Demos` | partly: heap to ring 3, five demonstrations |
| Cryptography | `crypto.rs`, `crypto_aead.rs`, `poly1305.rs` | used by `Meal`, `Capability`, `Eipc` | symbolic only |
| Interrupt tables | `gdt.rs`, `interrupts.rs` | handlers in `Scheduler`, `Syscall` | IDT, TSS and PIC not modelled |
| Console | `serial.rs`, `framebuffer.rs` | lock of the serial port in `Smp` | otherwise output only |
| Toy hash | `axiom/demo_crypto.rs` | – | superseded, unused |
| Host side | `boot/`, `scripts/`, `tests/`, `axiom-tests/`, `lean/` | – | not part of the kernel (`userspace/hello.s` is the program of `UserSpace`) |

How they interact: the timer handler drives the scheduler and `TICKS`, which
stamps the audit log; every subsystem logs to MEAL through `meal::log`; EIPC and
the capabilities rest on `crypto.rs`; the network driver is bound by the driver
checker; the loader and the system calls meet in `kernel_main`, composed in
`UserSpace`, and the demonstrations of capabilities, memory zeroing, lattice,
drivers and network run there one after the other, composed in `Demos`.

## Modules and their correspondence to the code

Variables and actions keep the names of the fields and functions. Each action is
a whole handler, or the part of it between two points at which another actor can
act (a lock taken or released, an interrupt window, a store another processor
reads). History variables, marked so in the modules, record the past for the
properties and influence nothing.

**Scheduler.** One processor runs a thread or the timer handler. The handler is
two steps, as in the source: `prepare_switch` under the lock (`TimerPrepareSwitch`,
or `TimerLockBusy` and `TimerTooFewTasks` for its early ends) and `PerformSwitch`
after the lock was dropped. `rsp[i]` is the thread whose saved context `tasks[i].rsp`
points at; `running` is the thread whose stack the processor is on. Clients
are threads that hold `SCHEDULER` with interrupts on and call `add_task` or read
statistics; at this commit no code adds a task, so the model takes the public
functions, used as their comments describe (the idle task first), as its
interface. Counters wrap, as in a release build. `throttle_count` is left out:
no code writes it.

**Meal.** The ring, `write_head`, `total`, `chain_tip`; `log()` takes the lock
(`LogTakesLock`) and appends (`MealAppend`), or drops the event (`LogDrops`).
The boot report holds the lock while it verifies. Callers can be preempted
between the two steps. Hashes are symbolic: equal results mean equal inputs.

**Eipc.** The channel, the sending loop and the receiving loop. `run_demo` runs
one after the other; the model also runs them on two tasks (`concurrent`), the
use the lock is there for. With two tasks `meal::log` may find the log locked by
the other one, and the entry is lost; `audit` records every call with its fate.
`CorruptSlot` flips a bit of a queued ciphertext; its number is bounded by
`MaxFlips`. `BoundedFifo` is the abstract specification.

**Smp.** The walk over the MADT entries, the boot processor's loop, with the
stores to the control block as separate steps (core id, then stack) and the lines it
prints in between, and every application processor's way through the trampoline and
`ap_main`. An application processor may be slow at any point or never start.
`serial` is the lock of the serial port: the boot processor spins for it whenever it
prints, a started processor holds it while it prints its line, and an INIT that hits
it then leaves the lock taken. Not modelled: finding the ACPI tables, the mode
switches, `add_trampoline_identity_map`, and the two bytes `init` clears before it
writes a control block (`smp.rs:354-357`). One of them, at 0x50FFE, is byte 6 of the
pointer to `ap_main`; it is 0 anyway for a kernel in the lower half of the address
space, and `install_trampoline` stores it again, but in a kernel loaded in the upper
half a late processor could load the pointer in between.
`smp_trampoline.s` is assembled but never copied to its place; the code that runs is
`AP_TRAMPOLINE_BIN`.

**Capability.** The set of issued capabilities, a clock, and copies altered in any
field, or given the MAC or the parent hash of another capability, that are presented
to `verify` and `derive` as well (`Changes`). `MAX_DEPTH` stands for 64. All of them are locals of
the demonstration and gone when it returns.

**Lattice.** The lattice in use, a secret that appears in the objects of one label
(`Classify`) and spreads by permitted reads and writes, reconfigurations as in section 5 of `run_demo`, and
proposals given to `verify` as in section 6. `Undisturbed` names the one state
proposals are tried from: `verify` depends on its argument alone. `verify` of a
lattice is named `VerifyLattice`, beside `Verify` of a capability.

**Loader.** The memory map, the frame allocator, one level of page tables
standing for the three `map_to` creates on demand, the heap mapping, the
trampoline page, the ELF loader and its fallback, the user stack. `Junk` is what
a frame held before. `map_to` is external and modelled from its use: it takes
frames for missing tables and refuses a mapped page, one of the bootloader's
(`BootPages`: the kernel, the physical-memory window) included. The slices of a
program header have fixed lengths and may lie beyond the file although `e_phentsize`
says they do not, and `VirtAddr::new` does not take every address (`NonCanonical`):
both are panics. `WellFormed` excludes the images that meet any of these. Offset
arithmetic in `elf_loader.rs` does not overflow for the image embedded at build time
and is modelled without width.

**Syscall.** The SYSCALL stub register by register, the dispatcher, the fault
handlers, the timer. One callee-saved register stands for the six that are pushed;
R11 is left out because IF is the only flag modelled and is set in ring 3. The
selectors come from two places: the descriptor table `gdt.rs` builds, and what
SYSCALL and SYSRET compute from STAR, which `syscall.rs` writes; `RoundTrip`
compares them.

**UserSpace.** `kernel_main` from `init_heap` to ring 3: Loader and Syscall
composed. Which program runs depends on what the loader left at the entry point.

**Ztdf.** `MmioRegion::contains` in the width of an address, `step`, and the four
loops that drive it, which differ in what they log. The arrays of operations in
those loops are samples; a driver of the model attempts any operations. The sum
in `contains` overflows for a region at the top of the address space: a panic in
a dev build, a wrap in a release build (`overflow_checks`).

**Net.** `process_frame` with its parsers, and `transmit_eipc_udp`. A frame is its
length and the fields the parsers branch on; a slice is an interval of offsets.
The two length fields are modulo 2^16, as the casts in the code make them.

**Vmz.** The buffer among its neighbours on the heap: filled, zeroed, verified,
reported, and given back whatever the verification said.

**Demos.** Capability, Vmz, Lattice, Ztdf and Net composed in the order of
`kernel_main`; what is local to a demonstration is gone when it returns.

**LogBuffer.** `push` in several contexts and one `drain`, interleaved access by
access: the `fetch_add`, each word of an entry stored or copied, the loads of the
heads. A word names the push that wrote it, so that torn, lost and repeated
entries can be told apart.

## Runs

| Run | What it checks | Bounds |
|---|---|---|
| `scheduler` | right stack, one running task, counted fences fire, budgets, lock holder on the processor, bounded wait, every task runs | 4 tasks, counters modulo 4, budgets 0 and 2 |
| `scheduler_ticks` | refutes "On every timer tick: 1. Tick the current task's budget counter." | 2 tasks |
| `meal` | the ring is the latest entries, the chain verifies, order, changes detected | 3 slots, 7 entries, 2 callers, 2 payloads, 1 tick, 1 loss |
| `eipc` | ring shape, delivery in order and intact, audit order, refinement of `BoundedFifo`, the loop ends | 3 slots, 4 messages, 1 corrupted, any entries lost between two tasks |
| `smp` | own stack and id, the total, boot continues although all print through one lock | 4 processors, 3 `CORE_LOCALS`, MADTs with foreign, disabled, broken and repeated entries |
| `smp_stacks` | refutes "Per-AP stacks" | as above, boot processor 0 |
| `lattice_joins` | refutes "Joins exist: … (least upper bound)" | one order on 6 labels |
| `user_space` | frames used once, no stale bytes, image in memory, good images load, invisible system calls, booting ends | 62 images, 9 memory maps, pages of 2 bytes |
| `log_buffer` | delivered once and in order, slots shared only after drain overtook a push, the reader stays behind | 2 slots, 2 writers, 5 pushes, drains of up to 2 |
| `log_buffer_slots` | refutes "no two callers ever get the same slot index simultaneously" | as above |
| `demos` | capabilities: only issued ones verify, provenance, death inherited; lattice: flows go upward, stays verified, `verify`/`join`/`meet` against order theory; drivers bounded, their audit entries truthful; parsers in bounds, what is sent parses; zeroed before freed | 3 capabilities of 2 objects, depth 2, 2 rights, 1 altered copy, times 0 to 2; 6 labels, all relations on 3, the reflexive ones on 4, all of 3 between a bottom and a top; 8 addresses, 3 operations per driver; 17 frame lengths, 6 payload lengths up to 65528; a heap of 6 bytes |
| `demos_faults` | refutes "d is terminated and the violation is logged" | as above |

Why the bounds are enough to be interesting: the audit ring wraps twice; the
channel is filled, refuses a message, and wraps; every scheduler counter wraps
and three tasks compete with the idle task, so that a scan can skip one; one APIC
id is out of range and any processor may be the boot processor; frames run out at
every allocation; segments start, end and meet inside pages and on boundaries, run
into the kernel's pages and into addresses that are not canonical, and program
headers end on both sides of the file's end; a grandchild capability sees its grandparent expire; the log buffer is lapped
twice and a half while a writer is stopped between two stores; regions end at the
top of the address space and beyond it; frame lengths lie on both sides of every
test of the parsers and payloads on both sides of what 16 bits hold. Callers of
the audit log, writers of the log buffer and objects of capabilities are
interchangeable and form symmetry sets.

Deadlock checking is off where the modelled code ends (the demos of EIPC, SMP,
and those of `Demos`, the spinning or halted user program).
In `scheduler`, `meal` and `log_buffer` it is on.

### What the refuted statements show

* `scheduler_ticks`: a tick that finds the scheduler locked is counted in
  `TICKS` and charged to nobody (`interrupts.rs:158`).
* `smp_stacks`: after the 200 ms timeout the control block is rewritten while the
  slow processor may not have read it; two processors then share a stack.
  `OwnStackAndId` shows that this is the only way: it holds while no processor
  acts outside the window in which it is waited for.
* `lattice_joins`: `join` returns the first upper bound by index and `verify` only
  asks that there is one. `VerifyDecidesOrder` states what `verify` does decide
  (bounded partial orders), `BoundsAreBest` when its joins and meets are best.
* `demos_faults`: the checker only answers; whether a refusal gets an entry depends on
  the loop around it. The network driver's loop (`net.rs:371`) and the first
  demonstration driver's (`ztdf.rs:185`) log none, the other two only the fault they
  expect, and there is no event for an interrupt fault. `AuditTruthful` says what can
  be relied on: the entries that are written are right, and the two faults the
  demonstration reports as logged are.
* `log_buffer_slots`: drain takes a slot for finished when its kind is not Empty. The
  push may still have other words to store, or, from the second lap on, all of them
  (the kind is the one of the lap before); the next lap may then claim the slot too.
  `SharedIfOvertaken` shows that without a lap this is the only way.

One more sentence of the sources holds only with a qualification:

* `meal.rs:3`, "Every security event is written": an event logged while the lock
  is held is dropped (`LogDrops`, `meal.rs:209`); the properties of `Meal` are about
  the entries that were written.

### Fairness

* Scheduler: the handler finishes (WF of `PerformSwitch`), a lock holder on the
  processor releases it (WF of `Release`; all holders are straight-line code),
  and ticks find the lock free again and again (SF of `TimerPrepareSwitch`; the
  timer is asynchronous to the holders).
* Eipc: each loop keeps running (WF); they contend only for a lock held for one
  ring operation.
* Smp: the boot processor keeps running (WF). Of the others only this is assumed: one
  that prints its line finishes it (WF of `ApPrinted`; `_print` disables interrupts).
  One that is stopped by an INIT takes no step, so nothing is assumed of it.
* UserSpace: the boot processor keeps executing (WF); interrupts need not come,
  and however many come do not stop the program.

Meal, LogBuffer and Demos are checked for safety only.

## Proofs

Eight modules hold the theorems. Each extends its component, defines an
inductive invariant, proves it action by action and derives the properties that
the runs check from it. The theorems hold for every value of the constants that
meets the named `ASSUME`s; TLC evaluates those on every run.

* `SchedulerProofs` (`SchedInv`): any number of tasks, counter width and budgets.
  Besides the six invariants of the run: a pending switch is between two different
  tasks of the vector and belongs to what the processor is doing; slots beyond the
  vector keep their initial history; a task's waiting time is bounded by its
  distance behind the current task in round-robin order, which makes `BoundedWait`
  inductive. `ScanFindsSuccessor` reduces the scan to "the next index".
* `MealProofs` (`MealInv`): any capacity, callers and payloads. The ring is
  related slot by slot to the tail of the whole history, the history is linked from
  entry to entry (`Chained`), and so every check of `verify_chain` succeeds across
  any number of wraps. Conversely every link it checks names one entry of the history
  (`NamesItsPredecessor`), which gives `ChangesAlwaysDetected` for the three changes
  the run tries, and `AcceptedIsConsecutive` for any ring put together from written
  entries: what is accepted is consecutive.
* `EipcProofs` (`EipcInv`): any capacity, number of messages and corruptions.
  `RingInv` places the i-th message at `(head + i) % CAP` and nothing elsewhere;
  `NumbersInv` orders the numbers delivered, at hand, in the ring and not yet sent;
  `AuditInv` justifies each entry. `ChannelIsFifo` proves the refinement of
  `BoundedFifo`: `enqueue` appends to the queue, `dequeue` removes its head, every
  other step, corruption included, leaves it alone. `CheckInv` counts: accepted is
  opened plus at hand plus queued (`NoMessageLost`), from which the safety half of
  `ReceiverFinishes` follows (`CheckpointPasses`: whenever the demo gets to its
  checkpoint uncorrupted, the condition there holds).
* `PolicyProofs` (`CapInv` and `LatticeInv`): the two components that decide what is
  allowed, within `Demos`. Capabilities: any objects, rights, depth limit and clock. Issued
  capabilities carry their own MAC and stand one level below a parent they do not
  exceed; altered ones, in whichever field, authenticate only where they equal an
  issued one. `DeathReachesDown` follows chains of any length. Lattice: any number of labels. The lattice in use is a bounded order after
  every reconfiguration, and whoever knows the secret dominates its label.
  `VerifyIsExact` and `ScansAreBest` are about matrices of any size: the loops of
  `verify`, `join` and `meet` against the definitions of order theory.
* `SmpProofs` (`SmpInv`): any MADT, number of cores and timing. `MadtParsed` says what
  the walk over a table of any length returns. `BlockInv`: while the boot processor
  is busy with a processor the control block is that processor's, so whoever loads
  from it then gets its own stack and id (`OwnInv`); `late` remembers who did not.
  `StartedInv`: once a processor was started the block is never again incomplete, so
  that even a late one stays within `AP_STACKS` and `CORE_LOCALS` and never takes the
  boot processor's id (`LateApsStayWithin`). `CountInv`: processors still to come are
  off, and `APS_ONLINE` is the number of those that have counted themselves, whose ids
  are marked online (`MarkedInv`). `SummaryIsSafe` then needs that no processor is
  listed twice and that no two report under one id, but nothing about their timing.
* `LogBufferProofs` (`LogInv`): any capacity, writers and drain budgets. While the
  ring is calm, `Written` and `Unwritten` say of each word of each slot which push
  it comes from, `OneLapAhead` keeps tickets in progress ahead of the reader, and
  `Copied` relates the drain's partial copy to the slot. Where only laps are excluded
  (`NotLapped`), `FirstKinds` and `KindCopied` keep the kinds of the first lap apart
  from those still to be stored.
* `DemosProofs` (`DemosInv`): any address width, specs, operations, frame and
  payload lengths, buffer size and place. Each answer in a driver's trace is
  justified by its spec; the trace, `ops_done` and the audit entries fit together at
  every point of the loop, from which `AuditTruthful` follows: it says what an entry
  must contain in terms of the operations attempted. The parsers' bounds and the
  modular length fields are arithmetic lemmas.
* `UserSpaceProofs` (`SysInv` and `LoaderInv`): any memory map, image, heap size,
  page size, page table size and program. `SysInv` says at each point of the stub
  what is in the registers and on the stack. `LoaderInv` has four parts. `FrameInv`:
  frames in use lie before `next` in the allocator's order, each with one user.
  `MemInv`: frames of user pages hold written bytes. `LoadInv`: pages of finished
  segments, and of the one at hand up to `vpage`, hold their part of the file.
  `GoodInv`: which pages are mapped when the image is well formed, so that a failure
  can only be one of the allocator. `SegmentPages` and `SegmentByte` show that the
  page loop covers exactly the pages a segment touches and that the copy offsets
  within a page put each byte at its address. `PagesStay` is an action property: no
  step changes the frame, the flags or the bytes of a page mapped earlier.

Assumptions: positive sizes and natural bounds; budgets within the counter;
`None` distinct from values; messages of the channel numbered below the one of the
tamper test; proposed lattices with bounds among their labels; specs that are lists
of regions; images whose headers and bytes are of the types the parser reads;
memory maps whose usable regions do not overlap; the fixed pages of the layout apart,
heap and user stack also from the bootloader's; MADTs that are sequences of entries.
The symbolic hash, MAC and cipher are definitions, so that no assumption on them is
made.

Induction over data is done by least counterexample: a nonempty set of naturals has
a least element (`LeastElement`, from the well-founded order of the naturals). A
recursive function is first shown to exist (`ScanExists`, `ClimbExists`,
`ParseExists`), so that its defining equation may be used (`MeetIsScan`,
`AncestorsAreClimb`, `ParseIsLoop`).

Some statements of the proofs are not among the properties of a run; `AcceptedIsHistory`,
`NothingLost`, `Checkpoint`, `Stays` and `WithinCoreLocals` were checked on small
instances before they were proved.

Only model-checked is liveness (`EveryTaskRuns`, `ReceiverFinishes`, `BootContinues`,
`ReachesExit`), which is out of the prover's reach. Every invariant and the refinement
that a passing run checks are also proved.

## What is not modelled, and limits of the models

* The bit arithmetic of SHA-256, ChaCha20 and Poly1305 (the repository tests it
  against published vectors). It has no control flow a property of the kernel
  depends on.
* Building the IDT and TSS, programming the PIC, the search for the
  ACPI tables and the mode switches of the trampoline: fixed sequences of register
  and memory writes that nothing interleaves with.
* The heap allocator (crate `linked_list_allocator`) and the levels of page tables
  inside `map_to` (crate `x86_64`).
* In `net.rs`: addresses and ports, which no branch depends on, and
  `EtherFrame::serialize` and the virtqueue types, which nothing uses.
* `verify_chain` accepts a log whose newest or oldest entries are missing:
  `ChangesDetected` claims nothing about the ends.
* The summary of `smp.rs` may be one too small (`is_online` is stored before
  `APS_ONLINE` is incremented). It can be too large in three ways, which
  `SummaryNeverOvercounts` names: two processors report under one id, because a late
  one read the control block of the next; the boot processor has another id than 0 and
  shares its line with processor 0; a processor is listed twice in the MADT and is
  started twice.
* `BootContinues` excludes two cases. A processor listed twice may be hit by its second
  INIT while it holds the lock of the serial port, and then the boot processor spins for
  ever. And two processors on one stack overwrite each other's frames; what they do
  after that is not followed.
* A message that a full channel refused is logged as sent (`eipc.rs:145-149`); the
  properties of `Eipc` are about what is delivered, and about the entries of messages
  that were received.
* `StaysVerified` holds because the one edit of the code is a good one; the verdict of
  `verify` on it is printed and not acted on.
* The frame at 0x50000 is mapped without asking the frame allocator;
  `FramesUsedOnce` covers that page only for memory maps that keep it out.
* `LogBuffer` has one drain: `READ_HEAD` makes sense for a single consumer only.
* After `Exit` the program continues in ring 3; `ReachesExit` is about the call.
* A load that fails after it mapped the code page makes the fallback panic
  (`user.rs:88`); `ReachesExit` counts a panic as an end.

## Possible next steps

* Liveness of `Eipc` and `Smp` from a measure that every step decreases.
* The audit entries of all the demonstrations in boot order, against what
  `scripts/verify_boot.py` and `scripts/meal_persist.py` expect.
