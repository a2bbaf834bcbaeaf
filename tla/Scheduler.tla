------------------------------ MODULE Scheduler ------------------------------
(***************************************************************************)
(* The SCBA scheduler: kernel/src/scheduler.rs, the task control block of  *)
(* kernel/src/task.rs, the timer interrupt of kernel/src/interrupts.rs and *)
(* kernel/src/context_switch.s.                                            *)
(*                                                                         *)
(* One processor runs either a thread or the timer handler.  The handler   *)
(* runs with interrupts off.  It takes SCHEDULER with try_lock, does the   *)
(* accounting and picks the next task under the lock (phase 1), drops the  *)
(* lock, and then fires the fence and switches stacks through a raw        *)
(* pointer into the task vector (phase 2).                                 *)
(*                                                                         *)
(* The clients of the scheduler are threads that hold the lock with        *)
(* interrupts on: they add tasks or read the statistics.  The boot thread  *)
(* adds itself first, with new_idle ("skips idle at [0]"); every later     *)
(* task is made by new_with_budget.  Thread i is the thread of task i.     *)
(*                                                                         *)
(* Counters are u64 and wrap at CounterMax + 1; u64::MAX is CounterMax.    *)
(***************************************************************************)
EXTENDS Integers, FiniteSets, FiniteSetsExt

CONSTANTS MaxTasks,    \* the most tasks a client ever adds
          CounterMax,  \* u64::MAX
          Budgets,     \* the budget_max values clients ask for
          None

Slots == 0 .. MaxTasks - 1

\* The answer of prepare_switch: old_rsp_ptr (which task's rsp), new_rsp, need_fence.
Switch == [old: Slots, new_rsp: Slots \cup {None}, need_fence: BOOLEAN]

ASSUME MaxTasksAssumption == MaxTasks \in Nat \ {0}
ASSUME CounterAssumption  == CounterMax \in Nat \ {0}
ASSUME BudgetAssumption   == Budgets \subseteq 0 .. CounterMax
ASSUME NoneAssumption     == None \notin Int \cup Switch

VARIABLES
    len,             \* tasks.len()
    state,           \* tasks[i].state
    rsp,             \* the thread whose resumable context tasks[i].rsp points at, or None
    scba,            \* tasks[i].scba
    current,         \* Scheduler::current
    total_fences,    \* stats.total_fences
    total_switches,  \* stats.total_switches
    TICKS,
    lock,            \* the thread that holds SCHEDULER, or None
    switch,          \* what phase 1 handed to phase 2, or None when no handler is active
    running,         \* the thread whose stack the processor is on, None after a wild jump
    fired,           \* history: fences executed
    waited           \* history: switches between other tasks since task i left the processor

counters == <<total_fences, total_switches, TICKS, fired>>
vars == <<len, state, rsp, scba, current, total_fences, total_switches,
          TICKS, lock, switch, running, fired, waited>>

Inc(n) == IF n = CounterMax THEN 0 ELSE n + 1

ScbaState == [budget_max: 0 .. CounterMax, budget_consumed: 0 .. CounterMax,
              fence_count: 0 .. CounterMax, epoch: 0 .. CounterMax]

ScbaNew(budget) == [budget_max |-> budget, budget_consumed |-> 0,
                    fence_count |-> 0, epoch |-> 0]

(***************************************************************************)
(* ScbaState::tick charges one tick; its result says whether the budget is *)
(* exhausted.  ScbaState::reset_epoch starts the next epoch.               *)
(***************************************************************************)
Tick(s) == [s EXCEPT !.budget_consumed = Inc(@)]

Exhausted_OffByOne(s) == s.budget_consumed > s.budget_max

Exhausted(s) == s.budget_consumed >= s.budget_max

ResetEpoch(s) == [s EXCEPT !.budget_consumed = 0,
                           !.fence_count     = Inc(@),
                           !.epoch           = Inc(@)]

Init ==
    /\ len = 0
    /\ state = [i \in Slots |-> "Ready"]
    /\ rsp = [i \in Slots |-> None]
    /\ scba = [i \in Slots |-> ScbaNew(0)]
    /\ current = 0
    /\ total_fences = 0
    /\ total_switches = 0
    /\ TICKS = 0
    /\ lock = None
    /\ switch = None
    /\ running = 0
    /\ fired = 0
    /\ waited = [i \in Slots |-> 0]

-----------------------------------------------------------------------------
(***************************************************************************)
(* Clients: the running thread, with interrupts on.                        *)
(***************************************************************************)

TryLock_Always == TRUE
TryLock == lock = None

\* SCHEDULER.lock() or a successful try_lock().
Acquire ==
    /\ switch = None
    /\ TryLock
    /\ lock' = running
    /\ UNCHANGED <<len, state, rsp, scba, current, counters, switch, running, waited>>

NewIdleState_Ready == "Ready"
NewIdleState == "Running"

\* Task::new_idle for the boot thread: Running, no saved context, budget u64::MAX.
AddIdle ==
    /\ switch = None
    /\ lock = running
    /\ len = 0
    /\ len' = 1
    /\ state' = [state EXCEPT ![0] = NewIdleState]
    /\ rsp' = [rsp EXCEPT ![0] = None]
    /\ scba' = [scba EXCEPT ![0] = ScbaNew(CounterMax)]
    /\ lock' = None
    /\ UNCHANGED <<current, counters, switch, running, waited>>

\* Task::new_with_budget: Ready, its rsp at an initial context on its own stack.
AddTask(budget) ==
    /\ switch = None
    /\ lock = running
    /\ len \in 1 .. MaxTasks - 1
    /\ len' = len + 1
    /\ state' = [state EXCEPT ![len] = "Ready"]
    /\ rsp' = [rsp EXCEPT ![len] = len]
    /\ scba' = [scba EXCEPT ![len] = ScbaNew(budget)]
    /\ lock' = None
    /\ UNCHANGED <<current, counters, switch, running, waited>>

\* A reader of the statistics drops its guard.
Release ==
    /\ switch = None
    /\ lock # None
    /\ lock = running
    /\ lock' = None
    /\ UNCHANGED <<len, state, rsp, scba, current, counters, switch, running, waited>>

-----------------------------------------------------------------------------
(***************************************************************************)
(* The timer handler.                                                      *)
(***************************************************************************)

\* The round-robin scan over st starts at old + 1 and stops at the first Ready task.
ReadyDistances_FromOld(st, old) == {d \in 0 .. len - 1 : st[(old + d) % len] = "Ready"}
ReadyDistances(st, old) == {d \in 1 .. len : st[(old + d) % len] = "Ready"}

NextReady_LowestIndex(st, old) == Min({i \in 0 .. len - 1 : i # old /\ st[i] = "Ready"})
NextReady(st, old) == (old + Min(ReadyDistances(st, old))) % len

\* try_lock fails: the tick is counted in TICKS and nowhere else.
TimerLockBusy ==
    /\ switch = None
    /\ ~TryLock
    /\ TICKS' = Inc(TICKS)
    /\ UNCHANGED <<len, state, rsp, scba, current, total_fences, total_switches,
                   lock, switch, running, fired, waited>>

\* prepare_switch returns None before any accounting.
TimerTooFewTasks ==
    /\ switch = None
    /\ TryLock
    /\ len < 2
    /\ TICKS' = Inc(TICKS)
    /\ UNCHANGED <<len, state, rsp, scba, current, total_fences, total_switches,
                   lock, switch, running, fired, waited>>

(***************************************************************************)
(* prepare_switch with two tasks or more: charge the current task, start   *)
(* its next epoch if the budget is exhausted, make it Ready, pick the next *)
(* Ready task.  The old task is Ready by then, so the scan always ends at  *)
(* the latest on the old task itself, and then there is no switch (and no  *)
(* fence either, although total_fences has counted one).                   *)
(***************************************************************************)
TimerPrepareSwitch ==
    /\ switch = None
    /\ TryLock
    /\ len >= 2
    /\ LET old     == current
           ticked  == Tick(scba[old])
           fence   == Exhausted(ticked)
           readied == [state EXCEPT ![old] = "Ready"]
           next    == NextReady(readied, old)
       IN /\ scba' = [scba EXCEPT ![old] = IF fence THEN ResetEpoch(ticked) ELSE ticked]
          /\ total_fences' = IF fence THEN Inc(total_fences) ELSE total_fences
          /\ IF next = old
             THEN /\ state' = readied
                  /\ UNCHANGED <<current, total_switches, switch>>
             ELSE /\ state' = [readied EXCEPT ![next] = "Running"]
                  /\ current' = next
                  /\ total_switches' = Inc(total_switches)
                  /\ switch' = [old |-> old, new_rsp |-> rsp[next], need_fence |-> fence]
    /\ TICKS' = Inc(TICKS)
    /\ UNCHANGED <<len, rsp, lock, running, fired, waited>>

(***************************************************************************)
(* context_switch saves the context of the thread on the processor through *)
(* old_rsp_ptr and pops the one at new_rsp, so that nothing points at a    *)
(* resumable copy of it any more.                                          *)
(***************************************************************************)
ContextSwitch_SavesIntoNext(old, new_rsp) ==
    [i \in Slots |-> IF i = current THEN running
                     ELSE IF rsp[i] = new_rsp THEN None ELSE rsp[i]]

ContextSwitch(old, new_rsp) ==
    [i \in Slots |-> IF i = old THEN running
                     ELSE IF rsp[i] = new_rsp THEN None ELSE rsp[i]]

\* perform_switch: the fence, then context_switch.
PerformSwitch ==
    /\ switch # None
    /\ fired' = IF switch.need_fence THEN Inc(fired) ELSE fired
    /\ rsp' = ContextSwitch(switch.old, switch.new_rsp)
    /\ running' = switch.new_rsp
    /\ waited' = [i \in Slots |-> IF i >= len \/ i \in {switch.old, switch.new_rsp} THEN 0
                                  ELSE waited[i] + 1]
    /\ switch' = None
    /\ UNCHANGED <<len, state, scba, current, total_fences, total_switches, TICKS, lock>>

Client == Acquire \/ AddIdle \/ (\E b \in Budgets : AddTask(b)) \/ Release
Timer  == TimerLockBusy \/ TimerTooFewTasks \/ TimerPrepareSwitch \/ PerformSwitch

Next == Client \/ Timer

Spec == Init /\ [][Next]_vars

(***************************************************************************)
(* Fairness.  The timer never stops, the handler runs to its end, and a    *)
(* thread that holds the lock and is on the processor drops it.  A tick    *)
(* that finds the lock free comes again and again although any one tick    *)
(* may find it taken: the timer is asynchronous to the code.               *)
(***************************************************************************)
Fairness ==
    /\ WF_vars(PerformSwitch)
    /\ WF_vars(Release)
    /\ SF_vars(TimerPrepareSwitch)

FairSpec == Spec /\ Fairness

-----------------------------------------------------------------------------
\* The tasks in the vector.
Tasks == 0 .. len - 1

\* Every field keeps its Rust type; a pending switch names tasks of the vector.
TypeOK ==
    /\ len \in 0 .. MaxTasks
    /\ state \in [Slots -> {"Ready", "Running"}]
    /\ rsp \in [Slots -> Slots \cup {None}]
    /\ scba \in [Slots -> ScbaState]
    /\ current \in Slots
    /\ total_fences \in 0 .. CounterMax
    /\ total_switches \in 0 .. CounterMax
    /\ TICKS \in 0 .. CounterMax
    /\ lock \in Slots \cup {None}
    /\ switch \in Switch \cup {None}
    /\ running \in Slots \cup {None}
    /\ fired \in 0 .. CounterMax
    /\ waited \in [Slots -> Nat]

(***************************************************************************)
(* The two-phase switch of timer_interrupt_handler puts the processor on   *)
(* the stack of the task the scheduler calls current: between the phases   *)
(* the old thread is still on it and new_rsp is the new current task's own *)
(* context.  Every task that is off the processor has its own, latest      *)
(* context in rsp; no switch ever loads the null rsp of new_idle.          *)
(***************************************************************************)
RightStack ==
    IF switch = None
    THEN /\ running = current
         /\ \A i \in Tasks \ {current} : rsp[i] = i
    ELSE /\ running = switch.old
         /\ switch.new_rsp = current
         /\ \A i \in Tasks \ {switch.old} : rsp[i] = i

\* prepare_switch leaves exactly the current task Running, whatever was added when.
OneRunning == \A i \in Tasks : state[i] = "Running" <=> i = current

(***************************************************************************)
(* Every fence prepare_switch counts in total_fences is executed by        *)
(* perform_switch: the early returns after the accounting, which would     *)
(* count a fence and skip it, are never taken.                             *)
(***************************************************************************)
FencesFired ==
    total_fences = IF switch # None /\ switch.need_fence THEN Inc(fired) ELSE fired

\* Outside prepare_switch no task has used up its budget: the epoch ended first.
BudgetBound ==
    \A i \in Tasks : scba[i].budget_consumed = 0
                     \/ scba[i].budget_consumed < scba[i].budget_max

(***************************************************************************)
(* The thread that holds SCHEDULER is on the processor and no switch is    *)
(* under way ("Lock MUST be free" in phase 2): a holder is never preempted *)
(* by another task, so that lock() never spins and a try_lock outside the  *)
(* timer handler, as in main.rs and in system call 9, never fails.         *)
(***************************************************************************)
HolderRuns == lock # None => switch = None /\ lock = running

(***************************************************************************)
(* Round robin: while a task waits, at most len - 2 switches pass between  *)
(* the others, also when tasks are added meanwhile.                        *)
(***************************************************************************)
BoundedWait == \A i \in Tasks \ {current} : waited[i] <= len - 2

\* Once there are two tasks, every task is on the processor again and again.
EveryTaskRuns == \A i \in Slots : []<>(len >= 2 /\ i < len => running = i)

\* "On every timer tick: 1. Tick the current task's budget counter" (scheduler.rs).
EveryTickCharged == [][TICKS' # TICKS /\ len >= 2 => scba'[current] # scba[current]]_vars
=============================================================================
