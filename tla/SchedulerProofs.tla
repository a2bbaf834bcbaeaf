--------------------------- MODULE SchedulerProofs ---------------------------
(***************************************************************************)
(* Proofs about Scheduler for every number of tasks, every counter width   *)
(* and every budget.  The inductive invariant SchedInv joins the checked   *)
(* invariants with what each needs of the others: a pending switch is      *)
(* between two different tasks of the vector, an unused task slot keeps    *)
(* its initial history, and the waiting time of a task is bounded by its   *)
(* distance behind the current one.                                        *)
(***************************************************************************)
EXTENDS Scheduler, TLAPS

-----------------------------------------------------------------------------
(***************************************************************************)
(* Arithmetic of the round-robin scan.                                     *)
(***************************************************************************)

\* An index taken modulo the vector's length is an index of the vector.
LEMMA ModRange ==
  ASSUME NEW n \in Nat \ {0}, NEW x \in Nat
  PROVE  x % n \in 0 .. n - 1
  OBVIOUS

\* The index after x, modulo the length.
LEMMA ModSucc ==
  ASSUME NEW n \in Nat \ {0}, NEW x \in 0 .. n - 1
  PROVE  (x + 1) % n = IF x + 1 = n THEN 0 ELSE x + 1
  OBVIOUS

\* The least distance the scan can return is one.
LEMMA MinInterval ==
  ASSUME NEW n \in Nat \ {0}
  PROVE  Min(1 .. n) = 1
  BY DEF Min

\* A wrapping counter stays in its range.
LEMMA IncType ==
  ASSUME NEW n \in 0 .. CounterMax
  PROVE  Inc(n) \in 0 .. CounterMax
  BY CounterAssumption DEF Inc

\* reset_epoch starts an epoch with nothing consumed and keeps the other fields in range.
LEMMA ResetEpochType ==
  ASSUME NEW s \in ScbaState
  PROVE  ResetEpoch(s) \in ScbaState /\ ResetEpoch(s).budget_consumed = 0
<1>1. Inc(s.fence_count) \in 0 .. CounterMax /\ Inc(s.epoch) \in 0 .. CounterMax
  BY IncType DEF ScbaState
<1>2. ResetEpoch(s) \in [budget_max: 0 .. CounterMax, budget_consumed: {0},
                         fence_count: {Inc(s.fence_count)}, epoch: {Inc(s.epoch)}]
  BY DEF ResetEpoch, ScbaState
<1> QED
  BY <1>1, <1>2, CounterAssumption DEF ScbaState

\* The task after i in round-robin order.
Succ(i) == IF i + 1 = len THEN 0 ELSE i + 1

\* When every task is Ready the scan of prepare_switch picks the next index.
LEMMA ScanFindsSuccessor ==
  ASSUME NEW st, NEW old \in Tasks, len \in Nat, len >= 2,
         \A i \in Tasks : st[i] = "Ready"
  PROVE  /\ NextReady(st, old) = Succ(old)
         /\ Succ(old) \in Tasks
         /\ Succ(old) # old
<1>1. ReadyDistances(st, old) = 1 .. len
  <2>1. \A d \in 1 .. len : (old + d) % len \in Tasks
    BY ModRange DEF Tasks
  <2> QED
    BY <2>1 DEF ReadyDistances
<1>2. NextReady(st, old) = (old + 1) % len
  BY <1>1, MinInterval DEF NextReady
<1> QED
  BY <1>2, ModSucc DEF Succ, Tasks

-----------------------------------------------------------------------------
(***************************************************************************)
(* The inductive invariant.                                                *)
(***************************************************************************)

\* The current index is inside the vector once there is one.
CurrentInVector == IF len = 0 THEN current = 0 ELSE current \in Tasks

\* A pending switch is between two tasks of the vector.
SwitchInVector ==
    switch # None => /\ switch.old \in Tasks
                     /\ switch.old # current
                     /\ current = Succ(switch.old)

\* How long a task can have waited, by its distance behind the task on the processor.
OnProcessor == IF switch = None THEN current ELSE switch.old

MaxWait(i, on, n) == IF i < on THEN on - i - 1 ELSE n - i + on - 1

WaitBound ==
    /\ waited[OnProcessor] = 0
    /\ \A i \in Tasks : i # OnProcessor => waited[i] <= MaxWait(i, OnProcessor, len)

UnusedSlots == \A i \in Slots \ Tasks : waited[i] = 0

SchedInv ==
    /\ TypeOK
    /\ CurrentInVector
    /\ SwitchInVector
    /\ RightStack
    /\ OneRunning
    /\ FencesFired
    /\ BudgetBound
    /\ HolderRuns
    /\ WaitBound
    /\ UnusedSlots

\* The scheduler starts empty, with the boot thread on the processor.
LEMMA InitInv == Init => SchedInv
<1> SUFFICES ASSUME Init PROVE SchedInv
  OBVIOUS
<1> USE MaxTasksAssumption, CounterAssumption, NoneAssumption
<1>1. TypeOK
  BY DEF Init, TypeOK, Slots, ScbaState, ScbaNew
<1>2. CurrentInVector /\ SwitchInVector /\ RightStack /\ OneRunning
  BY DEF Init, CurrentInVector, SwitchInVector, RightStack, OneRunning, Tasks
<1>3. FencesFired /\ BudgetBound /\ HolderRuns /\ WaitBound /\ UnusedSlots
  BY DEF Init, FencesFired, BudgetBound, HolderRuns, WaitBound, OnProcessor, UnusedSlots,
         Tasks, Slots
<1> QED
  BY <1>1, <1>2, <1>3 DEF SchedInv

\* Taking or dropping the lock touches nothing but the lock.
LEMMA LockInv ==
  ASSUME SchedInv, Acquire \/ Release
  PROVE  SchedInv'
<1> USE DEF Acquire, Release, counters, TryLock
<1>1. TypeOK'
  BY DEF SchedInv, TypeOK
<1>2. CurrentInVector' /\ SwitchInVector' /\ WaitBound' /\ UnusedSlots'
  BY DEF SchedInv, CurrentInVector, SwitchInVector, WaitBound, OnProcessor,
         UnusedSlots, Tasks, Succ
<1>3. RightStack' /\ OneRunning' /\ FencesFired' /\ BudgetBound' /\ HolderRuns'
  BY DEF SchedInv, RightStack, OneRunning, FencesFired, BudgetBound, HolderRuns, Tasks
<1> QED
  BY <1>1, <1>2, <1>3 DEF SchedInv

\* The boot thread registers itself as the idle task.
LEMMA AddIdleInv ==
  ASSUME SchedInv, AddIdle
  PROVE  SchedInv'
<1> USE MaxTasksAssumption, CounterAssumption, NoneAssumption
<1> USE DEF AddIdle, counters, NewIdleState
<1>1. TypeOK'
  <2>1. ScbaNew(CounterMax) \in ScbaState
    BY DEF ScbaState, ScbaNew
  <2> QED
    BY <2>1 DEF SchedInv, TypeOK, Slots
<1>2. CurrentInVector' /\ SwitchInVector' /\ WaitBound' /\ UnusedSlots'
  BY DEF SchedInv, CurrentInVector, SwitchInVector, WaitBound, OnProcessor,
         UnusedSlots, Tasks
<1>3. RightStack' /\ OneRunning' /\ FencesFired' /\ HolderRuns'
  BY DEF SchedInv, TypeOK, CurrentInVector, RightStack, OneRunning, FencesFired,
         HolderRuns, Tasks, Slots
<1>4. BudgetBound'
  BY DEF SchedInv, TypeOK, BudgetBound, Tasks, Slots, ScbaNew
<1> QED
  BY <1>1, <1>2, <1>3, <1>4 DEF SchedInv

\* A new task goes behind all others, Ready, on its own stack.
LEMMA AddTaskInv ==
  ASSUME SchedInv, NEW b \in Budgets, AddTask(b)
  PROVE  SchedInv'
<1> USE MaxTasksAssumption, CounterAssumption, NoneAssumption, BudgetAssumption
<1> USE DEF AddTask, counters
<1>0. len \in Slots /\ Tasks' = Tasks \cup {len} /\ len \notin Tasks
  BY DEF SchedInv, TypeOK, Slots, Tasks
<1>1. TypeOK'
  <2>1. ScbaNew(b) \in ScbaState
    BY DEF ScbaState, ScbaNew
  <2> QED
    BY <1>0, <2>1 DEF SchedInv, TypeOK, Slots
<1>2. CurrentInVector' /\ SwitchInVector'
  BY DEF SchedInv, TypeOK, CurrentInVector, SwitchInVector, Tasks
<1>3. RightStack' /\ OneRunning' /\ FencesFired' /\ HolderRuns'
  BY <1>0 DEF SchedInv, TypeOK, CurrentInVector, RightStack, OneRunning, FencesFired,
         HolderRuns
<1>4. BudgetBound'
  BY <1>0 DEF SchedInv, TypeOK, BudgetBound, ScbaNew
<1>5. WaitBound'
  <2> SUFFICES ASSUME NEW i \in Tasks', i # current
               PROVE  waited[i] <= MaxWait(i, current, len + 1)
    BY DEF SchedInv, WaitBound, OnProcessor
  <2> USE DEF MaxWait
  <2>1. CASE i \in Tasks
    <3>1. waited[i] <= MaxWait(i, current, len)
      BY <2>1 DEF SchedInv, WaitBound, OnProcessor
    <3>2. waited[i] \in Nat /\ i \in Nat /\ len \in Nat /\ current \in Nat
      BY <2>1 DEF SchedInv, TypeOK, Tasks, Slots
    <3> QED
      BY <3>1, <3>2
  <2>2. CASE i = len
    BY <1>0, <2>2 DEF SchedInv, TypeOK, UnusedSlots, CurrentInVector, Tasks
  <2> QED
    BY <1>0, <2>1, <2>2
<1>6. UnusedSlots'
  BY <1>0 DEF SchedInv, UnusedSlots
<1> QED
  BY <1>1, <1>2, <1>3, <1>4, <1>5, <1>6 DEF SchedInv

\* A tick that finds the lock taken or too few tasks only moves TICKS.
LEMMA IdleTickInv ==
  ASSUME SchedInv, TimerLockBusy \/ TimerTooFewTasks
  PROVE  SchedInv'
<1> USE DEF TimerLockBusy, TimerTooFewTasks
<1>1. TypeOK'
  BY IncType DEF SchedInv, TypeOK
<1>2. CurrentInVector' /\ SwitchInVector' /\ WaitBound' /\ UnusedSlots'
  BY DEF SchedInv, CurrentInVector, SwitchInVector, WaitBound, OnProcessor,
         UnusedSlots, Tasks, Succ
<1>3. RightStack' /\ OneRunning' /\ FencesFired' /\ BudgetBound' /\ HolderRuns'
  BY DEF SchedInv, RightStack, OneRunning, FencesFired, BudgetBound, HolderRuns, Tasks
<1> QED
  BY <1>1, <1>2, <1>3 DEF SchedInv
(***************************************************************************)
(* prepare_switch: every task is Ready once the old one is, so the scan    *)
(* finds the successor and the switch is never skipped.                    *)
(***************************************************************************)
LEMMA PrepareSwitchInv ==
  ASSUME SchedInv, TimerPrepareSwitch
  PROVE  SchedInv'
<1> USE MaxTasksAssumption, CounterAssumption, NoneAssumption
<1> DEFINE ticked  == Tick(scba[current])
           fence   == Exhausted(ticked)
           readied == [state EXCEPT ![current] = "Ready"]
           next    == Succ(current)
           charged == IF fence THEN ResetEpoch(ticked) ELSE ticked
<1>1. /\ len \in 2 .. MaxTasks /\ switch = None /\ lock = None
      /\ current \in Tasks /\ Tasks \subseteq Slots
  BY DEF SchedInv, TypeOK, CurrentInVector, TimerPrepareSwitch, Tasks, Slots, TryLock
<1>2. NextReady(readied, current) = next /\ next \in Tasks /\ next # current
  <2>1. \A i \in Tasks : readied[i] = "Ready"
    BY <1>1 DEF SchedInv, TypeOK, OneRunning
  <2>2. len \in Nat /\ len >= 2
    BY <1>1
  <2> HIDE DEF readied
  <2> QED
    BY <1>1, <2>1, <2>2, ScanFindsSuccessor
<1>3. /\ scba' = [scba EXCEPT ![current] = charged]
      /\ total_fences' = IF fence THEN Inc(total_fences) ELSE total_fences
      /\ state' = [readied EXCEPT ![next] = "Running"]
      /\ current' = next
      /\ total_switches' = Inc(total_switches)
      /\ switch' = [old |-> current, new_rsp |-> rsp[next], need_fence |-> fence]
      /\ TICKS' = Inc(TICKS)
      /\ UNCHANGED <<len, rsp, lock, running, fired, waited>>
  BY <1>2 DEF TimerPrepareSwitch
<1>4. /\ charged \in ScbaState
      /\ charged.budget_consumed = 0 \/ charged.budget_consumed < charged.budget_max
  <2>1. scba[current] \in ScbaState
    BY <1>1 DEF SchedInv, TypeOK
  <2>2. ticked \in ScbaState
    BY <2>1, IncType DEF Tick, ScbaState
  <2>3. ResetEpoch(ticked) \in ScbaState /\ ResetEpoch(ticked).budget_consumed = 0
    BY <2>2, ResetEpochType
  <2> QED
    BY <2>2, <2>3 DEF Exhausted, ScbaState
<1>5. fence \in BOOLEAN
  BY DEF Exhausted
<1> HIDE DEF charged, fence, next
<1>0. switch' # None /\ switch'.old = current /\ switch'.new_rsp = rsp[next]
      /\ switch'.need_fence = fence
  BY <1>1, <1>2, <1>3, <1>5 DEF SchedInv, TypeOK, Switch
<1>6. TypeOK'
  BY <1>1, <1>2, <1>3, <1>4, <1>5, IncType DEF SchedInv, TypeOK, Switch
<1>7. Tasks' = Tasks
  BY <1>3 DEF Tasks
<1>8. RightStack' /\ OneRunning'
  BY <1>0, <1>1, <1>2, <1>3, <1>7 DEF SchedInv, TypeOK, RightStack, OneRunning
<1>9. CurrentInVector' /\ SwitchInVector'
  BY <1>0, <1>1, <1>2, <1>3, <1>7 DEF SchedInv, CurrentInVector, SwitchInVector, Succ, next
<1>10. FencesFired' /\ HolderRuns'
  BY <1>0, <1>1, <1>3 DEF SchedInv, FencesFired, HolderRuns
<1>11. BudgetBound'
  BY <1>1, <1>3, <1>4, <1>7 DEF SchedInv, TypeOK, BudgetBound
<1>12. WaitBound' /\ UnusedSlots'
  BY <1>0, <1>1, <1>3, <1>7 DEF SchedInv, WaitBound, OnProcessor, UnusedSlots
<1> QED
  BY <1>6, <1>8, <1>9, <1>10, <1>11, <1>12 DEF SchedInv

\* perform_switch: the fence and the switch of stacks.
LEMMA PerformSwitchInv ==
  ASSUME SchedInv, PerformSwitch
  PROVE  SchedInv'
<1> USE MaxTasksAssumption, CounterAssumption, NoneAssumption
<1> DEFINE old == switch.old
<1>1. /\ switch \in Switch /\ old \in Tasks /\ current \in Tasks /\ Tasks \subseteq Slots
      /\ old # current /\ current = Succ(old) /\ running = old /\ switch.new_rsp = current
      /\ lock = None /\ len \in 0 .. MaxTasks
  BY DEF SchedInv, TypeOK, SwitchInVector, CurrentInVector, RightStack, HolderRuns,
         PerformSwitch, Tasks, Slots
<1>2. /\ fired' = IF switch.need_fence THEN Inc(fired) ELSE fired
      /\ rsp' = [i \in Slots |-> IF i = old THEN old
                                 ELSE IF rsp[i] = current THEN None ELSE rsp[i]]
      /\ running' = current
      /\ waited' = [i \in Slots |-> IF i >= len \/ i \in {old, current} THEN 0
                                    ELSE waited[i] + 1]
      /\ switch' = None
      /\ UNCHANGED <<len, state, scba, current, total_fences, total_switches, TICKS, lock>>
  BY <1>1 DEF PerformSwitch, ContextSwitch
<1>3. Tasks' = Tasks
  BY <1>2 DEF Tasks
<1>4. TypeOK'
  BY <1>1, <1>2, IncType DEF SchedInv, TypeOK, Tasks, Slots
<1>5. RightStack' /\ OneRunning'
  BY <1>1, <1>2, <1>3 DEF SchedInv, RightStack, OneRunning, TypeOK
<1>6. CurrentInVector' /\ SwitchInVector' /\ HolderRuns' /\ BudgetBound'
  BY <1>1, <1>2, <1>3 DEF SchedInv, CurrentInVector, SwitchInVector, HolderRuns, BudgetBound
<1>7. FencesFired'
  BY <1>1, <1>2 DEF SchedInv, FencesFired, PerformSwitch
<1>8. WaitBound'
  <2> SUFFICES ASSUME NEW i \in Tasks, i # current
               PROVE  waited'[i] <= MaxWait(i, current, len)
    BY <1>1, <1>2, <1>3 DEF WaitBound, OnProcessor
  <2> USE DEF MaxWait
  <2>1. CASE i = old
    BY <1>1, <1>2, <2>1 DEF Succ, Tasks
  <2>2. CASE i # old
    <3>1. waited[i] <= MaxWait(i, old, len)
      BY <1>1, <2>2 DEF SchedInv, WaitBound, OnProcessor, PerformSwitch
    <3>2. waited'[i] = waited[i] + 1 /\ waited[i] \in Nat
      BY <1>1, <1>2, <2>2 DEF SchedInv, TypeOK, Tasks
    <3> QED
      BY <1>1, <2>2, <3>1, <3>2 DEF Succ, Tasks
  <2> QED
    BY <2>1, <2>2
<1>9. UnusedSlots'
  BY <1>1, <1>2, <1>3 DEF SchedInv, UnusedSlots, Tasks, Slots
<1> QED
  BY <1>4, <1>5, <1>6, <1>7, <1>8, <1>9 DEF SchedInv

-----------------------------------------------------------------------------
(***************************************************************************)
(* The inductive invariant holds in every reachable state of the           *)
(* scheduler, for every number of tasks, counter width and budget.         *)
(***************************************************************************)
THEOREM SchedulerInvariant == Spec => []SchedInv
<1>1. SchedInv /\ [Next]_vars => SchedInv'
  <2> SUFFICES ASSUME SchedInv, [Next]_vars PROVE SchedInv'
    OBVIOUS
  <2>1. CASE Acquire \/ Release
    BY <2>1, LockInv
  <2>2. CASE AddIdle
    BY <2>2, AddIdleInv
  <2>3. ASSUME NEW b \in Budgets, AddTask(b) PROVE SchedInv'
    BY <2>3, AddTaskInv
  <2>4. CASE TimerLockBusy \/ TimerTooFewTasks
    BY <2>4, IdleTickInv
  <2>5. CASE TimerPrepareSwitch
    BY <2>5, PrepareSwitchInv
  <2>6. CASE PerformSwitch
    BY <2>6, PerformSwitchInv
  <2>7. CASE UNCHANGED vars
    BY <2>7 DEF vars, SchedInv, TypeOK, CurrentInVector, SwitchInVector, RightStack,
       OneRunning, FencesFired, BudgetBound, HolderRuns, WaitBound, OnProcessor,
       UnusedSlots, Tasks, Succ
  <2> QED
    BY <2>1, <2>2, <2>3, <2>4, <2>5, <2>6, <2>7 DEF Next, Client, Timer
<1> QED
  BY InitInv, <1>1, PTL DEF Spec
(***************************************************************************)
(* What the invariant says about the code, one theorem per property the    *)
(* run checks.                                                             *)
(***************************************************************************)

\* The scheduler's fields keep their types, in particular no index leaves the vector.
THEOREM TypeCorrect == Spec => []TypeOK
  BY SchedulerInvariant, PTL DEF SchedInv

\* The processor is always on the stack of the task the scheduler calls current.
THEOREM SwitchesToRightStack == Spec => []RightStack
  BY SchedulerInvariant, PTL DEF SchedInv

\* Exactly the current task is Running.
THEOREM ExactlyOneRunning == Spec => []OneRunning
  BY SchedulerInvariant, PTL DEF SchedInv

\* Every fence prepare_switch counts is executed by perform_switch.
THEOREM CountedFencesFire == Spec => []FencesFired
  BY SchedulerInvariant, PTL DEF SchedInv

\* No task is ever past its budget outside prepare_switch.
THEOREM BudgetsHold == Spec => []BudgetBound
  BY SchedulerInvariant, PTL DEF SchedInv

\* The holder of SCHEDULER is never preempted by another task.
THEOREM HolderIsRunning == Spec => []HolderRuns
  BY SchedulerInvariant, PTL DEF SchedInv

\* A waiting task is passed over by at most len - 2 switches between the others.
THEOREM WaitIsBounded == Spec => []BoundedWait
<1>1. SchedInv => BoundedWait
  <2> SUFFICES ASSUME SchedInv, NEW i \in Tasks, i # current
               PROVE  waited[i] <= len - 2
    BY DEF BoundedWait
  <2> USE MaxTasksAssumption
  <2>1. /\ len \in Nat /\ i \in 0 .. len - 1 /\ current \in 0 .. len - 1
        /\ waited[i] \in Nat
    BY DEF SchedInv, TypeOK, CurrentInVector, Tasks, Slots
  <2>2. CASE switch = None
    BY <2>1, <2>2 DEF SchedInv, WaitBound, OnProcessor, MaxWait
  <2>3. CASE switch # None
    <3>1. switch.old \in 0 .. len - 1 /\ switch.old # current
      BY <2>3 DEF SchedInv, SwitchInVector, Tasks
    <3>2. CASE i = switch.old
      BY <2>1, <2>3, <3>1, <3>2 DEF SchedInv, WaitBound, OnProcessor
    <3>3. CASE i # switch.old
      BY <2>1, <2>3, <3>1, <3>3 DEF SchedInv, WaitBound, OnProcessor, MaxWait
    <3> QED
      BY <3>2, <3>3
  <2> QED
    BY <2>2, <2>3
<1> QED
  BY <1>1, SchedulerInvariant, PTL
=============================================================================
