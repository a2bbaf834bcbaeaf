----------------------------- MODULE MCScheduler -----------------------------
(***************************************************************************)
(* Instances of Scheduler for TLC: the idle task and three more, counters of *)
(* two bits, so that every counter wraps and the idle task, whose budget   *)
(* is u64::MAX, also ends its epochs.  Budget 0 and 1 fence on every tick. *)
(***************************************************************************)
EXTENDS Scheduler

MCBudgets == {0, 2}
=============================================================================
