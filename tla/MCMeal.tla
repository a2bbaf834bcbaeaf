------------------------------- MODULE MCMeal -------------------------------
(***************************************************************************)
(* Meal for TLC: a ring of three slots written up to seven times, so that  *)
(* it wraps twice, by two callers that can preempt one another.            *)
(***************************************************************************)
EXTENDS Meal, TLC

CONSTANTS c1, c2, p1, p2

MCCallers  == {c1, c2}
MCPayloads == {p1, p2}
Symmetry   == Permutations(MCCallers)
=============================================================================
