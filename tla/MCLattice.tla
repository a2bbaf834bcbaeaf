------------------------------ MODULE MCLattice ------------------------------
(***************************************************************************)
(* Every dominance matrix on three labels with every choice of bounds, the *)
(* reflexive matrices on four labels tried with bounds 0 and 3, and every  *)
(* relation of three labels between a bottom and a top: the smallest that  *)
(* can fail to be transitive when nothing else is wrong.                   *)
(***************************************************************************)
EXTENDS Lattice

Square(n) == (0 .. n - 1) \X (0 .. n - 1)

Given(n, pairs, bot, tp) ==
    [dom |-> [i \in Labels |-> [j \in Labels |-> <<i, j>> \in pairs]],
     count |-> n, bottom |-> bot, top |-> tp]

Diagonal(n) == {<<i, i>> : i \in 0 .. n - 1}

\* Label 0 below and label n - 1 above everything, every label above itself.
Between(n) == Diagonal(n) \cup {<<i, 0>> : i \in 0 .. n - 1} \cup {<<n - 1, i>> : i \in 0 .. n - 1}

Shapes ==
    ({3} \X (SUBSET Square(3)) \X (0 .. 2) \X (0 .. 2))
      \cup ({4} \X {r \cup Diagonal(4) : r \in SUBSET (Square(4) \ Diagonal(4))} \X {0} \X {3})
      \cup ({5} \X {r \cup Between(5) : r \in SUBSET ((1 .. 3) \X (1 .. 3))} \X {0} \X {4})

MCProposals == {Given(s[1], s[2], s[3], s[4]) : s \in Shapes}

\* Two labels, each above the same two incomparable labels.
Crossed == {<<3, 1>>, <<3, 2>>, <<4, 1>>, <<4, 2>>}
MCCrossed == {Given(6, Between(6) \cup Crossed, 0, 5)}
=============================================================================
