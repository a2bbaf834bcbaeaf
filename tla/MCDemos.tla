------------------------------ MODULE MCDemos ------------------------------
(***************************************************************************)
(* The demonstrations for TLC.                                             *)
(*                                                                         *)
(* Capabilities: two objects, two rights, two levels of delegation below a *)
(* root, a clock that passes every expiry.                                 *)
(*                                                                         *)
(* Proposed lattices: as in MCLattice.                                     *)
(*                                                                         *)
(* Drivers: eight addresses, and for the network driver a region inside    *)
(* the address space, one that ends at its top, and two regions of which   *)
(* the first reaches beyond it.                                            *)
(***************************************************************************)
EXTENDS Demos, MCLattice, TLC

CONSTANTS o1, o2

MCObjects == {o1, o2}
MCRights  == {"READ", "DERIVE"}
Symmetry  == Permutations(MCObjects)

Region(s, n) == [start |-> s, len |-> n]

MCMmioChoices ==
    [uart |-> {<<Region(3, 2)>>},
     mal  |-> {<<Region(1, 2)>>},
     esc  |-> {<<>>},
     nic  |-> {<<Region(4, 2)>>, <<Region(6, 2)>>, <<Region(6, 4), Region(5, 2)>>}]

\* Lengths on both sides of every test of the parsers, for headers of 0, 5, 6
\* and 15 words.
MCFrameLens == {0, 13, 14, 21, 22, 33, 34, 37, 38, 41, 42, 45, 46, 73, 74, 81, 82}

\* The empty payload, the one of the demonstration, and both sides of the
\* largest length the two fields can hold.
MCPayloadLens == {0, 8, 65507, 65508, 65527, 65528}
=============================================================================
