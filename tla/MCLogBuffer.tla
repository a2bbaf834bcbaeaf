---------------------------- MODULE MCLogBuffer ----------------------------
EXTENDS LogBuffer, TLC

CONSTANTS w1, w2

MCWriters == {w1, w2}
Symmetry  == Permutations(MCWriters)
=============================================================================
