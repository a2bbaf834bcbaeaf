SPECIFICATION Spec
CONSTANTS
    LOG_CAPACITY = 2
    w1 = w1
    w2 = w2
    Writers <- MCWriters
    MaxPushes = 5
    MaxDrain = 2
SYMMETRY Symmetry
INVARIANTS
    SlotsExclusive
