SPECIFICATION LatticeSpec
CONSTANTS
    MaxLevels = 6
    Proposals <- MCCrossed
    None = None
INVARIANT
    AcceptedHasJoins
CHECK_DEADLOCK FALSE
