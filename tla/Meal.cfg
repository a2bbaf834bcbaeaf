SPECIFICATION Spec
CONSTANTS
    CAPACITY = 3
    c1 = c1
    c2 = c2
    p1 = p1
    p2 = p2
    Callers <- MCCallers
    Payloads <- MCPayloads
    MaxTotal = 7
    MaxLost = 1
    MaxTicks = 1
    None = None
SYMMETRY Symmetry
INVARIANTS
    RingHoldsLatest
    ChainVerifies
    LogOrdered
    ChangesDetected
