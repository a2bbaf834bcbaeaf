SPECIFICATION Spec
CONSTANTS
    o1 = o1
    o2 = o2
    Objects <- MCObjects
    Rights <- MCRights
    MAX_DEPTH = 2
    MaxTime = 2
    MaxCaps = 3
    MaxAltered = 1
    MaxLevels = 6
    Proposals <- MCProposals
    None = None
    AddrSpace = 8
    MmioChoices <- MCMmioChoices
    Irqs = {4, 5, 11}
    Syscalls = {0, 1, 8}
    MaxOps = 3
    FrameLens <- MCFrameLens
    PayloadLens <- MCPayloadLens
    SECRET_LEN = 4
    HeapLen = 6
SYMMETRY Symmetry
INVARIANTS
    OnlyIssuedVerify
    Provenance
    DeathIsInherited
    FlowsUpward
    StaysVerified
    VerifyDecidesOrder
    BoundsAreBest
    DriverBounded
    AuditTruthful
    FramesInBounds
    SentParses
    ZeroedBeforeFreed
CHECK_DEADLOCK FALSE
