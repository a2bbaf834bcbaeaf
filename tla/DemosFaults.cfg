SPECIFICATION Spec
CONSTANTS
    o1 = o1
    o2 = o2
    Objects <- MCObjects
    Rights <- MCRights
    MAX_DEPTH = 2
    MaxTime = 2
    MaxCaps = 1
    MaxAltered = 0
    MaxLevels = 6
    Proposals <- MCCrossed
    None = None
    AddrSpace = 8
    MmioChoices <- MCMmioChoices
    Irqs = {4, 5, 11}
    Syscalls = {0, 1, 8}
    MaxOps = 2
    FrameLens <- MCFrameLens
    PayloadLens <- MCPayloadLens
    SECRET_LEN = 4
    HeapLen = 6
INVARIANT FaultsLogged
CHECK_DEADLOCK FALSE
