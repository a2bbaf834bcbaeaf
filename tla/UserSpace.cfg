SPECIFICATION FairSpec
CONSTANTS
    PAGE = 2
    SPAN = 4
    HEAP_PAGES = 2
    HEAP_START = 8
    TRAMPOLINE = 1
    USER_CODE = 16
    USER_STACK = 23
    BootPages <- MCBootPages
    NonCanonical <- MCNonCanonical
    PHDR_LEN = 2
    P_TYPE_LEN = 1
    USER_PROGRAM <- MCUserProgram
    MemoryMaps <- MCMaps
    Frames <- MCFrames
    Images <- MCImages
    None = None
    MaxFences = 1
    Rax = Rax
    NoValue = NoValue
INVARIANTS
    FramesUsedOnce
    NoStaleBytes
    ImageInMemory
    GoodImageLoads
    RoundTrip
PROPERTIES
    ReachesExit
CHECK_DEADLOCK FALSE
