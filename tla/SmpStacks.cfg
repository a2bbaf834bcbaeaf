SPECIFICATION FairSpec
CONSTANTS
    MAX_CORES = 3
    MadtTables <- MCMadtTables
    BspIds <- MCFirstBsp
    None = None
INVARIANTS
    PerApStacks
CHECK_DEADLOCK FALSE
