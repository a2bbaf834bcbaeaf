SPECIFICATION FairSpec
CONSTANTS
    MAX_CORES = 3
    MadtTables <- MCMadtTables
    BspIds <- MCAnyBsp
    None = None
INVARIANTS
    OwnStackAndId
    SummaryNeverOvercounts
PROPERTIES
    BootContinues
CHECK_DEADLOCK FALSE
