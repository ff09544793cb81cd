\* Two directories, three faults, two values set by handlers.
SPECIFICATION TypedSpec
CONSTANTS
    Paths <- TwoPaths
    Keys <- NestedKeys
    MaxFaults = 3
    MaxSets = 2
CHECK_DEADLOCK FALSE
INVARIANTS
    UserDataKept
    PairMatches
PROPERTIES
    SyncedIsRead
    BootstrapSucceeds
