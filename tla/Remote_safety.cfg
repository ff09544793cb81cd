\* Two messages each way, a channel of one; the bus may shut.
SPECIFICATION FairSpec
CONSTANTS
    HasTimeout = TRUE
    BusMayShut = TRUE
    MaxOut = 2
    MaxIn = 2
    BufferSize = 1
CHECK_DEADLOCK FALSE
INVARIANTS
    ClosedLast
PROPERTIES
    ImplementsLink
    EndsWhenAsked
