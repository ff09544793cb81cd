\* The smaller handlers and the codec, each with the faults it meets.
SPECIFICATION FairSpec
CONSTANTS
    BufferSize = 2
    Peers = {p1, p2}
    Nobody = nobody
    MaxErrors = 3
    Texts = {t1, t2}
    Words = 2
    AllowedUsers = 2
    NotificationsCap = 2
    Tags = {g1, g2, g3}
    Marked <- SomeMarked
    Streams = {s1, s2}
    MaxNotes = 2
    MaxFaults = 2
    Ids = {d1, d2}
    MaxData = 2
    MaxMessages = 2
CHECK_DEADLOCK FALSE
INVARIANTS
    StatusFollows
PROPERTIES
    DeadPeerDropped
    EveryWordIsPublished
    WholeTagsShown
    Reconnects
    EachMessageParsed
    LastRequestWins
