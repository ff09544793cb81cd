\* Messages of other senders, restarts, late restarts; fair routers.
SPECIFICATION FairSpec
CONSTANTS
    a = a
    b = b
    server = server
    Clients = {a, b}
    Conns = {c1, c2}
    Nobody = nobody
    Server = server
    Absent = absent
    Receivers <- Everybody
    MaxMsgs = 2
    ForeignSenders <- Anyone
    LateSelect = TRUE
    BufferSize = 1
CHECK_DEADLOCK FALSE
PROPERTIES
    EntryReleased
