\* A router that forwards to a connection that is ending.
SPECIFICATION Spec
CONSTANTS
    a = a
    b = b
    server = server
    Clients = {a, b}
    Conns = {c1, c2}
    Nobody = nobody
    Server = server
    Absent = absent
    Receivers <- OnlyDevices
    MaxMsgs = 2
    ForeignSenders = {}
    LateSelect = FALSE
    BufferSize = 1
CHECK_DEADLOCK FALSE
INVARIANTS
    RouterKeepsWorking
