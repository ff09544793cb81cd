\* Two devices that reconnect, three messages, some without a sender; late restarts.
SPECIFICATION Spec
CONSTANTS
    a = a
    b = b
    server = server
    Clients = {a, b}
    Conns = {c1, c2, c3}
    Nobody = nobody
    Server = server
    Absent = absent
    Receivers <- OnlyDevices
    MaxMsgs = 3
    ForeignSenders = {nobody}
    LateSelect = TRUE
    BufferSize = 2
CHECK_DEADLOCK FALSE
SYMMETRY Interchangeable
INVARIANTS
    RoutedToReceiver
    DeliveredInOrder
    SoleForwarder
PROPERTIES
    OnlyOwnerDeletes
