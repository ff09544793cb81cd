\* Two handlers, one with topics, one restart each, channels of one message.
SPECIFICATION Spec
CONSTANTS
    h1 = h1
    h2 = h2
    Handlers = {h1, h2}
    Subscribers = {h1}
    MaxRuns = 2
    MaxMsgs = 2
    BufferSize = 1
CHECK_DEADLOCK FALSE
INVARIANTS
    WaitGroupExact
    BusOutlivesSupervisors
    OneRunAtATime
    HandledInOrder
