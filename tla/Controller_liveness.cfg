\* One handler that subscribes and two restarts; liveness under fairness.
SPECIFICATION FairSpec
CONSTANTS
    h1 = h1
    h2 = h2
    Handlers = {h1}
    Subscribers = {h1}
    MaxRuns = 3
    MaxMsgs = 1
    BufferSize = 1
CHECK_DEADLOCK FALSE
PROPERTIES
    FailedHandlerRestarts
    StartReturns
    LoopsSettle
