\* Every bus of every platform under fairness: what has to happen in the end.
SPECIFICATION FairSpec
CONSTANTS
    Inputs = {i1}
    Outputs = {o1}
    Levels = {l1}
    Sensors = {s1}
    Mute = o1
    Volume = l1
    Inverted = {o1}
    Coils = {o1}
    MaxLevel = 1
    MaxAttempts = 2
    ChangesCap = 1
    MaxCommands = 1
    MaxEvents = 2
    MaxServerEvents = 1
CHECK_DEADLOCK FALSE
PROPERTIES
    CommandCompletes
    InputsReported
    TeardownReturns
