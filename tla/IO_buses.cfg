\* Every bus of every platform, one after the other.
SPECIFICATION TypedSpec
CONSTANTS
    Inputs = {i1}
    Outputs = {o1, o2}
    Levels = {l1}
    Sensors = {s1}
    Mute = o1
    Volume = l1
    Inverted = {o2}
    Coils = {}
    MaxLevel = 2
    MaxAttempts = 2
    ChangesCap = 1
    MaxCommands = 2
    MaxEvents = 2
    MaxServerEvents = 1
CHECK_DEADLOCK FALSE
INVARIANTS
    RegistersFollow
    FadesConverge
PROPERTIES
    ReportedIsCurrent
