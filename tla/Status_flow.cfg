\* Two modules, a rule on one of them, a device that listens.
SPECIFICATION FairSpec
CONSTANTS
    m1 = m1
    m2 = m2
    Modules = {m1, m2}
    Remotes = {r1, own}
    Own = own
    Nil = nil
    All = all
    Watched = {m1}
    Triggers = {m1}
    MaxVersion <- Often
    MaxCommands = 1
    BufferSize = 2
CHECK_DEADLOCK FALSE
PROPERTIES
    NeverGoesBack
    ExecutesOncePerChange
    StatusCatchesUp
    EachChangeExecutes
