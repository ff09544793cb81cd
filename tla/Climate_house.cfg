\* Two rooms, the first with a device that does not exist; two days of a minute.
SPECIFICATION FairSpec
CONSTANTS
    BufferSize = 2
    r1 = r1
    r2 = r2
    Rooms <- MissingFirst
    Missing = {r1}
    Temps <- ColdToHot
    Threshold = 1
    Short = 1
    Minimum = 1
    Day = 60
    Days = 2
    Late = 1
    MaxWait = 2
    RuleTimes = {0}
    RuleIds = {1, 2}
    MaxEdits = 1
CHECK_DEADLOCK FALSE
PROPERTIES
    NoChatter
    ValvesFollow
    FiresOnce
    FiresEachDay
