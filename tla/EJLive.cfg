SPECIFICATION FairSpec
CONSTANTS
    f1 = f1
    f2 = f2
    c1 = c1
    w1 = w1
    Files = {f1, f2}
    FileType <- BothKinds
    FileDay <- TwoDays
    Lines = {"end"}
    Initial <- Open
    LegacySchemas = {}
    Watchers = {w1}
    Clis = {}
    Schema = 5
    FullEvery = 2
    TicksPerMs = 1
    MaxLen = 3
    MaxDay = 1
    MaxFaults = 1
    MaxCuts = 0
    MaxCopies = 2
PROPERTIES
    EventuallySearchable
