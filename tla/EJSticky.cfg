SPECIFICATION FairSpec
CONSTANTS
    f1 = f1
    f2 = f2
    c1 = c1
    w1 = w1
    Files = {f1}
    FileType <- OneNcr
    FileDay <- DayZero
    Lines = {"start", "text", "end"}
    Initial <- Fresh
    LegacySchemas = {}
    Watchers = {w1}
    Clis = {}
    Schema = 5
    FullEvery = 2
    TicksPerMs = 1
    MaxLen = 3
    MaxDay = 0
    MaxFaults = 0
    MaxCuts = 0
    MaxCopies = 2
PROPERTIES
    EventuallySearchable
