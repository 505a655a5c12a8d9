SPECIFICATION Spec
CONSTANTS
    f1 = f1
    f2 = f2
    c1 = c1
    w1 = w1
    Files = {f1}
    FileType <- OneCrm
    FileDay <- DayZero
    Lines = {"start", "text", "end"}
    Initial <- Used
    LegacySchemas = {}
    Watchers = {w1}
    Clis = {c1}
    Schema = 5
    FullEvery = 1
    TicksPerMs = 1
    MaxLen = 6
    MaxDay = 0
    MaxFaults = 0
    MaxCuts = 0
    MaxCopies = 2
INVARIANTS
    NoLossAtRest
