SPECIFICATION Spec
CONSTANTS
    f1 = f1
    f2 = f2
    c1 = c1
    w1 = w1
    Files = {f1}
    FileType <- OneCrm
    FileDay <- DayZero
    Lines = {"start", "text", "end"}
    Initial <- Fresh
    LegacySchemas = {}
    Watchers = {}
    Clis = {c1}
    Schema = 5
    FullEvery = 1
    TicksPerMs = 1
    MaxLen = 5
    MaxDay = 0
    MaxFaults = 1
    MaxCuts = 1
    MaxCopies = 2
INVARIANTS
    DuplicatesOnlyWhenTorn
PROPERTIES
    KeepsIndex
