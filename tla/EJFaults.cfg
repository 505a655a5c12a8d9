SPECIFICATION Spec
CONSTANTS
    f1 = f1
    f2 = f2
    c1 = c1
    w1 = w1
    Files = {f1}
    FileType <- OneCrm
    FileDay <- DayZero
    Lines = {"start", "text", "end", "blank"}
    Initial <- Used
    LegacySchemas = {0, 4}
    Watchers = {w1}
    Clis = {}
    Schema = 5
    FullEvery = 1
    TicksPerMs = 1
    MaxLen = 6
    MaxDay = 0
    MaxFaults = 2
    MaxCuts = 0
    MaxCopies = 2
INVARIANTS
    TypeOK
    NoSilentLoss
    ResumePointExact
    SchemaHonest
    DuplicatesOnlyWhenTorn
    CountMatches
