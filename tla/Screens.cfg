SPECIFICATION FairSpec
CONSTANTS
    a1 = a1
    a2 = a2
    b1 = b1
    None = None
    Slots <- MCSlots
    Queries = {a1, a2, b1}
    Group <- MCGroup
    MaxAutoPages = 2
    LastPage = 3
    MaxFlight = 2
    Views <- MCViews
    Silent <- MCSilent
    Lingering <- MCLingering
    Endless <- MCEndless
INVARIANTS
    TypeOK
    ShowsWhatIsAsked
    OnlyOverlapsMislead
    WholeOrMarked
    SpinnerHasRequest
    SeenIsTrue
    FailureLeavesNothingOld
    WaitsForSomething
    ExportsAreWhole
PROPERTIES
    KeepsPromise
    SpinnerEnds
