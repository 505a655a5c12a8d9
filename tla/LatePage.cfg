SPECIFICATION Spec
CONSTANTS
    a1 = a1
    a2 = a2
    b1 = b1
    None = None
    Slots <- MCCardDetail
    Queries = {a1, a2, b1}
    Group <- MCGroup
    MaxAutoPages = 2
    LastPage = 3
    MaxFlight = 2
    Views <- MCDetailViews
    Silent = {}
    Lingering <- MCDetailViews
    Endless = {}
INVARIANTS
    NeverMixes
