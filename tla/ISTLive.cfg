SPECIFICATION FairSpec
CONSTANTS
    loop = loop
    s1 = s1
    Loop = loop
    g1 = g1
    Subs = {s1}
    Guests = {g1}
    Users = {loop, s1, g1}
    FaultsAmongGuests = FALSE
    TailLines = 4
    MaxCycle = 2
    MaxPipe = 1
INVARIANTS
    TypeOK
    WholeCycles
PROPERTIES
    EventuallyLive
    EventuallyShown
    EventuallyDown
