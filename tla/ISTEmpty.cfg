SPECIFICATION Spec
CONSTANTS
    loop = loop
    s1 = s1
    Loop = loop
    g1 = g1
    Subs = {s1}
    Guests = {}
    Users = {loop, s1}
    FaultsAmongGuests = FALSE
    TailLines = 3
    MaxCycle = 3
    MaxPipe = 4
INVARIANTS
    NeverLeftEmpty
