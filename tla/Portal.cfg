SPECIFICATION FairSpec
\* Everybody may have signed out for good.
CHECK_DEADLOCK FALSE
CONSTANTS
    u1 = u1
    u2 = u2
    t1 = t1
    t2 = t2
    Users = {u1, u2}
    Tabs = {t1, t2}
    None = None
    Worlds <- MCWorlds
    DeadLinks <- MCDeadLinks
    HalfOpen <- MCHalfOpen
INVARIANTS
    TypeOK
    OwnName
    SignedOutMeansForgotten
    OnlyAdmitted
    LinksLand
    Welcomed
    WaitersAreWoken
PROPERTIES
    CallsEnd
    Converges
