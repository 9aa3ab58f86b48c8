\* Three events, for a key that is served and one that is not, among them
\* messages that are dropped, in any order of positions; one failing call and
\* one crash.
SPECIFICATION FairSpec
CONSTANTS
    k1 = k1
    k2 = k2
    Keys <- TwoKeys
    Served <- OneKey
    Hashes = {h1}
    EventIds = {1, 2, 3}
    Timestamps <- FewTicks
    Forms = {"valid", "malformed", "secretMismatch", "unknownOp"}
    Managed = FALSE
    MaxFailures = 1
    MaxCrashes = 1
    NoEvent = NoEvent
    NoCursor = NoCursor
INVARIANTS
    TypeOK
    NothingLost
    Converged
    AcksAreTrue
PROPERTIES
    CursorNeverRegresses
    StoreIsLatestWins
    QueueDrains
CHECK_DEADLOCK FALSE
