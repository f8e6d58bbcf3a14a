SPECIFICATION FairSpec
CONSTANTS
    Clients = {c1}
    Ids = {s1, s2, s3}
    OwnId = OwnId
    Sockets = {k1, k2}
    c1 = c1
    s1 = s1
    s2 = s2
    s3 = s3
    k1 = k1
    k2 = k2
    NoId = NoId
    NoSocket = NoSocket
    MaxDrops = 2
    MaxPersists = 1
    MaxRestarts = 1
    MaxCrashes = 1
ACTION_CONSTRAINT
    TwoThingsGoWrong
INVARIANTS
    TypeOK
    RegisteredSessionLives
    FinalizedStaysFinalized
    ClosedExactlyOnce
    NoOrphanedSession
    ShutdownLeavesNothing
PROPERTIES
    ClientsGetBackIn
    GoneSessionsEnd
    ShutdownEnds
CHECK_DEADLOCK FALSE
