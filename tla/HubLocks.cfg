SPECIFICATION FairSpec
CONSTANTS
    Sessions = {s1, s2}
    Names = {n1, n2}
    Calls = {1, 2, 3}
    NoCall = 0
    NoRequest = NoRequest
ACTION_CONSTRAINT
    InOrder
INVARIANTS
    TypeOK
    MutualExclusion
    PromisesMatchMaps
    NoWaiterOfEndedSession
PROPERTIES
    ImplementsLockService
    EveryAcquireAnswered
    TtlBoundsEveryHold
CHECK_DEADLOCK FALSE
