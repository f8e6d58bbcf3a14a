SPECIFICATION FairSpec
CONSTANTS
    Requests = {1, 2, 3}
    Tabs = {t1}
    Sessions = {s1, s2}
    t1 = t1
    s1 = s1
    s2 = s2
    Global = Global
    Unqueued = Unqueued
    NoRequest = 0
    NoMeta = NoMeta
    MaxPendingPerTab = 1
    MaxPendingGlobal = 2
    MaxRestarts = 1
ACTION_CONSTRAINT
    InOrder
INVARIANTS
    TypeOK
    PendingIsExact
    QueuesAreServed
    OnlyAbortedWorkOverlaps
    ClosedSessionsDoNotQueue
PROPERTIES
    ImplementsServedInTurn
    NothingStartsLate
    EveryRequestAnswered
CHECK_DEADLOCK FALSE
