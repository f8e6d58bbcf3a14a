SPECIFICATION FairSpec
CONSTANTS
    Sessions = {s1, s2}
    NoSession = NoSession
    MaxTabs = 3
    MaxSessions = 2
    MaxTabsPerSession = 2
    MaxTotalTabs = 2
    MaxRequests = 2
    MaxFaults = 2
INVARIANTS
    TypeOK
    CleanupTakesOnlyItsOwn
    NoTabEscapes
PROPERTIES
    PendingCleanupFinishes
ACTION_CONSTRAINTS InOrder SecondFaultHitsTheRetry
CHECK_DEADLOCK FALSE
