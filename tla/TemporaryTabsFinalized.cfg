SPECIFICATION Spec
CONSTANTS
    Sessions = {s1}
    NoSession = NoSession
    MaxTabs = 2
    MaxSessions = 1
    MaxTabsPerSession = 2
    MaxTotalTabs = 2
    MaxRequests = 2
    MaxFaults = 0
INVARIANTS
    FinalizedSessionsAreCleaned
CHECK_DEADLOCK FALSE
