SPECIFICATION FairSpec
CONSTANTS
    f1 = f1
    f2 = f2
    p1 = p1
    s1 = s1
    Requests <- MCRequestsMixed
    Fetches <- MCFetches
    SessionOf <- MCSessionOfMixed
    TotalChunks = 1
    MaxActive = 1
    Window = 1
    MaxSockets = 2
    MaxFaults = 1
ACTION_CONSTRAINT
    TwoAreMade
PROPERTIES
    ImplementsToolCalls
    EveryRequestAnswered
CHECK_DEADLOCK FALSE
