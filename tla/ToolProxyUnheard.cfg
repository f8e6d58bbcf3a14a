SPECIFICATION Spec
CONSTANTS
    f1 = f1
    f2 = f2
    p1 = p1
    s1 = s1
    Requests <- MCFetches
    Fetches <- MCFetches
    SessionOf <- MCSessionOf
    TotalChunks = 1
    MaxActive = 1
    Window = 1
    MaxSockets = 1
    MaxFaults = 0
INVARIANTS
    DoneMeansTold
CHECK_DEADLOCK FALSE
