SPECIFICATION Spec
CONSTANTS
    f1 = f1
    f2 = f2
    p1 = p1
    s1 = s1
    Requests <- MCFetches
    Fetches <- MCFetches
    SessionOf <- MCSessionOf
    TotalChunks = 2
    MaxActive = 1
    Window = 2
    MaxSockets = 2
    MaxFaults = 1
SYMMETRY Symmetry
INVARIANTS
    TypeOK
    AnsweredOnce
    NothingLandsUnreported
    HeldAnswersAreReleased
    StreamsContinue
    ShutdownCancelsRequests
CHECK_DEADLOCK FALSE
