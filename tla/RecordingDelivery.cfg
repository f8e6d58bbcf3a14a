SPECIFICATION FairSpec
CONSTANTS
    s1 = s1
    s2 = s2
    None = None
    Torn = Torn
    Sessions <- MCSessions
    Here <- MCHere
    Names <- MCNames
    MaxSteps = 1
    MaxCalls = 3
    MaxFaults = 1
INVARIANTS
    TypeOK
    SavedCopiesAgree
PROPERTIES
    HeldRecordingsSurvive
    LapsedRecordingsEnd
CHECK_DEADLOCK FALSE
