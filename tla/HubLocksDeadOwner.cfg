SPECIFICATION Spec
CONSTANTS
    Sessions = {s1, s2}
    Names = {n1}
    Calls = {1, 2, 3}
    NoCall = 0
    NoRequest = NoRequest
INVARIANT
    NoLockOfEndedSession
CHECK_DEADLOCK FALSE
