SPECIFICATION Spec
CONSTANTS
    Clients = {c1}
    Ids = {s1, s2}
    OwnId = OwnId
    Sockets = {k1, k2}
    c1 = c1
    s1 = s1
    s2 = s2
    k1 = k1
    k2 = k2
    NoId = NoId
    NoSocket = NoSocket
    MaxDrops = 1
    MaxPersists = 1
    MaxRestarts = 1
    MaxCrashes = 0
SYMMETRY Symmetry
INVARIANTS
    RegisteredIsServed
CHECK_DEADLOCK FALSE
