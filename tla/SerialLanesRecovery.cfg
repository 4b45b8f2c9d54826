SPECIFICATION LanesSpec
CONSTANTS
    s = s
    d = d
    a1 = a1
    a2 = a2
    a3 = a3
    b = b
    m = m
    LaneTask = {s, d, a1, a2, a3, b, m}
    Street = s
    Seeds = {s, d}
    Contours = 2
    Maps = 1
    Found <- FoundMC
    Base <- BaseMC
    Children <- ChildrenMC
    Requested = 1
    Emergency = 4
    OptionalPages = 1
    MaxCrashes = 1
    Nil = Nil
PROPERTY
    RecoverySkipsNoLane
CHECK_DEADLOCK FALSE
