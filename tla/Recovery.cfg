SPECIFICATION RecoverySpec
CONSTANTS
    Collection = {c1}
    Worker = {w1, w2}
    Wide = {w1}
    Concurrency <- MCConcurrency
    Task = {t1}
    Cancellable = {c1}
    MaxFaults = 2
    None = None
    s = s
    d = d
    a1 = a1
    a2 = a2
    a3 = a3
    b = b
    m = m
    LaneTask = {s, d, a1, a2, a3, b, m}
    Street = s
    Seeds = {s, d}
    Contours = 2
    Maps = 1
    Found <- FoundMC
    Base <- BaseMC
    Children <- ChildrenMC
    Requested = 1
    Emergency = 4
    OptionalPages = 1
    MaxCrashes = 2
    Nil = Nil
INVARIANTS FactsBehindCheckpoint OwnerSeesCheckpoint RefetchNeedsOverlap LanesAreSerial PagesWithinCeiling PagesReserved
PROPERTIES CancelledStays ImplementsLifecycle QueueCloses QueueDrains OrdinaryTasksKept BudgetOpensOnce LanesEnd
CHECK_DEADLOCK FALSE
