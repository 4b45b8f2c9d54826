CONSTANTS
    Collection = {c1}
    Worker = {w1}
    Wide = {w1}
    Concurrency <- MCConcurrency
    Task = {t1}
    Cancellable = {}
    MaxFaults = 1
    None = None
SPECIFICATION Spec
INVARIANTS OwnerNeverRefetches
CHECK_DEADLOCK FALSE
