CONSTANTS
    Collection = {c1}
    Worker = {w1, w2}
    Wide = {}
    Concurrency <- MCConcurrency
    Task = {t1}
    Cancellable = {}
    MaxFaults = 1
    None = None
SPECIFICATION Spec
PROPERTIES StaleWorkerWritesNothing
CHECK_DEADLOCK FALSE
