CONSTANTS
    a1 = a1
    a2 = a2
    a3 = a3
    b1 = b1
    hostA = hostA
    hostB = hostB
    None = None
    Task = {a1, a2, a3, b1}
    Host = {hostA, hostB}
    HostOf <- MCHostOf
    Initial = {a1}
    Searchable = {a3}
    Children <- MCChildren
    MaxPages = 3
    TimeBudget = 2
    Threshold = 2
    AllowPartial = TRUE
    MaxCrashes = 2
SPECIFICATION FairSpec
INVARIANTS WithinPageBudget FetchesBeforeDeadline ClosedHonestly
PROPERTIES StoredTasksKept Closes
CHECK_DEADLOCK FALSE
