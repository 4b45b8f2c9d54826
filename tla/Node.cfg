SPECIFICATION Spec
CONSTANTS
    Checker = {loop, probe}
    Loop = loop
    CacheTime = 1
    Component = {c1, c2, c3}
    MaxSlots = 1
    Caller = {c1}
    Html <- MCHtml
    Value <- MCValue
    FormLimit = 2
    ControlLimit = 5
    ActionLimit = 3
    ModelPlan <- MCModelPlan
    MaxCuts = 2
    Job = {j1, j2}
    Run = {r1, r2}
    Concurrency = 2
    LlmRequired = TRUE
    Item = {i1, i2}
    Page = {p1, p2}
    MaxJobs = 1
    MaxEnds = 1
    NoRecord = NoRecord
    Kind = {"observation", "evidence"}
    None = None
    Size <- MCSize
    Limit = {1, 2, 3}
    PageBytes = 3
    FullItems = 3
    FullBytes = 5
    MaxRestarts = 1
INVARIANTS NodeTypeOK ModelIsShared ActiveCoversRuns PagesAreTheResult AnswersAreSound
PROPERTIES EmbeddedKeepsPromise WorkerComesBack CallsEnd
CHECK_DEADLOCK FALSE
