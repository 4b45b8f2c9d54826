SPECIFICATION Spec
CONSTANTS
    Call = {1, 2, 3}
    Url = {"u", "v"}
    UrlOf <- MCUrlOf
    MaxRetries = 1
    MaxRuns = 1
    Challenge = {1, 2}
    Input = {n1, n2}
    MaxAttempts = 2
    MaxActions = 2
    Intents = 4
    Direct = {2}
    Planned <- MCPlanned
    MaxBudget = 4
    LaneQueries = 3
    Providers = 2
    MaxPages = 3
    MaxHits = 2
    MaxLosses = 1
    Listed = {1, 2, 3}
    MaxClock = 2
    PageSizes = {1, 2}
    PageTask = {"t1", "t2"}
    FillValue = {"v"}
    AllowedOf <- MCAllowed
    Threshold = 2
    KeepVersions = 2
    MaxSteps = 2
    MaxRounds = 1
    NoRecipe = NoRecipe
    Page <- MCPage
    Sitemap <- MCSitemap
    Host <- MCHost
    SiteOf <- MCSiteOf
    LandsOn <- MCLandsOn
    Canonical <- MCCanonical
    LinksOf <- MCLinksOf
    FeedsOf <- MCFeedsOf
    TextOf <- MCTextOf
    Shell = {"home"}
    Item = {"item", "twin"}
    MapOf <- MCMapOf
    SitemapsOf <- MCSitemapsOf
    BodyOf <- MCBodyOf
    NoUrl = "no url"
    NoText = "short"
    NoMap = "no map"
    MaxLinks = 3
    MaxIndexes = 2
    MaxUrls = 2
    MaxIndexDepth = 3
    MapChildren = 1
    BlockLimit = 2
    MaxTasks = 7
    Seed = {"home", "moved"}
    Limits <- MCLimits
    Declared <- MCDeclared
    Items <- MCItems
    MapRounds = 2
    Goals = 2
    ResearchUrl = {1, 2, 3, 4}
    GoalOf <- MCGoalOf
    OnMaps = {4}
    LeadsTo <- MCLeadsTo
    HostOf <- MCHostOf
    Refusal = {"challenge", "http 403"}
    BlockThreshold = 2
    SeedTasks <- MCSeedTasks
    AreaGoals = {2}
    HistoryGoals = {1}
    MapGoals = {2}
    Target = 2
    PageLimit = 3
    BranchDepth = 1
    RoundLimit = 2
    QueryLimit = 3
    Archives <- MCArchives
    Maps <- MCMaps
    Hint <- MCHint
    PerSearch = 2
    HitLimit = 1
    Backpressure = 1
    MaxEnds = 1
    Capture = {1, 2, 3, 4}
    Thing = {1, 2}
    Article = {0}
    Serves <- MCServes
    Listing <- MCListing
    CaptureLimit = 3
    ChangeLimit = 1
    IndexRetries = 1
    MaxStops = 1
INVARIANT
    GoneIsGone
CHECK_DEADLOCK FALSE
