CONSTANTS
    d1 = d1
    d2 = d2
    d3 = d3
    x1 = x1
    x2 = x2
    x3 = x3
    Sources = {"fake", "dydx", "hyperliquid"}
    EnvSource = "fake"
    Universe <- Listings
    Volume <- Volumes
    Floors = {2}
    Bars <- FewAndMany
    MinCandles = 3
    MinRows = 3
    Quality <- Good
    ChunkSize = 2
    EnvThresholds <- Env
    Asked <- EnvAndAsked
    TablesBefore <- ScannedBefore
    Faults = {"markets", "fetch", "db", "csv", "crash"}
    MaxFaults = 1
    MaxCalls = 3
    Windows <- AllWindow
    DemoWindow <- DemoDates
    CachedBars <- Cached
    ZScore <- Scores
    ZWindow = 2
    HalfLife = 1
    TimeStopMult = 1
    Thresholds <- Env
    Starting = 2
    MaxActive = 2
    Earns <- Profit
    ProgressSteps = 3
SPECIFICATION FairSpec
INVARIANTS
    TypeOK
    ThresholdsSurvive
    ScanIsHonest
    ReplayIsHonest
    DemoStaysApart
PROPERTIES
    DeskSettles
CHECK_DEADLOCK FALSE
