CONSTANTS
    d1 = d1
    d2 = d2
    d3 = d3
    x1 = x1
    x2 = x2
    x3 = x3
    Sources = {"fake", "dydx", "hyperliquid"}
    EnvSource = "fake"
    Universe <- Listings
    Volume <- Volumes
    Floors = {2}
    Bars <- FewAndMany
    MinCandles = 3
    MinRows = 3
    Quality <- Good
    ChunkSize = 2
    EnvThresholds <- Env
    Asked <- EnvAndAsked
    TablesBefore <- ScannedBefore
    Faults = {}
    MaxFaults = 0
    MaxCalls = 3
    Windows <- AllWindow
    DemoWindow <- DemoDates
    CachedBars <- Cached
    ZScore <- Scores
    ZWindow = 2
    HalfLife = 1
    TimeStopMult = 1
    Thresholds <- Env
    Starting = 2
    MaxActive = 2
    Earns <- Profit
    ProgressSteps = 3
SPECIFICATION Spec
INVARIANT
    TradeIsOfOneSource
CHECK_DEADLOCK FALSE
