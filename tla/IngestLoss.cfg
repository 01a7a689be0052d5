CONSTANTS
    a = a
    b = b
    Markets = {a, b}
    Sorted <- Names
    Horizon = 5
    Feed <- Histories
    FundingFeed <- Rates
    Listed <- ListedOn
    PageSize = 2
    DropRules = {"zero_volume", "flat"}
    MaxSpan = 3
    MinCoverage = 2
    FilledBefore <- NoneOrAllVenues
    OnDiskBefore <- NoneOrAllMarkets
    RefreshEnd = 4
    MaxPasses = 5
    Staleness = 1
    Faults = {"page"}
    MaxFaults = 1
    MaxFetches = 1
    MaxScripts = 0
SPECIFICATION FairSpec
PROPERTY
    NoDataLoss
CHECK_DEADLOCK FALSE
