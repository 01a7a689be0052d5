CONSTANTS
    Handlers = {h1, h2}
    SimPairs = {x, y}
    Starting = 2
    MaxActive = 1
    Faults = {"crash", "db"}
    MaxRows = 3
    MaxTopUps = 1
    MaxHours = 1
    MaxDowns = 1
    PnLs <- GainOrLoss
SPECIFICATION Spec
INVARIANTS
    TypeOK
    CapitalBalances
    OneTradeEach
    FundedOnce
    WithinLimits
    JobMatchesStatus
PROPERTIES
    StoppedIsFinal
SYMMETRY SessionSymmetry
