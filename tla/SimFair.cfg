CONSTANTS
    Handlers = {h1, h2}
    SimPairs = {x, y}
    Starting = 2
    MaxActive = 2
    Faults = {}
    MaxRows = 3
    MaxTopUps = 1
    MaxHours = 0
    MaxDowns = 0
    PnLs <- GainOrLoss
SPECIFICATION FairSpec
PROPERTIES
    ImplementsLedger
    StopServed
