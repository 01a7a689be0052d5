CONSTANTS
    Handlers = {h1}
    SimPairs = {x}
    Starting = 2
    MaxActive = 2
    Faults = {"crash"}
    MaxRows = 1
    MaxTopUps = 0
    MaxHours = 0
    MaxDowns = 1
    PnLs <- GainOrLoss
SPECIFICATION Spec
INVARIANTS
    ResumesWhereItLeftOff
