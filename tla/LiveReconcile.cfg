CONSTANTS
    a = a
    m = m
    b = b
    Markets = {a, b}
    ClientIds = {c1}
    Deferred = FALSE
    LegLots = 1
    Faults = {"query"}
    Procs = {p1}
    Pairs <- OnePair
    MaxTrades = 1
    MaxSessions = 1
    MaxDowns = 0
SPECIFICATION Spec
PROPERTIES
    ReconciledMeansGone
