CONSTANTS
    a = a
    m = m
    b = b
    Markets = {a, m, b}
    ClientIds = {c1}
    Deferred = FALSE
    LegLots = 2
    Faults = {"outside", "partial"}
    Procs = {p1}
    Pairs <- SharedLegPairs
    MaxTrades = 2
    MaxSessions = 1
    MaxDowns = 0
SPECIFICATION Spec
INVARIANTS
    OnlyShortfallsLeak
PROPERTIES
    ReconciledMeansGone
