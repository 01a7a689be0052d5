CONSTANTS
    a = a
    m = m
    b = b
    Markets = {a, b}
    ClientIds = {c1}
    Deferred = TRUE
    LegLots = 1
    Faults = {"late"}
    Procs = {p1, p2}
    Pairs <- OnePair
    MaxTrades = 1
    MaxSessions = 1
    MaxDowns = 0
SPECIFICATION FairSpec
PROPERTIES
    PassesEnd
