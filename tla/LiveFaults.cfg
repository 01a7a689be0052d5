CONSTANTS
    a = a
    m = m
    b = b
    Markets = {a, b}
    ClientIds = {c1}
    Deferred = FALSE
    LegLots = 1
    Faults = {"query", "lost", "outside", "crash", "db"}
    Procs = {p1, p2}
    Pairs <- OnePair
    MaxTrades = 2
    MaxSessions = 1
    MaxDowns = 1
SPECIFICATION Spec
INVARIANTS
    TypeOK
    SerialPasses
    OneOpenRowPerPair
PROPERTIES
    RowsAreFinal
SYMMETRY HandlerSymmetry
