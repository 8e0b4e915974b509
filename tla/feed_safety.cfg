SPECIFICATION FairSpec
CONSTANTS
    c1 = c1
    c2 = c2
    c3 = c3
    s1 = s1
    None = None
    Conns <- TwoConns
    Sessions <- OneSocket
    BroadcastCapacity = 2
    HistoryLimit = 2
    MaxUpdates = 0
    MaxDials = 2
    MaxCrashes = 1
    WritesMayFail = TRUE
    AcksMayBeLost = FALSE
    TotalsMayFail = FALSE
    ReplaysMayFail = FALSE
INVARIANTS
    TotalsExact
PROPERTIES
    NoRowSkipped
    EveryRowIsShown
CHECK_DEADLOCK FALSE
