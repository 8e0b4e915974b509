SPECIFICATION Spec
CONSTANTS
    c1 = c1
    c2 = c2
    c3 = c3
    s1 = s1
    None = None
    Conns <- TwoConns
    Sessions <- OneSocket
    BroadcastCapacity = 6
    HistoryLimit = 2
    MaxUpdates = 0
    MaxDials = 1
    MaxCrashes = 0
    WritesMayFail = FALSE
    AcksMayBeLost = FALSE
    TotalsMayFail = FALSE
    ReplaysMayFail = FALSE
INVARIANTS
    DroppedIsDone
CHECK_DEADLOCK FALSE
