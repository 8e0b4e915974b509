SPECIFICATION DashboardSpec
CONSTANTS
    w1 = w1
    w2 = w2
    f1 = f1
    f2 = f2
    r1 = r1
    r2 = r2
    Sockets <- TwoSockets
    BaseBackoff = 1
    MaxBackoff = 1
    MaxNudges = 0
    NoSocket = NoSocket
    Ranges <- TwoRanges
    DefaultRange = r1
    Controllers <- TwoControllers
    NoRange = NoRange
SYMMETRY Symmetry
INVARIANTS
    SettledShowsSelected
    RecoveredIsFresh
CHECK_DEADLOCK FALSE
