SPECIFICATION BackendFairSpec
CONSTANTS
    c1 = c1
    c2 = c2
    None = None
    Conns <- TwoConns
    Addrs <- TwoConns
    AddrOf <- OwnAddresses
    MaxClients = 1
    ChannelCapacity = 1
    MaxLines = 0
    MaxCrashes = 0
    SocketsMayFail = FALSE
    DbMayFail = TRUE
    TimeoutsFire = TRUE
    TasksFail = TRUE
    HandlersFail = TRUE
INVARIANTS
    FailureHasACause
PROPERTIES
    ImplementsTarpit
    ImplementsLedger
    ShutdownCompletes
CHECK_DEADLOCK FALSE
