SPECIFICATION FairSpec
CONSTANTS
    c1 = c1
    c2 = c2
    c3 = c3
    a1 = a1
    None = None
    Conns <- TwoConns
    Addrs <- OneAddress
    AddrOf <- SameAddress
    MaxClients = 2
    ChannelCapacity = 1
    MaxLines = 2
    MaxCrashes = 0
    SocketsMayFail = FALSE
    DbMayFail = FALSE
PROPERTIES
    NothingLostInOperation
    GoneIsRecorded
    CancellationStopsAll
CHECK_DEADLOCK FALSE
