SPECIFICATION Spec
CONSTANTS
    c1 = c1
    c2 = c2
    c3 = c3
    a1 = a1
    None = None
    Conns <- TwoConns
    Addrs <- TwoConns
    AddrOf <- OwnAddresses
    MaxClients = 2
    ChannelCapacity = 2
    MaxLines = 1
    MaxCrashes = 0
    SocketsMayFail = FALSE
    DbMayFail = FALSE
INVARIANTS
    ListedAreTrapped
CHECK_DEADLOCK FALSE
