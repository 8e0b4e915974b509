SPECIFICATION Spec
CONSTANTS
    c1 = c1
    c2 = c2
    c3 = c3
    a1 = a1
    None = None
    Conns <- ThreeConns
    Addrs <- ThreeConns
    AddrOf <- OwnAddresses
    MaxClients = 2
    ChannelCapacity = 2
    MaxLines = 1
    MaxCrashes = 1
    SocketsMayFail = TRUE
    DbMayFail = TRUE
SYMMETRY Symmetry
INVARIANTS
    TypeOK
    PermitsAccounted
    RecordedOnce
    EventInOnePlace
    TransactionAddsOneRow
    TotalsMatchRows
    EntryBytesAreItsOwn
    TrappedAreListed
PROPERTIES
    RowsAppearInIdOrder
CHECK_DEADLOCK FALSE
