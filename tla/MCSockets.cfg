SPECIFICATION Spec
CONSTANTS
    s1 = s1
    s2 = s2
    p1 = p1
    hi = hi
    lo = lo
    Sockets = {s1, s2}
    Owner <- MCOwner
    Prio <- MCPrio
    Peers = {p1}
    Ports = {1}
    RESERVED = 2
    USERRESERVED = 4
    RX_QUEUE_SIZE = 1
    Pools <- MCPools
    MaxCalls = 5
    MaxDatagrams = 1
    AnyAddr = AnyAddr
    If = If
    Bc = Bc
    None = None
INVARIANTS
    MemoryCounted
    ConnectionHidden
PROPERTY
    InputEnds
CHECK_DEADLOCK FALSE
