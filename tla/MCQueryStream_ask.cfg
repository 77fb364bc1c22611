\* The consumer queries the driver between two items.
CONSTANTS
    o1 = o1
    me = me
    k1 = k1
    k2 = k2
    k3 = k3
    Callers <- TwoCallers
    Conns <- TwoConns
    NoConn = NoConn
    MaxConnections = 1
    N = 2
    RowCount <- TwoRowCount
    Me = me
SPECIFICATION StreamFairSpec
CHECK_DEADLOCK FALSE
PROPERTIES OwnQueryReturns
