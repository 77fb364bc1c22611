\* Three partitions, a consumer with a query of its own and another call.
CONSTANTS
    o1 = o1
    me = me
    k1 = k1
    k2 = k2
    k3 = k3
    Callers <- MCCallers
    Conns <- TwoConns
    NoConn = NoConn
    MaxConnections = 2
    N = 3
    RowCount <- MCRowCount
    Me = me
SPECIFICATION StreamSpec
SYMMETRY Symmetry
CHECK_DEADLOCK FALSE
INVARIANTS StreamTypeOK ItemsInOrder NothingSkipped StreamLeavesNothing
