\* Three partitions and another call on two connections, of either driver.
CONSTANTS
    o1 = o1
    k1 = k1
    k2 = k2
    Callers <- MCCallers
    Conns <- MCConns
    NoConn = NoConn
    MaxConnections = 2
    N = 3
    RowCount <- MCRowCount
SPECIFICATION PartitionedFairSpec
CHECK_DEADLOCK FALSE
INVARIANTS PartitionedTypeOK RowsInOrder FailureIsReported FirstErrorReported NothingLeftBehind
PROPERTIES KeepsPromise CallReturns
