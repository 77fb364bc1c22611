\* Four callers and two permits, on either driver.
CONSTANTS
    Callers = {c1, c2, c3, c4}
    Conns = {k1, k2}
    NoConn = NoConn
    MaxConnections = 2
SPECIFICATION FairSpec
INVARIANTS TypeOK PermitAccounting PoolBound ExclusiveLoan WorkConserving
PROPERTIES WaitEnds
