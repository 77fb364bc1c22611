\* Time intervals whose ends are finer than a microsecond.
CONSTANTS
    Unit = 2
    Second = 6
    MaxMicros = 8
    Word = 16
    Ends <- FineEnds
    Counts <- MCCounts
    Radix = 2
    ServerOrder <- MCServerOrder
SPECIFICATION Spec
CHECK_DEADLOCK FALSE
INVARIANTS EachKeyOnce
