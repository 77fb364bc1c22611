\* Every strategy, complete or not, with one write to the remote table and two
\* scans.
CONSTANTS
    Unit = 1
    Second = 1
    MaxMicros = 8
    Word = 64
    Radix = 2
    ServerOrder <- MCServerOrder
    Params <- MCParams
    Contents <- MCContents
    OtherRows <- MCOtherRows
    Backends = {"postgres", "mssql"}
    CountWord = 4
    BatchSize = 2
    MaxScans = 2
    MaxWrites = 1
SPECIFICATION Spec
CHECK_DEADLOCK FALSE
INVARIANTS TypeOK EachRowOnce ScanComplete OneTypeFits
