\* A batch of two result sets, whose column has two types.
CONSTANTS
    Unit = 1
    Second = 1
    MaxMicros = 8
    Word = 64
    Radix = 2
    ServerOrder <- MCServerOrder
    Params <- PlainParams
    Contents <- MCContents
    OtherRows <- MCOtherRows
    Backends = {"mssql"}
    CountWord = 4
    BatchSize = 2
    MaxScans = 1
    MaxWrites = 0
SPECIFICATION Spec
CHECK_DEADLOCK FALSE
INVARIANTS CellsFit
