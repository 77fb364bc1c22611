\* All helpers, with ends that can be printed.
CONSTANTS
    Unit = 2
    Second = 6
    MaxMicros = 8
    Word = 16
    Ends <- MCEnds
    Counts <- MCCounts
    Radix = 2
    ServerOrder <- MCServerOrder
SPECIFICATION FairSpec
CHECK_DEADLOCK FALSE
INVARIANTS TypeOK EvenlySized EachKeyOnce EachUuidOnce
PROPERTIES Tiles Returns
