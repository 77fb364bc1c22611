\* Every configuration of two builder calls or three segments; every parameter
\* in every column of every backend.
CONSTANTS
    Half <- MCHalf
    Mantissa = 4
    SingleMantissa = 2
    Places <- MCPlaces
    Auths <- MCAuths
    BuilderCalls <- MCBuilderCalls
    Segments <- MCSegments
    PoolSizes = {1, 3}
    AzureAuth = TRUE
    MaxBuilderCalls = 2
    MaxSegments = 3
    Params <- MCParams
    Extremes <- MCExtremes
    OtherSets <- MCOtherSets
    Talkers <- MCTalkers
SPECIFICATION Spec
CHECK_DEADLOCK FALSE
INVARIANTS TypeOK LoginAsConfigured RowsMatchColumns OnlyKnownLosses 
