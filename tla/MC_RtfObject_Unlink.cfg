CONSTANTS
    MagicLen = 2
    LenBytes = 2
    DescMax = 2
    ZeroLen = 2
    ChunkSizes = {1, 3}
    DescLens = {0, 2}
    DataSizes = {0, 2}
    FdValues = {3}
    KeepTmp = FALSE
    HostFails = TRUE
    MaxCalls = 7
SPECIFICATION Spec
CHECK_DEADLOCK FALSE
INVARIANTS
    VerdictReturned
