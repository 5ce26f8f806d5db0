CONSTANTS
    MagicLen = 2
    LenBytes = 2
    DescMax = 2
    ZeroLen = 2
    ChunkSizes = {20}
    DescLens = {3}
    DataSizes = {0, 2}
    FdValues = {3}
    KeepTmp = FALSE
    HostFails = FALSE
    MaxCalls = 7
SPECIFICATION Spec
CHECK_DEADLOCK FALSE
INVARIANTS
    FieldAligned
