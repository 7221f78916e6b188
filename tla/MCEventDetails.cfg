SPECIFICATION SpecDetails
CONSTANTS
    Sizes <- MCSizes
    Lengths <- MCLengths
    Offsets <- MCOffsets
    ULONG_MAX = 1000
    Bytes = {0, 1, 128}
    Types <- MCTypes
    DataMessages <- MCDataMessages
    MaxData = 8
    Masks <- MCMasks
CHECK_DEADLOCK FALSE
INVARIANTS
    KeptIsCopied
    CopiedPartsKept
    MoreIsSaid
    AccessIsSaid
