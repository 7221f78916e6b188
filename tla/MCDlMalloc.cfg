SPECIFICATION Spec
CONSTANTS
    Granularity = 8
    MmapThreshold = 3
    TrimThreshold = 8
    MaxReleaseCheckRate = 2
    MinLarge = 3
    NextBin = 0
    MaxSize = 127
    MemoryEnd = 32
    Requests = {2, 3}
    Aligned <- MCAligned
    Elements <- MCElements
    Pads = {0}
    Limits = {9}
    MaxBlocks = 3
    IallocAlone = TRUE
    MaxPending = 1
INVARIANTS
    NeverAborts
    HeapSound
    NothingLeaks
PROPERTIES
    KeepsPromise
