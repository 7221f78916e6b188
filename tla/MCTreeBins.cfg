SPECIFICATION Spec
CONSTANTS
    Chunks = {c1, c2, c3, c4}
    NULL = NULL
    BIN = BIN
    SizeBits = 5
    TreeBinShift = 2
    NTreeBins = 4
    FreeSizes <- MCFreeSizes
    Requests <- MCRequests
    DvSizes = {0, 10}
SYMMETRY MCSymmetry
INVARIANT TriesSound
PROPERTY TakesBestFit
