SPECIFICATION SpecSymbols
CONSTANTS
    f = f
    g = g
    h = h
    noname = noname
    garbage = garbage
    MaxInt = 3
    Names = {f, g}
    NoName = noname
    Exports <- MCExports
    MaxFuncs = 3
CHECK_DEADLOCK FALSE
INVARIANTS
    ClosestIsNearest
    FileAgreesWithImage
