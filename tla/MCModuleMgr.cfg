SPECIFICATION SpecModules
CONSTANTS
    p1 = p1
    p2 = p2
    system = system
    a = a
    b = b
    Procs = {system, p1}
    System = system
    Files = {a, b}
    Size <- MCSize
    Bases = {2, 4}
    MaxMaps = 2
    MaxStacks = 2
CHECK_DEADLOCK FALSE
INVARIANTS
    OneImagePerFile
    ReportedFramesFound
    FramesRight
