\* The start, the end and the sharing of the driver.
SPECIFICATION FairSpec
CONSTANTS
    a = a
    b = b
    Instances <- MCInstances
INVARIANTS
    TypeOK
    OneMonitor
    LoadsTheDriver
    NothingLeftBehind
PROPERTIES
    ConnectionKept
    ShutdownTerminates
