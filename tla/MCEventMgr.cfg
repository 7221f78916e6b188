\* Safety of the event list.  The driver may stop: its ids are bounded.
SPECIFICATION Spec
CONSTANTS
    pa = pa
    pb = pb
    Pids <- MCPids
    NullPrefix = 1
    FirstId = 2
    MaxId = 4
    MaxQueue = 1
SYMMETRY MCSymmetry
INVARIANTS
    EventsInOrder
    StacksFound
    ActorIsRight
    LastWord
CHECK_DEADLOCK FALSE
