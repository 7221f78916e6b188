\* Safety of the process table.  The system may stop: its clock is bounded.
SPECIFICATION Spec
CONSTANTS
    Pids <- MCPids
    Unqueryable <- MCUnqueryable
    BootClock = 2
    MaxClock = 4
    MaxQueue = 3
INVARIANTS FindReturnsItsPid
CHECK_DEADLOCK FALSE
