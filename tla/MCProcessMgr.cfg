\* The process table, and the worker's liveness.  The system may stop: its clock
\* is bounded.
SPECIFICATION FairSpec
CONSTANTS
    Pids <- MCPids
    Unqueryable <- MCUnqueryable
    BootClock = 2
    MaxClock = 4
    MaxQueue = 3
INVARIANTS
    TypeOK
    ContainersAgree
    FindsTheLiving
    LinksMirror
    ParentIsOlder
    TableMatchesSystem
PROPERTIES
    GhostsVanish
CHECK_DEADLOCK FALSE
