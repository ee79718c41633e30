SPECIFICATION FairSpec
CONSTANTS
    Policies = {"no", "on-failure"}
    Schedules = {"prompt", "late"}
    Signals = {"TERM", "HUP"}
    MaxSignals = 2
    MaxExits = 1
    MaxProbes = 3
    MaxChildren = 6
INVARIANTS
    TypeOK
    OneStartAfterStop
    RestartsAskedFor
    ExitRecorded
PROPERTIES
    StopEnds
    RestartServed
\* the supervisor returns
CHECK_DEADLOCK FALSE
