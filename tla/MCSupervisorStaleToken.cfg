SPECIFICATION Spec
CONSTANTS
    Policies = {"no"}
    Schedules = {"prompt"}
    Signals = {"TERM", "HUP"}
    MaxSignals = 1
    MaxExits = 1
    MaxProbes = 0
    MaxChildren = 6
INVARIANTS
    KilledOnRequest
\* the supervisor returns
CHECK_DEADLOCK FALSE
