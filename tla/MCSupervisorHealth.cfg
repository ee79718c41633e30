SPECIFICATION Spec
CONSTANTS
    Policies = {"always"}
    Schedules = {"prompt"}
    Signals = {"TERM", "HUP"}
    MaxSignals = 1
    MaxExits = 0
    MaxProbes = 3
    MaxChildren = 6
PROPERTIES
    HealthJudgesOneChild
\* the supervisor returns
CHECK_DEADLOCK FALSE
