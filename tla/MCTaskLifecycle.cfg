SPECIFICATION Spec
CONSTANTS
    c1 = c1
    c2 = c2
    None = None
    Callers <- MCCallers
    Ops = {"run", "start", "stop", "forceStop", "restart", "forceRestart",
           "remove", "forceRemove", "cleanup", "replace"}
    Ends = {"gone", "zombie"}
    GivesUp = FALSE
    EarlyAccess = FALSE
    KillsInStart = FALSE
    MaxSups = 3
    MaxChildren = 3
    MaxOps = 3
    MaxExits = 1
    MaxCrashes = 2
SYMMETRY Symmetry
INVARIANTS
    TypeOK
    OneSupervisor
    OneChild
    StrayOnRecord
    StopsAll
    ExitIsFinal
\* the requests are bounded
CHECK_DEADLOCK FALSE
