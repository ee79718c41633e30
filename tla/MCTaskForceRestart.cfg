SPECIFICATION Spec
CONSTANTS
    c1 = c1
    c2 = c2
    None = None
    Callers <- MCCallers
    Ops = {"run", "forceRestart"}
    Ends = {"gone"}
    GivesUp = FALSE
    EarlyAccess = FALSE
    KillsInStart = FALSE
    MaxSups = 2
    MaxChildren = 3
    MaxOps = 2
    MaxExits = 0
    MaxCrashes = 0
INVARIANTS
    RestartKeepsSupervisor
\* the requests are bounded
CHECK_DEADLOCK FALSE
