SPECIFICATION Spec
CONSTANTS
    c1 = c1
    c2 = c2
    None = None
    Callers <- MCCallers
    Ops = {"run", "start"}
    Ends = {"gone"}
    GivesUp = FALSE
    EarlyAccess = TRUE
    KillsInStart = FALSE
    MaxSups = 2
    MaxChildren = 3
    MaxOps = 3
    MaxExits = 1
    MaxCrashes = 0
INVARIANTS
    OneSupervisor
\* the requests are bounded
CHECK_DEADLOCK FALSE
