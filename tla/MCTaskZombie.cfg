SPECIFICATION Spec
CONSTANTS
    c1 = c1
    c2 = c2
    None = None
    Callers <- MCCallers
    Ops = {"run", "start"}
    Ends = {"zombie"}
    GivesUp = FALSE
    EarlyAccess = FALSE
    KillsInStart = FALSE
    MaxSups = 2
    MaxChildren = 3
    MaxOps = 2
    MaxExits = 1
    MaxCrashes = 0
PROPERTIES
    RefusesOnlyRunning
\* the requests are bounded
CHECK_DEADLOCK FALSE
