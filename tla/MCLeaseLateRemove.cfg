SPECIFICATION Spec
CONSTANTS
    c1 = c1
    c2 = c2
    c3 = c3
    server = server
    cli = cli
    NoFile = NoFile
    Calls <- MCCalls
    Procs <- MCProcs
    ProcOf <- MCProcOf
    MaxBeats = 1
    Stalls = FALSE
    TornCrash = FALSE
    LateRemove = TRUE
INVARIANTS
    AtMostOneHolder
\* every call may be over
CHECK_DEADLOCK FALSE
