SPECIFICATION MCSpec
CONSTANTS
    c1 = c1
    c2 = c2
    r = r
    a = a
    b = b
    c = c
    x = x
    None = None
    Clients = {c1, c2}
    Readers = {r}
    TaskNames = {a, b, c}
    Labels = {x}
    MaxTasks = 3
    Requests <- MCRequests
    AutoRm = TRUE
    MaxBatchItems = 1
    MaxListLimit = 1
    PageRequests <- MCPageRequests
INVARIANTS
    TypeOK
    NamesUnique
    NoCircularWait
    PagesOrdered
    PagesComplete
    BatchReachesAll
    OutcomeReported
PROPERTIES
    WritesKeepTheRest
    ImplementsNameTable
\* requests end
CHECK_DEADLOCK FALSE
