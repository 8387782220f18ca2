SPECIFICATION DownloadSpec
CONSTANTS
    c1 = c1
    c2 = c2
    p = p
    e = e
    q = q
    bad = bad
    NULL = NULL
    Clients = {c1, c2}
    Paths = {p, e, q, bad}
    BadPaths = {bad}
    Files <- TextAndNone
    OpenLimits = {1, 2}
    Programs = {c1, c2}
    NRequests = 2
    Plans <- AllPlans
CHECK_DEADLOCK FALSE
INVARIANTS
    Delivery
    RightFile
    DeathsHaveCause
    KeptIfSucceeded
PROPERTIES
    ProgramsEnd
