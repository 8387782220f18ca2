SPECIFICATION Spec
CONSTANTS
    c1 = c1
    p = p
    NULL = NULL
    Clients <- OneClient
    Paths <- OnePath
    BadPaths <- None
    Files <- PlainFile
    OpenLimits <- OneOrTwo
CHECK_DEADLOCK FALSE
INVARIANTS
    DeliversFile
