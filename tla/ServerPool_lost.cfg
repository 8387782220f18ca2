SPECIFICATION Spec
CONSTANTS
    w1 = w1
    w2 = w2
    c1 = c1
    c2 = c2
    c3 = c3
    NULL = NULL
    Workers <- TwoWorkers
    Cells <- TwoCells
    NReq = 2
    FileSizes <- OneBuffer
CHECK_DEADLOCK FALSE
INVARIANTS
    NoRequestLost
