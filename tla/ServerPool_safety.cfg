SPECIFICATION Spec
CONSTANTS
    w1 = w1
    w2 = w2
    c1 = c1
    c2 = c2
    c3 = c3
    NULL = NULL
    Workers <- TwoWorkers
    Cells <- ThreeCells
    NReq = 3
    FileSizes <- TwoBuffers
SYMMETRY Symmetric
CHECK_DEADLOCK FALSE
INVARIANTS
    TypeOK
    ServedOnceInOrder
    QueueIntact
    UnderflowHasCause
    Responses
    OneTransferAtATime
    NoDeadlock
