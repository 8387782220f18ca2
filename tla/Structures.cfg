SPECIFICATION StructuresSpec
CONSTANTS
    a = a
    b = b
    c1 = c1
    c2 = c2
    c3 = c3
    NULL = NULL
    Items <- TwoItems
    Cells <- ThreeCells
    MaxLines = 5
    Lists <- AllLists
    Keys <- FourKeys
    InitialCapacity = 2
CHECK_DEADLOCK FALSE
INVARIANTS
    TypeOK
    ListOK
    InBounds
PROPERTIES
    ImplementsDeque
    DestroyEnds
    GetIsRight
    GetEnds
