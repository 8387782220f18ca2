SPECIFICATION FairSpec
CONSTANTS
    MaxPending = 3
INVARIANTS
    TypeOK
    Exclusion
    OvertakenOnce
PROPERTIES
    EnterEnds
