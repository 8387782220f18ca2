SPECIFICATION FairSpec
CONSTANTS
    NThreads = 2
    NRequest = 2
    NPaths = 2
    CreateMayFail = TRUE
    NULL = NULL
CHECK_DEADLOCK FALSE
INVARIANTS
    PathsInv
    FilesMatchOutcomes

    
