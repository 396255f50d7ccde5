CONSTANTS
    NumNodes = 4
SPECIFICATION OneLoopSpec
INVARIANTS
    TypeOK
    LowMarksFound
    AllFound
    CondensationDescends
PROPERTIES
    ImplementsSccOrder
    Returns
CHECK_DEADLOCK FALSE
