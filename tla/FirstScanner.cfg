CONSTANTS
    NumAddresses = 4
    MaxLength = 2
    Ops = {"linear", "nop", "invalid", "halt", "goto", "branch", "call", "return"}
    Symbols = {1}
SPECIFICATION FairSpec
INVARIANTS
    TypeOK
    RangesDisjoint
    BlocksOwned
    OwnersEntered
    ProceduresEntered
    NothingLost
    EverythingReached
    EdgesFollowCode
    StatementsInRange
PROPERTIES
    Terminates
CHECK_DEADLOCK FALSE
