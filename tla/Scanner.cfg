CONSTANTS
    NumAddresses = 4
    MaxLength = 2
    Ops = {"linear", "padding", "invalid", "halt", "resume", "goto", "branch", "call", "return"}
    Seeds <- ThreeSeeds
SPECIFICATION FairSpec
INVARIANTS
    TypeOK
    BlocksDisjoint
    EndsAreBlockEnds
    EdgesKept
    EdgesArrive
    NothingThrown
    CallsMatchCallers
    NoWorkerLost
    ReturnsReached
PROPERTIES
    NothingLost
    Terminates
CHECK_DEADLOCK FALSE
