CONSTANTS
    NumSccs = 3
    MaxParallel = 2
SPECIFICATION FairSpec
INVARIANTS
    TypeOK
    CalleesFirst
    NoLostWakeup
    JoinCoversAll
PROPERTIES
    StartedOnce
    ImplementsBottomUp
    JoinHappens
CHECK_DEADLOCK FALSE
