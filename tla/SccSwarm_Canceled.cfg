CONSTANTS
    NumSccs = 3
    MaxParallel = 1
SPECIFICATION FairSpec
PROPERTIES
    JoinHappensWhenCanceled
CHECK_DEADLOCK FALSE
