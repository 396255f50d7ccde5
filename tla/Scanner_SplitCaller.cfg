CONSTANTS
    NumAddresses = 4
    MaxLength = 1
    Ops = {"linear", "branch", "call", "return"}
    Seeds <- ThreeSeeds
SPECIFICATION Spec
INVARIANTS
    CallerEndsInCall
CHECK_DEADLOCK FALSE
