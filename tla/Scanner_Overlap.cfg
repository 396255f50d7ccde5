CONSTANTS
    NumAddresses = 4
    MaxLength = 2
    Ops = {"linear", "goto", "return"}
    Seeds <- ThreeSeeds
SPECIFICATION Spec
INVARIANTS
    EndIsReallyShared
CHECK_DEADLOCK FALSE
