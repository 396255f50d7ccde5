CONSTANTS
    NumAddresses = 4
    MaxLength = 1
    Ops = {"linear", "goto", "call", "return"}
    Seeds <- ThreeSeeds
SPECIFICATION Spec
INVARIANTS
    TracingGoesOn
CHECK_DEADLOCK FALSE
