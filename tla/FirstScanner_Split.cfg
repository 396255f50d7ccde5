CONSTANTS
    NumAddresses = 3
    MaxLength = 1
    Ops = {"linear", "nop", "goto"}
    Symbols = {1}
SPECIFICATION Spec
PROPERTIES
    SplitFallsThrough
CHECK_DEADLOCK FALSE
