CONSTANTS
    m1 = m1
    m2 = m2
    m3 = m3
    m4 = m4
    Messages = {m1, m2, m3, m4}
    None = None
SPECIFICATION FairSpec
INVARIANTS
    TypeOK
    FinishingIsOwned
    IdleStrandsNothing
PROPERTIES
    SendReturns
CHECK_DEADLOCK FALSE
