CONSTANTS
    m1 = m1
    m2 = m2
    Messages = {m1, m2}
    None = None
SPECIFICATION FairSpec
PROPERTIES
    MessageProcessed
CHECK_DEADLOCK FALSE
