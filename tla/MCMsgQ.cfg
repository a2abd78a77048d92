SPECIFICATION FairSpec
CONSTANTS
    Peers = {p1, p2}
    MaxMsgs = 3
    MaxReqs = 2
CHECK_DEADLOCK FALSE
INVARIANTS
    OwnEntry
    InOrder
    NothingElseLost
PROPERTIES
    FifoSpec
    DeprecatedStaysSilent
    Delivery
