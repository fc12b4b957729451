CONSTANTS
    Server = {s1, s2, s3}
    NFaulty = 1
    NumObjects <- TwoAndOne
    Reliable = {s1, s2}
    MaxSlot = 3
    Null = Null
    None = None
SPECIFICATION FairSpec
INVARIANTS
    DiscardExact
    NothingLost
PROPERTIES
    ContendsOnlyUnreceived
    ImplementsTotalOrder
    AllDelivered
CHECK_DEADLOCK FALSE
