CONSTANTS
    Server = {s1, s2, s3}
    NFaulty = 0
    Proposal = {m1, m2, m3}
    LenBlockArray = 2
    Coin <- MCCoin
    Null = Null
    None = None
    HeadRequest <- OwnHead
    QueueCap = 3
    MaxCrash = 0
SPECIFICATION Spec
PROPERTIES
    ImplementsWeakMVC
CHECK_DEADLOCK FALSE
