CONSTANTS
    Server = {s1, s2, s3}
    NFaulty = 1
    Proposal = {m1}
    LenBlockArray = 1
    Coin <- MCCoin
    Null = Null
    None = None
    HeadRequest <- AnyHead
    QueueCap = 3
    MaxCrash = 1
SPECIFICATION FairSpec
PROPERTIES
    EveryServerDecides
CHECK_DEADLOCK FALSE
