CONSTANTS
    Server = {s1, s2, s3}
    NFaulty = 1
    Proposal = {m1, m2}
    LenBlockArray = 2
    Coin <- MCCoin
    Null = Null
    None = None
    HeadRequest <- SplitHead
    QueueCap = 3
    MaxCrash = 1
SYMMETRY Symmetry
VIEW LiveView
SPECIFICATION Spec
CONSTRAINT NotExcused
ACTION_CONSTRAINT InwardFirst
INVARIANTS
    SurvivorsDecide
    RequestAnswered
CHECK_DEADLOCK FALSE
