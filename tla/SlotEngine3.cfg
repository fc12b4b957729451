CONSTANTS
    Server = {s1, s2, s3}
    NFaulty = 1
    Proposal = {m1, m2}
    LenBlockArray = 2
    Coin <- MCCoin
    Null = Null
    None = None
    HeadRequest <- SplitHead
    QueueCap = 3
    MaxCrash = 0
SYMMETRY Symmetry
SPECIFICATION Spec
INVARIANTS
    NoticesMatch
    DecisionNoticeKept
    HandlerNotStuck
    RequestAnswerable
    StatIndexInRange
PROPERTIES
    MajorityStable
    ImplementsWeakMVC
CHECK_DEADLOCK FALSE
