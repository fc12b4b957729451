CONSTANTS
    s1 = s1
    s2 = s2
    s3 = s3
    Peers <- ThreePeers
    LenChannel = 2
    NRequests <- OneRequest
    NAsks <- TwoAsks
    MaxCrash = 1
    None = None
SPECIFICATION FairSpec
INVARIANTS
    AnswersMatch
PROPERTIES
    ImplementsFifoLinks
    PeersServed
CHECK_DEADLOCK FALSE
