CONSTANTS
    s1 = s1
    s2 = s2
    s3 = s3
    Server = {s1, s2, s3}
    self = s1
    NFaulty = 1
    LenLedger = 2
    MaxSeq = 3
    Races = {}
    None = None
SPECIFICATION Spec
INVARIANTS
    NeverPanics
    TalliesOwnSlot
    HandledIsTallied
    ExecutesDecisions
    NoStandstill
SYMMETRY PeerSymmetry
CHECK_DEADLOCK FALSE
