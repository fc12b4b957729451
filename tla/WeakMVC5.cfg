CONSTANTS
    Server = {s1, s2, s3, s4, s5}
    NFaulty = 1
    Proposal = {m1, m2}
    LenBlockArray = 2
    Coin <- MCCoin
    Null = Null
    None = None
SYMMETRY Symmetry
SPECIFICATION Spec
INVARIANTS
    Agreement
    NullOnlyWhenContended
    IndInv
PROPERTY ImplementsSlotDecision
CHECK_DEADLOCK FALSE
