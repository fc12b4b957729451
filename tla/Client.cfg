CONSTANTS
    ClientBatchSize = 2
    window = 1
    Margin = 1
    MaxArrivals = 12
SPECIFICATION FairSpec
INVARIANTS
    WindowBound
    SentIsLogged
PROPERTIES
    CountersMeet
CHECK_DEADLOCK FALSE
