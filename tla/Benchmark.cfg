CONSTANTS
    s1 = s1
    s2 = s2
    c1 = c1
    Server = {s1, s2}
    Clients <- OneClient
    ProxyOf <- OneAtS1
    MaxRequests = 1
    MaxSignals = 2
SPECIFICATION FairSpec
INVARIANTS
    Barriers
    NeverSendsOnNil
PROPERTIES
    ServersExit
    OrderlyExit
CHECK_DEADLOCK FALSE
