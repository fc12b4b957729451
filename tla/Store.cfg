CONSTANTS
    s1 = s1
    s2 = s2
    c1 = c1
    c2 = c2
    c3 = c3
    k1 = k1
    Server = {s1, s2}
    Client = {c1, c2, c3}
    ProxyOf <- SharedProxy
    Requests <- OneKey
    Key = {k1}
    Value = {"v0", "v1", "v2", "v3", "v4"}
    Missing = Missing
    ProxyBatchSize = 2
    StorageModes = {0, 2}
    MaxNull = 1
    Null = Null
SPECIFICATION FairSpec
INVARIANTS
    BatchesKeepRequests
    NoStaleRead
PROPERTIES
    ImplementsKVService
    AllAnswered
CHECK_DEADLOCK FALSE
