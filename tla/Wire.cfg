CONSTANTS
    Peers <- SamplePeers
    Clients <- SampleClients
    MaxSent = 2
SPECIFICATION Spec
INVARIANT ReceivedAsSent
PROPERTY HandlerGetsThrough
CHECK_DEADLOCK FALSE
