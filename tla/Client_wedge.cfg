SPECIFICATION FairSpec
CONSTANTS
    InboundCap = 1
    OutboundCap = 1
    InboundFilesCap = 1
    OutboundFilesCap = 1
    OneShot = FALSE
    MaxArrivals = 2
    MaxConnections = 1
    EventCap = 1
    ChunksPerFile = 2
    MaxChanges = 2
PROPERTY ClipsApplied
CHECK_DEADLOCK FALSE
