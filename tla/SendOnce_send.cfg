SPECIFICATION FairSpec
CONSTANTS
    InboundCap = 1
    OutboundCap = 1
    InboundFilesCap = 1
    OutboundFilesCap = 2
    OneShot = TRUE
    MaxArrivals = 2
    MaxConnections = 1
    Chunks = 3
PROPERTY SendReturns
CHECK_DEADLOCK FALSE
