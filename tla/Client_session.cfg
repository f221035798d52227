SPECIFICATION FairSpec
CONSTANTS
    InboundCap = 1
    OutboundCap = 2
    InboundFilesCap = 1
    OutboundFilesCap = 1
    OneShot = FALSE
    MaxArrivals = 2
    MaxConnections = 2
    EventCap = 1
    ChunksPerFile = 2
    MaxChanges = 2
INVARIANTS TypeOK InboundConserved SavedFilesAppliedOnce OutboundOrdered
PROPERTIES OnlyFilesBlock DroppedHandleStopsTransport
CHECK_DEADLOCK FALSE
