SPECIFICATION FairSpec
CONSTANTS
    c1 = c1
    c2 = c2
    c3 = c3
    NoClip = NoClip
    Conns <- TwoConns
    MaxConns = 2
    InboxCap = 1
    ClipCap = 1
    FileCap = 1
    MaxFrames = 2
    FrameTypes <- ClipsOnly
    Steady <- NoConns
    Slow <- OnlyC1
PROPERTIES DeadConnectionsReaped WriterFollowsReader SlowPeerDelaysNobody
CHECK_DEADLOCK FALSE
