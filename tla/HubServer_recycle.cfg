SPECIFICATION Spec
CONSTANTS
    c1 = c1
    c2 = c2
    c3 = c3
    NoClip = NoClip
    Conns <- ThreeConns
    MaxConns = 2
    InboxCap = 2
    ClipCap = 1
    FileCap = 1
    MaxFrames = 1
    FrameTypes <- ClipsAndFiles
    Steady <- NoConns
    Slow <- NoConns
SYMMETRY ConnSymmetry
INVARIANTS TypeOK HubNeverRefuses LiveCount
CHECK_DEADLOCK FALSE
