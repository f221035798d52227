SPECIFICATION Spec
CONSTANTS
    c1 = c1
    c2 = c2
    c3 = c3
    NoClip = NoClip
    Conns <- ThreeConns
    MaxConns = 3
    InboxCap = 2
    ClipCap = 2
    FileCap = 1
    MaxFrames = 3
    FrameTypes <- ClipsOnly
    Steady <- TwoSteady
    Slow <- NoConns
SYMMETRY SteadySymmetry
INVARIANTS StreamInOrder PeersConverge
PROPERTIES ImplementsClipRelay NothingAfterError
CHECK_DEADLOCK FALSE
