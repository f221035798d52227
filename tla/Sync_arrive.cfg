CONSTANTS
    k1 = k1
    k2 = k2
    x = x
    y = y
    f = f
    p = p
    None = None
    Clients = {k1, k2}
    Values = {x, y, f, p}
    Copyable <- TextsAndImages
    EventCap = 2
    MaxInputs = 2
    MaxSessions = 3
    MaxStarts = 1
    Flaky = FALSE
SPECIFICATION Spec
CONSTRAINT CalmSoFar
SYMMETRY Symmetry
CHECK_DEADLOCK FALSE
INVARIANTS
    CalmCopiesArrive
