CONSTANTS
    k1 = k1
    k2 = k2
    x = x
    y = y
    f = f
    p = p
    None = None
    Clients = {k1}
    Values = {x, y, f, p}
    Copyable <- Anything
    EventCap = 2
    MaxInputs = 2
    MaxSessions = 2
    MaxStarts = 1
    Flaky = TRUE
SPECIFICATION Spec
CHECK_DEADLOCK FALSE
INVARIANTS
    TypeOK
    NoEcho
    FreshCopiesReported
