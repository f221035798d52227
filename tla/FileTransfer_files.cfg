CONSTANTS
    t1 = t1
    t2 = t2
    a = a
    b = b
    c = c
    d = d
    None = None
    Zero = Zero
    Transfers = {t1, t2}
    Cells = {a, b, c, d}
    ChunkCells = 2
    Versions <- Edits
    MaxEdits = 1
    MaxSaved = 2
    ShortReads = TRUE
    Flaky = TRUE
SPECIFICATION Spec
SYMMETRY Symmetry
CHECK_DEADLOCK FALSE
INVARIANTS
    TypeOK
    SavedIntact
    OnlyTornRefuted
    OpenIsIncomplete
PROPERTIES
    SavedFilesKept
