CONSTANTS
    Procs = {1, 2}
    Files <- MCFiles
    Environments <- MCEnvironments
    Typed <- MCTyped
    MaxLaunches = 3
SPECIFICATION Spec
INVARIANTS
    TypeOK
    LoadsMatchingPair
    PinHolds
    EnvironmentWins
PROPERTIES
    SavedIsShown
CHECK_DEADLOCK FALSE
