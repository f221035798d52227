SPECIFICATION Spec
CONSTANTS
    Configs <- MCConfigs
    NoConfig = NoConfig
    NoStatus = NoStatus
    Foreign = FALSE
    FirstRun = FALSE
    MaxActs = 2
    MaxNet = 2
    MaxEvents = 2
    MaxPeers = 1
INVARIANTS
    TypeOK
    NoOrphans
    StatusIsCurrent
    MenuShowsState
CHECK_DEADLOCK FALSE
PROPERTIES
    SavedIsApplied
    StatusConverges
    CountReachesMenu
