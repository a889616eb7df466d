CONSTANTS
    WORD = 4
    IDs <- MCIDs
    MAX_DEVICES = 4
    MaxChanges = 2
    MaxResets = 2
    MaxBadWrites = 1
    Configs <- MCConfigs
    init_config <- MCInitConfig
    MaxSets = 2
    MaxStarts = 2
    MaxWorn = 1

SPECIFICATION MCSpec

INVARIANTS
    TypesOK
    ResetsHarmless

PROPERTIES
    StoreFollowsList
    ConfigKept

\* The changes, and the starts, run out.
CHECK_DEADLOCK FALSE
