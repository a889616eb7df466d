CONSTANTS
    NULL = NULL
    Tasks = {a}
    MAX_TASKS = 3
    TICK_INFINITY = 7
    INTERVAL_MS = 1
    Delays = {0, 1, 7}
    TickBound = 2
    MaxCalls = 2
    MaxLocks = 1

SPECIFICATION FairSpec

INVARIANTS
    RegisteredSlotsScanned
    PassServesDueTasks
    IrqWakeKept

PROPERTIES
    NoneStarves
