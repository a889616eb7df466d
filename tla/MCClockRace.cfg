CONSTANTS
    PendingCapacity = 3
    Backlog = 0
    MaxLeaks = 0
    Ook = TRUE

SPECIFICATION SpiSpec

INVARIANT TransferClocked

CHECK_DEADLOCK FALSE
