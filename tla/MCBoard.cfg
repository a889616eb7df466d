CONSTANTS
    PendingCapacity = 3
    Backlog = 1
    MaxLeaks = 1
    Ook = FALSE
    COUNTS = 8
    MaxPulses = 5
    MaxRequests = 2
    MaxFaults = 3
    LastYear = 40
    Samples <- MCSamples
    number_of_samples = 3
    min_number_of_samples = 1
    MaxFeeds = 8
    MaxEdges = 6
    Careful = TRUE
    Bits = 5
    FAMILY = 2
    MaxDevices = 3
    MaxUnplugged = 1
    sensor_count = 2
    MaxRescans = 2
    MAX_BUFFER_SIZE = 56
    ID_SIZE = 6

SPECIFICATION MCSpec

INVARIANTS
    TypesOK
    TransfersUndisturbed
    PulsesTold
    ConversionsAgree
    RelayAgrees
    SearchFinds

PROPERTIES
    TransferCompletes
    RequestsServed
    StreamIsWindow
    StepsReachApplication
    AlarmKept

\* A reset stops the SPI, edges run out, and the years end.
CHECK_DEADLOCK FALSE
