CONSTANTS
    Lengths = {1, 2}
    MaxBytes = 6
    Capacity = 3
    CHUNK = 2
    Slots = {1, 2}
    MaxDeinits = 2
    Timeouts = {2, 15}
    INFINITY = 15
    ReadCapacity = 2
    FirstTick = 0
    MaxTick = 5
    ReadBytes = 4
    MaxStarts = 2
    DmaSize = 3
    DmaArrivals = 6
    DmaRuns = 2
    UsbSize = 5
    Packet = 2
    UsbLengths = {1, 3, 4}
    UsbBytes = 9

SPECIFICATION MCSpec

INVARIANTS
    TypesOK
    ArrivalAnnounced

PROPERTIES
    AllWritesServed
    ReceptionFollows

\* Ticks, and bytes to write and to receive, run out.
CHECK_DEADLOCK FALSE
