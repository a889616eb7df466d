CONSTANTS
    Lengths = {1, 2}
    MaxBytes = 4
    Capacity = 3
    CHUNK = 2
    Slots = {1, 2}
    MaxDeinits = 0

SPECIFICATION Spec

PROPERTIES
    DoneMeansSent

\* The bytes to write run out.
CHECK_DEADLOCK FALSE
