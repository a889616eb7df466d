CONSTANTS
    Bytes = {0, 1}
    size = 4
    COUNT = 4
    NullResults = {TRUE, FALSE}
    Listeners = {0}
    MessageBytes = {0, 1}
    MaxLength = 3
    Room = 8
    PREFIX = 2
    ScanInterval = 1
    DebounceTime = 2
    ClickTimeout = 3
    HoldTime = 4
    WIDTH = 8
    BlinkCounts = {1, 2}
    MaxPeriods = 3
    strip_count = 3
    WHEEL = 4
    HALF = 2
    LENGTH = 2
    MaxCalls = 2

SPECIFICATION MCSpec

INVARIANTS
    TypesOK

PROPERTIES
    ShowsWhatWasAsked
    ImplementsQueue
    ImplementsMessages
    ConverterShared
    PressesTold
    MeasurementsServed

\* The periods of a LED and the calls to a strip are bounded.
CHECK_DEADLOCK FALSE
