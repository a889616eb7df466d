CONSTANTS
    ITEMS = 2
    MaxCalls = 2
    MaxFaults = 1

SPECIFICATION FairSpec

INVARIANTS
    TypeOK
    ToldIsTrue

PROPERTIES
    EverythingAnswered

\* Requests and faults run out.
CHECK_DEADLOCK FALSE
