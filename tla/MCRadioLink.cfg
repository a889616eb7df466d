CONSTANTS
    base = base
    remote = remote
    b1 = b1
    b2 = b2
    b3 = b3
    c1 = c1
    NONE = NONE
    DISCARDED = DISCARDED
    Radios <- MCRadios
    Bodies <- MCBodies
    For <- MCFor
    UnknownOrder <- UnknownSub
    MAX_DEVICES = 2
    IdMod = 8
    PubCapacity = 2
    RxCapacity = 2
    Scenarios <- Everything

SPECIFICATION Spec

INVARIANTS
    TypeOK
    NothingForgotten
    ResentAsPromised
    OutcomeIsTrue
    AcceptedOnceInOrder
    PairedIsMutual

\* A radio with nothing to do and nobody using it waits for ever.
CHECK_DEADLOCK FALSE
