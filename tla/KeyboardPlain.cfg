CONSTANTS
    TM_MAX = 2
    FIFO = 2
    HELD = 3
    BothShifts = FALSE
    CapsHeld = FALSE
    CapsPunctuation = FALSE
    Lossy = FALSE
SPECIFICATION FairSpec
INVARIANTS
    TypeOK
    MeansAsPressed
    FlagsFollowKeys
PROPERTIES
    ControlEnds
