\* Two terminals, each with a shell and a child; the two handlers may interrupt each other.
CONSTANTS
    TM_MAX = 2
    PROGRAMS = 2
    NEST = 1
SPECIFICATION PoliteSpec
INVARIANTS
    NothingHeldBack
PROPERTIES
    ReturnsAfterInterrupt
    ReaderReturns
    KeyHandled
