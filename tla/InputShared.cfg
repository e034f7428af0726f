\* Enter is not pressed on a full line; it and Alt+Fn are at any other time.
CONSTANTS
    TM_MAX = 2
    SIZE = 2
    Char = {"a"}
    NBYTES = {1}
    Caller = {"a"}
    EnterFull = FALSE
SPECIFICATION FairSpec
INVARIANTS
    EchoIsLine
PROPERTIES
    ReadsWholeLine
    CountedLineIsRead
