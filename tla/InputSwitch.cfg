\* Enter is not pressed on a full line.
CONSTANTS
    TM_MAX = 2
    SIZE = 3
    Char = {"a"}
    NBYTES = {3}
    Caller = {"a"}
    EnterFull = FALSE
SPECIFICATION FairSpec
PROPERTIES
    EnteredLineIsRead
