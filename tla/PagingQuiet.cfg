CONSTANTS
    MAX_PROCESS = 4
    TM_MAX = 3
    PER_TERM = 2
    SwitchInWindow = FALSE
    DEPTH = 4
SPECIFICATION PSpec
INVARIANTS
    PagingTypeOK
    ParentFrameLive
    HiddenFrameLive
    OwnImage
    NoLateFault
PROPERTIES
    ImplementsProcesses
