CONSTANTS
    MAX_PROCESS = 4
    TM_MAX = 2
    PER_TERM = 2
    SwitchInWindow = FALSE
    DEPTH = 4
SPECIFICATION KSpec
INVARIANTS
    HaltFrameLive
