\* Three slots and two terminals: a slot is reused while others are suspended.
CONSTANTS
    MAX_PROCESS = 3
    TM_MAX = 2
    PER_TERM = 2
    FD_MAX = 4
    NUM_DIR = 3
    FILE_SIZE = 1
    NBYTES = {1}
    OneListing = TRUE
SPECIFICATION FSpec
INVARIANTS
    FreshDescriptors
    StandardStreams
PROPERTIES
    SuspendedKeepDescriptors
    ListingComplete
