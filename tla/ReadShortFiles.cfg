\* Every file shorter than three full blocks, read in every mix of two lengths.
CONSTANTS
    block_pad = 2
    MAX_BLOCKS = 3
    num_data = 3
    Length = {0, 1, 2, 3, 4, 5}
    NextLength = {0, 5}
    READ_SIZES = {2, 3}
    WORD = 16
SPECIFICATION ReadingSpec
INVARIANTS
    EndsOnlyAtEnd
PROPERTY ImplementsStream
CHECK_DEADLOCK FALSE
