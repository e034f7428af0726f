CONSTANTS
    COLS = 18
    ROWS = 13
    WORD = 16
    HEX = 2
    DEC = 4
    DIGITS = 4
    Boots <- AnyBoots
SPECIFICATION BSpec
INVARIANTS
    LinesShown
PROPERTIES
    CallsReturn
