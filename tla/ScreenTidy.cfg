\* Keys arrive between the bytes of the output of a program.
SPECIFICATION Spec
CONSTANTS
    TM_MAX = 2
    ROWS = 2
    COLS = 2
    PAGE = 5
    LINE = 2
    Char = {"a"}
    Split = FALSE
    Tidy = TRUE
INVARIANTS
    CursorOnScreen
    LineBeforeCursor
    BlankBehindCursor
