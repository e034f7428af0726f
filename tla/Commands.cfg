\* Commands that fit in the buffers, fill and overrun them, of a shell, a child and its child; over a shell, a program and a text file.
CONSTANTS
    BUF = 3
    FNAME = 3
    DENTRY = 3
    PER_TERM = 3
    Letter = {"s", "a"}
    Dir <- DirOfRun
    SHELL <- ShellOfRun
    Command <- CommandOfRun
    OLD = {"a", "nul"}
    NBYTES = {1, 4}
SPECIFICATION Spec
INVARIANTS
    PartsStayApart
PROPERTIES
    
    ArgumentsDelivered
