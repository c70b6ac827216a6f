SPECIFICATION Spec
CONSTANTS
    Threads = {t1, t2}
    Levels = {"info", "error"}
    Shapes <- WholeLines
    Bad <- FirstCall
    MaxCalls = 3
INVARIANTS KeepsBridging
CHECK_DEADLOCK FALSE
