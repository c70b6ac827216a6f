SPECIFICATION Spec
CONSTANTS
    Threads = {t1, t2}
    Levels = {"info", "error"}
    Shapes <- SplitShapes
    Bad <- AnyCall
    MaxCalls = 3
INVARIANTS TypeOK NothingLostOrRepeated LinesAsLogged DisabledIsSilent
PROPERTIES CallsReturn
CHECK_DEADLOCK FALSE
