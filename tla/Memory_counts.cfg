SPECIFICATION Spec
CONSTANTS
    NR_FRAMES = 8
    NR_TASKS = 2
    NR_PAGES = 3
    END_DATA = 1
    Exes <- OneProgram
    Writes = {"zero"}
    SleepyWrites = TRUE
INVARIANTS TypeOK  WritableIsPrivate
CHECK_DEADLOCK FALSE
