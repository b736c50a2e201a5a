SPECIFICATION Spec
CONSTANTS
    NR_FRAMES = 8
    NR_TASKS = 3
    NR_PAGES = 2
    END_DATA = 0
    Exes <- NoPrograms
    Writes = {"zero", "written"}
    SleepyWrites = TRUE
PROPERTY PrivateSpec
CHECK_DEADLOCK FALSE
