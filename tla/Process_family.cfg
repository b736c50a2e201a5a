SPECIFICATION Spec
CONSTANTS
    NR_TASKS = 4
    MaxPid = 4
    Signals <- OnlyHangup
    Groups = {2}
    InitKillable = FALSE
INVARIANTS TypeOK PidsUnique FatherIsThere NoMissedChild
