SPECIFICATION Spec
CONSTANTS
    NR_TASKS = 4
    Buffers = {b1}
    Inodes = {i1}
    Signals <- NoSignals
    MaxPriority = 1
    MaxAlarm = 0
INVARIANTS TypeOK WakesOnlySleepers NoLostSleeper NoLostWakeup InodeLockHasOneOwner
PROPERTY CPUSpec
