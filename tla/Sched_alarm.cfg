SPECIFICATION FairSpec
CONSTANTS
    NR_TASKS = 3
    Buffers = {b1}
    Inodes = {}
    Signals <- AlarmOnly
    MaxPriority = 1
    MaxAlarm = 1
PROPERTY AlarmEndsPause
