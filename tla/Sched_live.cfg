SPECIFICATION FairSpec
CONSTANTS
    NR_TASKS = 3
    Buffers = {b1}
    Inodes = {i1}
    Signals <- NoSignals
    MaxPriority = 2
    MaxAlarm = 0
PROPERTIES RunnableRuns SleeperIsWoken
