SPECIFICATION Spec
CONSTANTS
    Readers = {r1, r2}
    Writers = {w1, w2}
    NoProc = NoProc
    PAGE_SIZE = 4
    MaxCount = 5
    MaxBytes = 7
    CopyFaults = FALSE
    TIME_REQUESTS = 3
    MaxJiffies = 3
    MaxAdds = 5
    NR_HD = 1
    hd <- Partitions
    SECT = 2
    HEAD = 2
    MAX_ERRORS = 3
    HdBlocks <- PartitionBlocks
    MaxHdReqs = 3
    Drives = {0, 1}
    TrackSectors = 2
    FD_SIZE = 4
    FD_MAX_ERRORS = 2
    TICKS_ON = 2
    TICKS_OFF = 5
    TICKS_BIG = 6
    FdBlocks <- DriveBlocks
    MaxFdReqs = 2
    MaxChanges = 1
    MaxFaults = 3
    video_num_columns = 2
    video_num_lines = 3
    VideoCells = 9
    TabStops = 1
    NPAR = 2
    Code7 = 1
    Code8 = 2
    Digits = {2, 4}
    MaxPar = 4
    MaxMarks = 1
INVARIANTS TypeOK BytesInOrder NothingLost SleepersHaveReason NeverEarly OutcomeIsTrue RightDrive
PROPERTIES AllFire RequestsEnd ShowsAScreen
CHECK_DEADLOCK FALSE
