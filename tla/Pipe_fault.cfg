SPECIFICATION PipeSpec
CONSTANTS
    Readers = {r1}
    Writers = {w1}
    NoProc = NoProc
    PAGE_SIZE = 4
    MaxCount = 5
    MaxBytes = 8
    CopyFaults = TRUE
INVARIANT BytesInOrder
CHECK_DEADLOCK FALSE
