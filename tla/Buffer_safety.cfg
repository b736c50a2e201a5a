SPECIFICATION Spec
CONSTANTS
    Procs = {p1, p2}
    Blocks = {n1, n2, n3}
    Values = {v1, v2}
    NoProc = NoProc
    NoBlock = NoBlock
    NR_BUFFERS = 2
    NR_REQUEST = 2
    MaxOps = 3
    IOErrors = FALSE
    CopyFaults = FALSE
INVARIANTS TypeOK OneBufferPerBlock HoldersKeepTheirBlock LockHasOneOwner NothingIsLost
SYMMETRY Symmetry
