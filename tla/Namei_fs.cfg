SPECIFICATION Spec
CONSTANTS
    Calls = {"mkdir","rmdir","unlink","mknod"}
    Procs = {p1, p2}
    NoProc = NoProc
    Slots = {s1, s2, s3, s4, s5}
    NoSlot = NoSlot
    NINODES = 4
    NZONES = 9
    DIRECT = 1
    PER_BLOCK = 3
    NoName = NoName
    name1 = name1
    name2 = name2
    Paths <- TwoLevels
    OpenFlags <- Flags
    Specials = {"blk"}
    WriteBlocks = {4}
    Dot = Dot
    DotDot = DotDot
    MaxCalls = 3
    MaxWornCalls = 2
SYMMETRY Symmetry
INVARIANTS OneInodePerNumber UnusedIsClean LinksMatch ZonesAccounted CountsMatch KnownPanics
