SPECIFICATION Spec
CONSTANTS
    NULL = NULL
    a1 = a1
    a2 = a2
    w1 = w1
    w2 = w2
    c1 = c1
    Name <- Names
    Path <- PathTmp
    TmpNames = {"x.~tmp~"}
    InitDirs <- PathR
    Stable <- PathR
    FileName = "f"
    FsOps = {"mkdir", "rmdir"}
    MaxFsOps = 6
    MaxWd = 14
    MaxWatches = 8
    MaxQueued = 8
    Addr = {a1}
    Walker = {w1, w2}
    Cleaner = {}
    Requests <- CoverRequests
    MaxRequests = 1
    MaxTicks = 0
    ReadMax = 3
    ThreadsMayFail = FALSE
SYMMETRY WalkerSymmetry
INVARIANT TypeOK
INVARIANT QuietCovered
CHECK_DEADLOCK FALSE
