SPECIFICATION Spec
CONSTANTS
    NULL = NULL
    a1 = a1
    a2 = a2
    w1 = w1
    w2 = w2
    c1 = c1
    Name <- Names
    Path <- PathRA
    TmpNames = {"x.~tmp~"}
    InitDirs <- PathRA
    Stable <- PathR
    FileName = "f"
    FsOps = {}
    MaxFsOps = 4
    MaxWd = 8
    MaxWatches = 8
    MaxQueued = 8
    Addr = {a1, a2}
    Walker = {w1, w2}
    Cleaner = {}
    Requests <- RegistryRequests
    MaxRequests = 4
    MaxTicks = 0
    ReadMax = 8
    ThreadsMayFail = TRUE
SYMMETRY RootSymmetry
INVARIANT RootCount
INVARIANT NoOverlap
INVARIANT DumpFresh
CHECK_DEADLOCK FALSE
