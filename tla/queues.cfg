SPECIFICATION Spec
CONSTANTS
    NULL = NULL
    a1 = a1
    a2 = a2
    w1 = w1
    w2 = w2
    c1 = c1
    Name <- Names
    Path <- PathRA
    TmpNames = {"x.~tmp~"}
    InitDirs <- PathR
    Stable <- PathR
    FileName = "f"
    FsOps = {"mkdir", "rmdir", "write"}
    MaxFsOps = 3
    MaxWd = 8
    MaxWatches = 8
    MaxQueued = 8
    Addr = {a1}
    Walker = {w1}
    Cleaner = {}
    Requests <- QueueRequests
    MaxRequests = 4
    MaxTicks = 0
    ReadMax = 8
    ThreadsMayFail = FALSE
INVARIANT PausedQueueEmpty
PROPERTY QueuesImplemented
CHECK_DEADLOCK FALSE
