SPECIFICATION Spec
CONSTANTS
    NULL = NULL
    a1 = a1
    a2 = a2
    w1 = w1
    w2 = w2
    c1 = c1
    Name <- Names
    Path <- PathFork
    TmpNames = {"x.~tmp~"}
    InitDirs <- PathRA
    Stable <- PathR
    FileName = "f"
    FsOps = {"mkdir", "rename"}
    MaxFsOps = 2
    MaxWd = 8
    MaxWatches = 8
    MaxQueued = 8
    Addr = {a1}
    Walker = {w1, w2}
    Cleaner = {c1}
    Requests <- DestroyRequests
    MaxRequests = 2
    MaxTicks = 1
    ReadMax = 8
    ThreadsMayFail = FALSE
INVARIANT EventRootLive
INVARIANT MapsAgree
INVARIANT DescriptorsKnown
PROPERTY DestroyLeavesNoEntry
SYMMETRY WalkerSymmetry
CHECK_DEADLOCK FALSE
