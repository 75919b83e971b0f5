SPECIFICATION DumpSpec
CONSTANTS
    r1 = r1
    r2 = r2
    r3 = r3
    d1 = d1
    d2 = d2
    NoPath = NoPath
    Path <- ThreeRoots
    Lasting <- TwoRoots
    Thread = {d1, d2}
    BufLines = 2
    MaxCalls = 5
    MaxDowns = 3
    MaxFsOps = 2
INVARIANT DumpTypeOK
PROPERTY PromiseKept
SYMMETRY DumpSymmetry
CHECK_DEADLOCK FALSE
