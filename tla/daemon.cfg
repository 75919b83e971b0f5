SPECIFICATION DaemonSpec
CONSTANTS
    p1 = p1
    p2 = p2
    p3 = p3
    u1 = u1
    u2 = u2
    DefaultUri = u1
    DefaultLog = "log"
    DefaultMaxEvents = 9
    DefaultFreq = 6
    Unopenable = {"nodir"}
    Missing = missing
    Broken = broken
    Nobody = nobody
    Foreign = foreign
    Pid = {p1, p2, p3}
    Modes = {"daemon"}
    Texts <- OneFile
    TakenUris = {}
    Overlap = FALSE
    MaxSignals = 2
    MaxEdits = 0
    MaxCrashes = 2
INVARIANT PidNamesDaemon
INVARIANT BindsAlone
CHECK_DEADLOCK FALSE
