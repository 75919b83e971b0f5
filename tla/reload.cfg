SPECIFICATION DaemonFairSpec
CONSTANTS
    p1 = p1
    p2 = p2
    p3 = p3
    u1 = u1
    u2 = u2
    DefaultUri = u1
    DefaultLog = "log"
    DefaultMaxEvents = 9
    DefaultFreq = 6
    Unopenable = {"nodir"}
    Missing = missing
    Broken = broken
    Nobody = nobody
    Foreign = foreign
    Pid = {p1}
    Modes = {"daemon", "foreground"}
    Texts <- AllTexts
    TakenUris = {u2}
    Overlap = FALSE
    MaxSignals = 2
    MaxEdits = 2
    MaxCrashes = 1
INVARIANT DaemonTypeOK
INVARIANT DumpShowsConfig
PROPERTY NeverHangs
PROPERTY ReloadFollows
CHECK_DEADLOCK FALSE
