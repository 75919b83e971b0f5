SPECIFICATION ZmqFairSpec
CONSTANTS
    k1 = k1
    k2 = k2
    Client = {k1, k2}
    Restored <- RestoredRoots
    Dir <- SomeDirs
    Commands <- PingOnly
    RawMessages <- EmptyMessage
    Awkward = {"q}"}
    DefaultMask = "default"
    NoMask = "none"
    FullMask = "full"
    DefaultMaxEvents = 2
    MaxEvents = 2
    MaxFailures = 0
    MaxTries = 2
PROPERTY NeverDeaf
CHECK_DEADLOCK FALSE
