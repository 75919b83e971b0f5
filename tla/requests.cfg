SPECIFICATION ZmqFairSpec
CONSTANTS
    k1 = k1
    k2 = k2
    Client = {k1, k2}
    Restored <- RestoredRoots
    Dir <- SomeDirs
    Commands <- AllCommands
    RawMessages <- SomeMessages
    Awkward = {"q}"}
    DefaultMask = "default"
    NoMask = "none"
    FullMask = "full"
    DefaultMaxEvents = 2
    MaxEvents = 2
    MaxFailures = 1
    MaxTries = 2
INVARIANT ZmqTypeOK
INVARIANT RootsNormal
PROPERTY ReadyForNext
PROPERTY TakesAsAsked
PROPERTY CommandEnds
PROPERTY PingEnds
CHECK_DEADLOCK FALSE
