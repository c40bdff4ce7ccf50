SPECIFICATION FairSpec
CONSTANTS
    Jobs = {1, 2}
    BadJobs = {2}
    Unreported = {1}
    Window = 1
    MaxDrops = 1
    MaxExpiries = 1
    MaxCrashes = 1
INVARIANTS
    QueueAttended
PROPERTIES
    ImplementsQueue
    QueuedStarts
CHECK_DEADLOCK FALSE
