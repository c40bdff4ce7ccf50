SPECIFICATION FairSpec
CONSTANTS
    Jobs = {1, 2}
    BadJobs = {}
    Unreported = {}
    Window = 2
    MaxDrops = 2
    MaxExpiries = 0
    MaxCrashes = 0
INVARIANTS
    TypeOK
    SettlesOnNewest
PROPERTIES
    JobsFinish
CHECK_DEADLOCK FALSE
