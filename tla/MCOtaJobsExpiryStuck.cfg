SPECIFICATION FairSpec
CONSTANTS
    Jobs = {1, 2}
    BadJobs = {}
    Unreported = {}
    Window = 2
    MaxDrops = 1
    MaxExpiries = 1
    MaxCrashes = 0
PROPERTIES
    JobsFinish
CHECK_DEADLOCK FALSE
