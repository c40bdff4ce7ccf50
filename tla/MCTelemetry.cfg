SPECIFICATION FairSpec
CONSTANTS
    None = None
    Workers = {w1, w2}
    MaxState = 1
    MaxSecond = 1
    MaxRepeats = 1
    MaxFailures = 1
INVARIANTS
    TypeOK
    HistoryKept
PROPERTIES
    TableCatchesUp
