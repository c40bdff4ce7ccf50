SPECIFICATION FairSpec
CONSTANTS
    Jobs = {j1}
    Robots = {robot1}
    Requests = {r1, r2}
    None = None
INVARIANTS
    TypeOK
    RecordedOutcomeIsTrue
    StoresAgree
PROPERTIES
    RecordsConverge
CHECK_DEADLOCK FALSE
