SPECIFICATION RetrySpec
CONSTANTS
    Ids = {s1, s2}
    Requests = {r1, r2}
    None = None
    MaxInFlight = 1
INVARIANTS
    TypeOK
    StoresAgree
PROPERTIES
    DeletedStaysQuiet
    DeletionCompletes
CHECK_DEADLOCK FALSE
