SPECIFICATION FairSpec
CONSTANTS
    None = None
    MaxMounts = 2
    MaxVersion = 1
    MaxFailures = 1
    MaxWire = 1
INVARIANTS
    TypeOK
PROPERTIES
    ListIsShown
    DetailIsShown
