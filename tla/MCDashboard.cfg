SPECIFICATION FairSpec
CONSTANTS
    Robots = {robot1}
    Dashboards = {d1}
    Conns = {c1, c2}
    None = None
    BatchSize = 2
    MaxVersion = 2
    MaxFailures = 1
INVARIANTS
    TypeOK
    WellInformed
PROPERTIES
    ListensAgain
    QuietIsSent
    ImplementsFeed
