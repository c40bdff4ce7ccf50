SPECIFICATION FairSpec
CONSTANTS
    None = None
    Window = 2
    MaxCommands = 3
    MaxDrops = 1
    MaxExpiries = 1
    MaxCrashes = 1
INVARIANTS
    TypeOK
    SettlesOnLast
PROPERTIES
    CommandsArrive
    StopWorks
    HeardAgain
