SPECIFICATION FairTSpec
CONSTANTS
    kitchen = kitchen
    Rooms = {kitchen}
    PathOf <- MCNearPath
    None = None
    Dock = 0
    Full = 8
    Threshold = 2
    HalfDrain = 1
    ChargeRate = 3
    Elapsed <- MCElapsed
    SpeedParams = {40}
    OtaSpeeds = {50}
    Versions = {"1.0.0"}
    FactoryVersion = "1.0.0"
    FactorySpeed = 50
INVARIANTS
    TTypeOK
    HomingPossible
PROPERTIES
    ChargesOnlyInDock
    DrivingEnds
    ImplementsShared
