SPECIFICATION FairSpec
CONSTANTS
    kitchen = kitchen
    bedroom = bedroom
    Rooms = {kitchen, bedroom}
    PathOf <- MCPathOf
    None = None
    Dock = 0
    Full = 8
    Threshold = 3
    HalfDrain = 1
    ChargeRate = 3
    Elapsed <- MCElapsed
    SpeedParams <- MCSpeedParams
    Versions = {"1.0.0", "2.0.0"}
    FactoryVersion = "1.0.0"
    FactorySpeed = 50
    OtaSpeeds = {5, 100}
INVARIANTS
    TypeOK
    OnCourse
PROPERTIES
    NoTeleport
    ImplementsLifecycle
    OnlyIdleLasts
