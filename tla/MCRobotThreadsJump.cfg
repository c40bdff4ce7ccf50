SPECIFICATION TSpec
CONSTANTS
    kitchen = kitchen
    Rooms = {kitchen}
    PathOf <- MCFarPath
    None = None
    Dock = 0
    Full = 16
    Threshold = 2
    HalfDrain = 1
    ChargeRate = 7
    Elapsed <- MCElapsed
    SpeedParams = {40}
    OtaSpeeds = {50}
    Versions = {"1.0.0"}
    FactoryVersion = "1.0.0"
    FactorySpeed = 50
PROPERTIES
    NoJump
