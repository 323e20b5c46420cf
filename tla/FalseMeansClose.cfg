SPECIFICATION Spec
CONSTANTS
    PortNames = {com3}
    NoPort = NoPort
    MaxBurns = 1
    MaxPosted = 1
INVARIANT FalseMeansClose
CHECK_DEADLOCK FALSE
