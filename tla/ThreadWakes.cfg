\* No Close, no missing port name: a wake-up that comes before the wait is lost.
SPECIFICATION Spec
CONSTANTS
    PortNames = {com3}
    NoPort = NoPort
    MaxBurns = 1
    MaxPosted = 1
PROPERTY ThreadWakes
CHECK_DEADLOCK FALSE
