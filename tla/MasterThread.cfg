\* CHECK_DEADLOCK FALSE: a leaked mutex blocks the GUI thread, then nothing moves.
SPECIFICATION Spec
CONSTANTS
    PortNames = {com3, com7}
    NoPort = NoPort
    MaxBurns = 2
    MaxPosted = 1
INVARIANT TypeOK OneAnswer NoRace LeakNeedsCloseOrNoPort RightPort
PROPERTY HangIsPermanent AnsweredOrHung
CHECK_DEADLOCK FALSE
