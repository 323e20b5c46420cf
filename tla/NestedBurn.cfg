\* A board and a line that do everything right.
SPECIFICATION NestedSpec
CONSTANTS
    NRdSize = 3
    TxPkgMaxSize = 2
    HandshakeTries = 10
    SendTries = 8
    NackCntMax = 10
    Replies <- GoodReplies
INVARIANT SuccessMeansSent
