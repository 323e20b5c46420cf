SPECIFICATION Spec
CONSTANTS
    NRdSize = 5
    TxPkgMaxSize = 2
    HandshakeTries = 10
    SendTries = 9
    NackCntMax = 10
    Replies <- AllReplies
INVARIANT TypeOK BytesConserved NackLimitUnreachable SuccessNeedsRounds
PROPERTY FrameOrder ExecAfterBlockSent ReturnsUnlessRestartedForever AbortReturns
