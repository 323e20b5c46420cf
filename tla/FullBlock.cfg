\* The code's own numbers, in units of 32 KiB: a block of 1.5 MB.
SPECIFICATION Spec
CONSTANTS
    NRdSize = 48
    TxPkgMaxSize = 1
    HandshakeTries = 500
    SendTries = 50
    NackCntMax = 200
    Replies <- GoodReplies
INVARIANT GivesUpOnlyAfter400Tries
