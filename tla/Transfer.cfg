SPECIFICATION TransferSpec
CONSTANTS
    NRdSize = 3
    TxPkgMaxSize = 2
    HandshakeTries = 8
    SendTries = 7
    NackCntMax = 8
    Replies <- AllSent
    Refusals <- Nacks
    Faults = {"corrupt", "lost", "late"}
    MaxLate = 1
    MaxStored = 4
INVARIANT TransferTypeOK StoredInOrder SuccessIfAllAnswered
PROPERTY ImplementsBlockTransfer
