\* One frame or answer lost is enough; no damaged frame, no late answer.
SPECIFICATION TransferSpec
CONSTANTS
    NRdSize = 5
    TxPkgMaxSize = 2
    HandshakeTries = 10
    SendTries = 9
    NackCntMax = 10
    Replies <- AllSent
    Refusals <- Nacks
    Faults = {"lost"}
    MaxLate = 1
    MaxStored = 5
INVARIANT SuccessMeansBurned
