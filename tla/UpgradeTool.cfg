SPECIFICATION Spec
CONSTANTS
    FF_PAGE_ALIGN_SIZE = 16
    Garbage = {0, 255}
    BinFiles <- MCBinFiles
    SysParts <- MCSysParts
    MaxCreates = 2
INVARIANT TypeOK OkMeansBurned RightBar
PROPERTY ImageChecksOut AbortObeyed StartComesBack
