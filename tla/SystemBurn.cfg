SPECIFICATION Spec
CONSTANTS
    WordSize = 16
    FLASH_ADDR_LIMITED_SIZE = 8
    Tables <- MCTables
    Entries <- MCEntries
    Images <- MCImages
    MBR_SIZE = 2
    Size <- MCSize
    MaxSize = 2
    MaxFailures = 2
    UsedModes = {"SecureEncryption", "FastBoot", "Compatibility"}
INVARIANT TypeOK OnlyOwnPlaces CompleteUnlessFailed AbortStops MbrAgrees
PROPERTY BurnEnds
