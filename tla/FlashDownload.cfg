SPECIFICATION Spec
CONSTANTS
    MaxLen = 5
    nLoadSize = 2
    MaxTries = 2
INVARIANT TypeOK TrueMeansInPlace OneBlockAtRisk ElevenAttempts
PROPERTY Returns ImplementsFileDownload
