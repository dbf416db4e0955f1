CONSTANTS
    CacheBlockSize = 2
    CacheBlocks = 2
    MaxSize = 6
    MaxClientWrite = 2
    Seekable = {TRUE, FALSE}
    MayFail = TRUE
SPECIFICATION CacheSpec
INVARIANT FileIntact
PROPERTY FinalStays
