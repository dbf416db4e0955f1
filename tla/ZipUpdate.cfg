CONSTANTS
    NumThreads = 3
    BlockCounts = {0, 2}
    BlockSize = 2
    Updates <- MCUpdates
    OutSeqModes = {TRUE, FALSE}
    SizeModulus = 16
    Faults = {"stream","code","cancel","write","create"}
    MaxFaults = 1
SPECIFICATION FairSpec
INVARIANTS
    TypeOK
    BlocksKept
    ArchiveInOrder
    ProgressExact
PROPERTY UpdateReturns
