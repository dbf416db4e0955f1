CONSTANTS
    NumThreads = 2
    NumBlocksMax = 3
    BLOCKS_MAX = 4
    NumInput = 4
    ExpectedBlocks = 0
    MaxCalls = 2
    SettledReuse = TRUE
    Faults = {"read", "code", "write", "create"}
SPECIFICATION FairSpec
INVARIANTS
    TypeOK
    TurnsExclusive
    ResourcesExclusive
    CallComplete
PROPERTIES
    ImplementsJob
    CodeReturns
