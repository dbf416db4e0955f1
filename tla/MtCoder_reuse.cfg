CONSTANTS
    NumThreads = 2
    NumBlocksMax = 3
    BLOCKS_MAX = 4
    NumInput = 2
    ExpectedBlocks = 0
    MaxCalls = 2
    SettledReuse = FALSE
    Faults = {}
SPECIFICATION Spec
INVARIANT OkMeansAllWritten
