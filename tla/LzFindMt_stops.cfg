CONSTANTS
    NumInput = 6
    HashBlockSize = 4
    HashNumBlocks = 2
    BtBlockSize = 6
    BtNumBlocks = 2
    NumHashBytes = 2
    MatchMaxLen = 1
    HistorySize = 1
    BlockSize = 28
    DirectInputs = {TRUE,FALSE}
    MaxJobs = 2
    Faults = {"read","bt","create"}
SPECIFICATION Spec
INVARIANTS
    TypeOK
    StopsClean
    InStep
PROPERTY ImplementsFinder
