CONSTANTS
    NumInput = 34
    HashBlockSize = 3
    HashNumBlocks = 2
    BtBlockSize = 5
    BtNumBlocks = 2
    NumHashBytes = 2
    MatchMaxLen = 1
    HistorySize = 1
    BlockSize = 23
    DirectInputs = {FALSE}
    MaxJobs = 1
    Faults = {"read", "create"}
SPECIFICATION FairSpec
INVARIANT WindowValid
PROPERTY CallsReturn
