CONSTANTS
    NumCoders = 3
    BindInfos <- MCBindInfos
    StreamLen = 1
    MaxWrite = 1
    MaxRead = 1
    MaxCalls = 2
    Faults <- MCFaults
SPECIFICATION FairSpec
INVARIANTS
    TypeOK
    CauseReported
PROPERTIES
    PipesKeepRules
    CallsReturn
