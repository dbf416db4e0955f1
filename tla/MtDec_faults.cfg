CONSTANTS
    NumThreads = 3
    InBufSize = 2
    Inputs <- MCInputs
    Extra = 1
    MaxCalls = 2
    Faults = {"read","write","progress","alloc","create","mem","memST"}
    MaxFaults = 2
SPECIFICATION FairSpec
INVARIANTS
    TypeOK
    TokensUnique
    HandoverClean
PROPERTIES
    ImplementsJob
    CodeReturns
