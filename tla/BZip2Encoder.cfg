CONSTANTS
    NumThreads = 3
    NumInput = 4
    MaxCalls = 2
    Faults = {"create", "memory", "read", "write", "progress"}
SPECIFICATION FairSpec
INVARIANT TurnsOK
PROPERTY ImplementsJob
