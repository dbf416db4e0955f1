CONSTANTS
    NumThreads = 2
    InBufSize = 2
    Inputs <- MCInputs
    Extra = 0
    MaxCalls = 1
    Faults = {"write"}
    MaxFaults = 1
SPECIFICATION Spec
INVARIANT WriteErrorReported
