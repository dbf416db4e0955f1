CONSTANTS
    StreamLen = 6
    MaxWrite = 3
    MaxRead = 4
SPECIFICATION FairSpec
INVARIANTS
    TypeOK
    LentBufferStable
    ReadsInOrder
    TruthfulEnds
    PostsFit
PROPERTIES
    ImplementsPipe
    CallsReturn
