CONSTANTS
    Threads = {t1, t2, t3}
    MaxCount = 2
SPECIFICATION SyncSpec
INVARIANTS
    SyncTypeOK
    NoLostWakeup
PROPERTY ImplementsObject
