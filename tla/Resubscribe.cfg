SPECIFICATION Spec
CONSTANTS
    LockIds = {a}
    NoLock = NoLock
    MAX_LOCK_COUNT = 2
    HeartBeatEvery = 3
    MaxMessages = 1
    MaxBreaks = 1
    MayRefuse = TRUE
INVARIANT
    ResubscribeSucceeded
