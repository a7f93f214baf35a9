SPECIFICATION FairSpec
CONSTANTS
    LockIds = {a, b}
    NoLock = NoLock
    MAX_LOCK_COUNT = 2
    HeartBeatEvery = 3
    MaxMessages = 3
    MaxBreaks = 2
    MayRefuse = TRUE
INVARIANTS
    TypeOK
    TableFollowsUpdate
    JobsOnlyForGrantedLocks
    ListeningWhenConnected
PROPERTY
    Heals
