SPECIFICATION Spec
SYMMETRY LockSymmetry
CONSTANTS
    kMaxConnections = 2
    l1 = l1
    l2 = l2
    Locks <- MCLocks
    MaxJobs = 3
    NoKey = NoKey
    MaxFrags = 2
    NoMessage = NoMessage
INVARIANTS
    TypeOK
    SlotDiscipline
    BufferFits
    EveryFragmentHasAHandler
    NonceAgreement
    FailureHasCause
    NoCallbackOutlivesTask
    PublishedWasHandled
PROPERTY
    ImplementsCommandService
