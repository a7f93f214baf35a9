SPECIFICATION Spec
CONSTANTS
    kMaxConnections = 2
    Locks = {l1}
    MaxJobs = 1
    NoKey = NoKey
    MaxFrags = 2
    NoMessage = NoMessage
INVARIANT
    AnsweredIsNotTimedOut
