SPECIFICATION FairSpec
CONSTANTS
    kMaxConnections = 2
    Locks = {l1}
    MaxJobs = 2
    NoKey = NoKey
    MaxFrags = 2
    NoMessage = NoMessage
PROPERTY
    SessionEnds
