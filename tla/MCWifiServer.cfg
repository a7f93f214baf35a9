SPECIFICATION FairSpec
CONSTANTS
    Phones = {p1}
    MaxQueued = 1
    PkgLen <- MCPkgLen
    StrayLens = {}
    Peers = {q1, q2, q3}
    NoPeer = NoPeer
    MAX_CLIENT = 2
INVARIANTS
    TypeOK
    OneServer
    AppliedAsWritten
    HeardOut
    TableMatchesCount
    CryptIsKept
PROPERTY
    ButtonComesBack
