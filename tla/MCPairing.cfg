SPECIFICATION FairSpec
CONSTANTS
    Sessions = {s1, s2}
    Junk = Junk
    None = None
    PkgLen <- MCPkgLen
    StrayLens = {6, 20, 30}
INVARIANTS
    TypeOK
    SuccessIsShared
    NoncesInStep
PROPERTY
    UndisturbedRunPairs
CHECK_DEADLOCK FALSE
