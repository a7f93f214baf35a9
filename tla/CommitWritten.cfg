SPECIFICATION Spec
CONSTANTS
    Sessions = {s1, s2}
    Junk = Junk
    None = None
    PkgLen <- MCPkgLen
    StrayLens = {6, 30}
INVARIANT
    CommitWasWritten
CHECK_DEADLOCK FALSE
