\* Any server and network, any arguments and choices of the user.
SPECIFICATION CommandFairSpec
CONSTANTS
    MaxResponses = 1
    EarlyEnd = TRUE
    MaxCalls = 1
    MaxWrites = 2
    ChecksStart = TRUE
    MaxFiles = 2
INVARIANTS
    UnaryGetsOneMessage
    ReturnsClean
    EmptyCallIsKnown
PROPERTY CommandEnds
CHECK_DEADLOCK FALSE
