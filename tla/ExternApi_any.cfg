\* Any client of the C interface, server and network.
SPECIFICATION ExternSpec
CONSTANTS
    MaxResponses = 2
    EarlyEnd = TRUE
    MaxCalls = 2
    MaxWrites = 1
    ChecksStart = TRUE
    MetaEntries = 2
INVARIANTS
    RulesSuffice
    ClientHasAll
PROPERTIES
    NoLateCallback
    ReplyParks
CHECK_DEADLOCK FALSE
