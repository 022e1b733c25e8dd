\* The RPC may end before the half-close.
SPECIFICATION FairSpec
CONSTANTS
    MaxResponses = 1
    EarlyEnd = TRUE
    MaxCalls = 1
    MaxWrites = 1
    ChecksStart = TRUE
INVARIANT DrainedIsNoWrite
CHECK_DEADLOCK FALSE
