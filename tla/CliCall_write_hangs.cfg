\* The RPC may end before the half-close.
SPECIFICATION FairSpec
CONSTANTS
    MaxResponses = 1
    EarlyEnd = TRUE
    MaxCalls = 1
    MaxWrites = 1
    ChecksStart = TRUE
PROPERTY WriteReturns
CHECK_DEADLOCK FALSE
