\* Any server, network and deadline; a caller that heeds the result of start.
SPECIFICATION SessionFairSpec
CONSTANTS
    MaxResponses = 2
    EarlyEnd = TRUE
    MaxCalls = 2
    MaxWrites = 2
    ChecksStart = TRUE
INVARIANTS
    SafeToDestroy
    MetadataOnce
    AllDelivered
    OnlyStuckCallsHang
PROPERTIES
    HonoursCliCall
    KeepsPromise
    CallsReturn
    WorkIsUsedUp
CHECK_DEADLOCK FALSE
