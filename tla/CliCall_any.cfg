\* Any server, network and deadline; a caller that may ignore finish_status.
SPECIFICATION FairSpec
CONSTANTS
    MaxResponses = 2
    EarlyEnd = TRUE
    MaxCalls = 2
    MaxWrites = 2
    ChecksStart = FALSE
INVARIANTS
    WriteReturnsCompleted
    ParkedWriterIsWoken
    NextGetsItsOwn
    AbortsOnlyAfterEarlyEnd
    StuckOnlyAfterEarlyEnd
    BlindDrainOnlyBeforeFirstWrite
PROPERTY
    ReaderSeesTheEnd
CHECK_DEADLOCK FALSE
