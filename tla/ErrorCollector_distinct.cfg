\* A caller that frees only collectors that share no message.
SPECIFICATION Spec
CONSTANTS
    Collectors = {c1, c2, c3}
    Messages = {m1, m2, m3, m4}
    MaxErrors = 2
    FreesShared = FALSE
SYMMETRY Symmetric
INVARIANTS
    NoFault
    FatalMissedOnlyWhenFull
    LeaksOnlyDropped
CHECK_DEADLOCK FALSE
