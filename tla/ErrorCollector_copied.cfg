\* A caller that frees a collector and its copy, as the header asks.
SPECIFICATION Spec
CONSTANTS
    Collectors = {c1, c2, c3}
    Messages = {m1, m2}
    MaxErrors = 2
    FreesShared = TRUE
SYMMETRY Symmetric
INVARIANT NoFault
CHECK_DEADLOCK FALSE
