SPECIFICATION Spec
CONSTANTS
    Sends = {f1, f2}
    Size = 2
    LaneCap = 2
    None = None
INVARIANTS
    SpoolsOwned
    BusyAgrees
    ChunksInStep
PROPERTIES
    SendEnds
CHECK_DEADLOCK FALSE
