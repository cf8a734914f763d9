SPECIFICATION Spec
CONSTANTS
    Slots = 3
    Sizes = {1, 2}
    MaxFrames = 4
    None = None
INVARIANTS
    TypeOK
    WholeFrames
PROPERTIES
    LastSeen
    NearlyInOrder
CHECK_DEADLOCK FALSE
