CONSTANTS
    Sessions = {c1, c2, l1}
    Capable = {c1, c2}
SPECIFICATION MovingSpec
INVARIANTS
    ClientsExact
    OverlaysFollow
PROPERTY CursorAgrees
CHECK_DEADLOCK FALSE
