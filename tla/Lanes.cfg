CONSTANTS
    Capacity = 1
    MaxSent <- MCMaxSent
    Garbage = Garbage
SPECIFICATION Spec
INVARIANTS OrderedLanes EndsExplained NothingDropped
PROPERTY ControlArrives
CHECK_DEADLOCK FALSE
