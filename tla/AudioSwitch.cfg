CONSTANTS
    Sessions = {s1, s2}
    AudioEnabled = TRUE
SPECIFICATION Spec
INVARIANTS
    ListenersExact
    SwitchTracksConjunction
PROPERTY DeviceReleased
CHECK_DEADLOCK FALSE
