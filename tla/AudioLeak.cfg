SPECIFICATION Spec
CONSTANTS
    Sessions = {s1}
    AudioEnabled = TRUE
INVARIANT NoListenerLeft
CHECK_DEADLOCK FALSE
