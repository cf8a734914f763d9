CONSTANTS
    CmdCap = 2
    CtlCap = 2
SPECIFICATION Spec
PROPERTIES
    EndsReaped
    SilentReapedUnlessWedged
CHECK_DEADLOCK FALSE
