CONSTANTS
    Sessions = {s1, s2}
    Requests = {r1, r2}
    Kinds = {"audio"}
    CmdCap = 2
    Unknown = Unknown
SPECIFICATION Spec
INVARIANTS
    SettledAgrees
    RevocationDurable
SYMMETRY Symmetry
CHECK_DEADLOCK FALSE
