CONSTANTS
    Sessions = {s1, s2}
    Codes <- MCCodes
    Chars <- MCChars
    HostChar <- MCHostChar
    Upper <- MCUpper
    Ids = {t1, t2}
    MaxContacts = 2
    BatchCap = 2
    MaxEvents = 3
    None = None
SPECIFICATION Spec
INVARIANTS TypeOK ContactsTracked KeysMirror
PROPERTY LeaverLifted
CHECK_DEADLOCK FALSE
