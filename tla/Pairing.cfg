CONSTANTS
    v1 = v1
    v2 = v2
    here = here
    Viewers = {v1, v2}
    Ips = {here}
    Ip <- MCIp
    MaxAttempts = 2
    MaxPin = 3
    MaxToken = 1
SPECIFICATION Spec
INVARIANTS TypeOK FailuresBounded
PROPERTIES SpentNeverOffered GoodTokenKept
CHECK_DEADLOCK FALSE
