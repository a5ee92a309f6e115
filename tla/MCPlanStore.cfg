\* Three requests compete for two plans; the server may restart once.
CONSTANTS
    p1 = p1
    p2 = p2
    q1 = q1
    q2 = q2
    q3 = q3
    None = None
    Plans = {p1, p2}
    Requests = {q1, q2, q3}
    Lifetime = 1
    MaxClock = 3
    MaxLives = 2
SPECIFICATION Spec
INVARIANTS
    TypeOK
    SingleUse
    WrongTokenIsFinal
    RefusedForAReason
PROPERTIES
    ApprovalsAreFresh
CHECK_DEADLOCK FALSE
