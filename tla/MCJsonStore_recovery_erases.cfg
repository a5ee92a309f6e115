\* A save while a reader recovers the damaged file.
CONSTANTS
    w1 = w1
    w2 = w2
    q1 = q1
    q2 = q2
    Absent = Absent
    Corrupt = Corrupt
    Nobody = Nobody
    Writers = {w1, w2}
    Readers = {q1}
    MaxDamage = 1
    MaxFaults = 0
SPECIFICATION SafeSpec
INVARIANT NothingIsErased
CHECK_DEADLOCK FALSE
