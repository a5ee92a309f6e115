\* Two writers and two readers, with a damaged file, a failing write or a restart.
CONSTANTS
    w1 = w1
    w2 = w2
    q1 = q1
    q2 = q2
    Absent = Absent
    Corrupt = Corrupt
    Nobody = Nobody
    Writers = {w1, w2}
    Readers = {q1, q2}
    MaxDamage = 2
    MaxFaults = 2
SPECIFICATION Spec
INVARIANTS
    TypeOK
    ReplacedIsKept
    LoadedWasSaved
PROPERTY EveryCallEnds
CHECK_DEADLOCK FALSE
