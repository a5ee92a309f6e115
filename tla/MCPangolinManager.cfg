\* Four applies for two hostnames, two at a time, with hidden effects.
CONSTANTS
    p1 = p1
    p2 = p2
    p3 = p3
    p4 = p4
    o1 = o1
    o2 = o2
    o3 = o3
    t1 = t1
    t2 = t2
    h1 = h1
    h2 = h2
    h3 = h3
    s1 = s1
    s2 = s2
    s3 = s3
    Gone = Gone
    Fresh = Fresh
    Old = Old
    Nobody = Nobody
    Requests = {p1, p2, p3, p4}
    OldResources = {o1, o2, o3}
    OldTargets = {t1, t2}
    Host <- MCHost
    Site <- MCSite
    OldOn <- MCOldOn
    HiddenFaults = TRUE
    MaxInFlight = 2
    MaxFaults = 2
SPECIFICATION Spec
INVARIANTS
    TypeOK
    OthersUntouched
    NothingOrphaned
PROPERTIES
    FailureLeavesEdge
    AppliedPublishes
CHECK_DEADLOCK FALSE
