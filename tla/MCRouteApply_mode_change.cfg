\* One apply at a time; nothing fails.
CONSTANTS
    r1 = r1
    r2 = r2
    r3 = r3
    r4 = r4
    r5 = r5
    h1 = h1
    h2 = h2
    a1 = a1
    a2 = a2
    Nobody = Nobody
    Requests = {r1, r2, r3, r4}
    Hosts = {h1, h2}
    Addresses = {a1, a2}
    Route <- Edits
    InitialAnswers <- NoAnswer
    ProviderMutations <- Mutating
    HiddenFaults = FALSE
    MayCrash = FALSE
    MaxInFlight = 1
    MaxFaults = 0
SPECIFICATION SafeSpec
INVARIANTS
    CaddyFollowsDesired
CHECK_DEADLOCK FALSE
