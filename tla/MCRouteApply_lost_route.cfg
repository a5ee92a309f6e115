\* Two applies for different hostnames in progress together; nothing fails.
CONSTANTS
    r1 = r1
    r2 = r2
    r3 = r3
    r4 = r4
    r5 = r5
    h1 = h1
    h2 = h2
    a1 = a1
    a2 = a2
    Nobody = Nobody
    Requests = {r1, r2}
    Hosts = {h1, h2}
    Addresses = {a1, a2}
    Route <- Rivals
    InitialAnswers <- NoAnswer
    ProviderMutations <- Mutating
    HiddenFaults = FALSE
    MayCrash = FALSE
    MaxInFlight = 2
    MaxFaults = 0
SPECIFICATION SafeSpec
INVARIANTS
    AppliedIsKept
CHECK_DEADLOCK FALSE
