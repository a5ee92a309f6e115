\* One apply at a time, r5 with provider mutations off; calls that fail do so
\* without effect, and the container may stop.
CONSTANTS
    r1 = r1
    r2 = r2
    r3 = r3
    r4 = r4
    r5 = r5
    h1 = h1
    h2 = h2
    a1 = a1
    a2 = a2
    Nobody = Nobody
    Requests = {r1, r2, r3, r4, r5}
    Hosts = {h1, h2}
    Addresses = {a1, a2}
    Route <- Edits
    InitialAnswers <- NoOrOneAnswer
    ProviderMutations <- Mutating
    HiddenFaults = FALSE
    MayCrash = TRUE
    MaxInFlight = 1
    MaxFaults = 2
SPECIFICATION SafeSpec
INVARIANTS
    RolledBackRestores
    SavedRouteIsLive
    AppliedIsKept
    RolledBackIsGone
    SettledRouteAuditsHealthy
    InventoryShowsSettledRoutes
PROPERTIES
    SavesTouchOneHost
CHECK_DEADLOCK FALSE
