\* Three applies, two in progress together, with faults, hidden effects and
\* crashes: what they save, their executors, their answers.
CONSTANTS
    r1 = r1
    r2 = r2
    r3 = r3
    r4 = r4
    r5 = r5
    h1 = h1
    h2 = h2
    a1 = a1
    a2 = a2
    Nobody = Nobody
    Requests = {r1, r2, r3}
    Hosts = {h1, h2}
    Addresses = {a1, a2}
    Route <- RivalTrio
    InitialAnswers <- NoAnswer
    ProviderMutations <- Mutating
    HiddenFaults = TRUE
    MayCrash = TRUE
    MaxInFlight = 2
    MaxFaults = 2
SPECIFICATION Spec
INVARIANTS
    TypeOK
    SavedOnlyAfterApplied
PROPERTIES
    EveryRequestAnswered
    RunsTransactions
CHECK_DEADLOCK FALSE
