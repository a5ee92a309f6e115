\* One installation at a time, beside edits, faults and restarts.
CONSTANTS
    s1 = s1
    s2 = s2
    d1 = d1
    d2 = d2
    e1 = e1
    None = None
    Dns01 = Dns01
    Renewal = Renewal
    Sources = {s1}
    Dialogs = {d1, d2}
    Editors = {e1}
    InitialFiles <- FileOrNone
    MaxVersion = 2
    MaxEdits = 2
    MaxFaults = 2
    MaxInstalls = 1
SPECIFICATION Spec
INVARIANTS
    TypeOK
    OnePairInstalled
    InactiveUntilApproved
PROPERTIES
    RenewalAdvances
    RenewsAtLast
CHECK_DEADLOCK FALSE
