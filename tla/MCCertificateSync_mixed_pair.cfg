\* Two installations in progress together, no call fails.
CONSTANTS
    s1 = s1
    s2 = s2
    d1 = d1
    d2 = d2
    e1 = e1
    None = None
    Dns01 = Dns01
    Renewal = Renewal
    Sources = {s1}
    Dialogs = {d1, d2}
    Editors = {e1}
    InitialFiles <- UserFileOnly
    MaxVersion = 2
    MaxEdits = 1
    MaxFaults = 0
    MaxInstalls = 2
SPECIFICATION SafeSpec
INVARIANT OnePairInstalled
CHECK_DEADLOCK FALSE
