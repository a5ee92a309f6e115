\* A budget of two in two ticks, four requests.
CONSTANTS
    q1 = q1
    q2 = q2
    q3 = q3
    q4 = q4
    c1 = c1
    c2 = c2
    n1 = n1
    n2 = n2
    Nobody = Nobody
    Requests = {q1, q2, q3, q4}
    Clients = {c1, c2}
    Names = {n1, n2}
    Allowed = {n1}
    Ask <- SomeAsks
    Limit = 2
    Window = 2
    MaxClock = 3
SPECIFICATION Spec
SYMMETRY Alike
INVARIANTS
    TypeOK
    WindowBudget
    RefusedForAReason
CHECK_DEADLOCK FALSE
