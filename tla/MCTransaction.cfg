CONSTANTS
    N = 4
    Unclean <- MCUnclean
SPECIFICATION Spec
INVARIANTS
    TypeOK
    AppliedIsComplete
    RolledBackIsClean
    EveryCompletedCompensated
PROPERTIES
    ReverseOrder
    Returns
    ImplementsAtomicTransaction
CHECK_DEADLOCK FALSE
