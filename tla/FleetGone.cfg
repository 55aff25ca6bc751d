\* No operator changes anything and every statement succeeds.
CONSTANTS
    m1 = m1
    m2 = m2
    root = root
    d1 = d1
    o1 = o1
    Machine <- MCMachine
    Nobody = Nobody
    Placeholder = Placeholder
    Depart <- MCDepart
    Uncatalogued = root
    Operator <- MCNoOperator
    MaxConns = 3
    MaxRows = 2
    MaxRestarts = 0
    LateDetection = FALSE
    DbErrors = FALSE
SPECIFICATION Spec
INVARIANT GoneIsOffline
SYMMETRY MachineSymmetry
CHECK_DEADLOCK FALSE
