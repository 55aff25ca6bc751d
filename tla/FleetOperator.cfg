\* Two machines whose ends are seen before they dial again, with an operator
\* and failing statements.
CONSTANTS
    m1 = m1
    m2 = m2
    root = root
    d1 = d1
    o1 = o1
    Machine <- MCMachine
    Nobody = Nobody
    Placeholder = Placeholder
    Depart <- MCDepart
    Uncatalogued = root
    Operator <- MCOperator
    MaxConns = 3
    MaxRows = 2
    MaxRestarts = 1
    LateDetection = FALSE
    DbErrors = TRUE
SPECIFICATION Spec
INVARIANT RegisteredNotOffline
SYMMETRY MachineSymmetry
CHECK_DEADLOCK FALSE
