\* A machine is back before the server has seen its old connection end.
CONSTANTS
    m1 = m1
    m2 = m2
    root = root
    d1 = d1
    o1 = o1
    Machine <- MCMachine
    Nobody = Nobody
    Placeholder = Placeholder
    Depart <- MCDepart
    Uncatalogued = root
    Operator <- MCNoOperator
    MaxConns = 3
    MaxRows = 2
    MaxRestarts = 0
    LateDetection = TRUE
    DbErrors = FALSE
SPECIFICATION Spec
INVARIANT LiveAgentReachable
SYMMETRY MachineSymmetry
CHECK_DEADLOCK FALSE
