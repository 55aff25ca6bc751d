\* The server sees the end of a connection before the agent dials again.
CONSTANTS
    m1 = m1
    m2 = m2
    root = root
    d1 = d1
    o1 = o1
    Machine <- MCMachine
    Nobody = Nobody
    Placeholder = Placeholder
    Depart <- MCDepart
    Uncatalogued = root
    Operator <- MCNoOperator
    MaxConns = 3
    MaxRows = 3
    MaxRestarts = 1
    LateDetection = FALSE
    DbErrors = FALSE
SPECIFICATION FairSpec
INVARIANT LiveAgentReachable
PROPERTIES AcceptProgress DeadAgentDropped
CHECK_DEADLOCK FALSE
