\* Three connections of one machine, which may be back before the server has
\* seen its old connection end, with an operator and failing statements.
CONSTANTS
    m1 = m1
    m2 = m2
    root = root
    d1 = d1
    o1 = o1
    Machine <- MCOne
    Nobody = Nobody
    Placeholder = Placeholder
    Depart <- MCDepart
    Uncatalogued = root
    Operator <- MCOperator
    MaxConns = 3
    MaxRows = 3
    MaxRestarts = 1
    LateDetection = TRUE
    DbErrors = TRUE
SPECIFICATION Spec
INVARIANTS TypeOK UniqueUuid DeadEntryOnlyInHandshake LostOnlyToOlderListener
PROPERTY RegistrationKeepsDepart
CHECK_DEADLOCK FALSE
