\* A root, a department and one below it, one more to come; one machine; the
\* administrator and two users to come; two requests at a time, three in all.
CONSTANTS
    s1 = s1
    s2 = s2
    m1 = m1
    admin = admin
    other = other
    Parents <- MCParents
    FirstNames <- MCFirstNames
    MaxDeparts = 4
    Name <- MCNames
    RootName = 1
    Machine <- MCMachines
    MaxUsers = 3
    Email <- MCEmails
    AdminEmail = admin
    RoleId <- MCRoles
    AdminRole = 1
    Slot <- MCSlots
    MaxRequests = 3
SPECIFICATION Spec
SYMMETRY SlotSymmetry
INVARIANTS TypeOK MachinePlaced UserPlaced ParentNamed EveryDepartShown UniqueEmail BoundRoleStays
CHECK_DEADLOCK FALSE
