\* Tasks: one, six requests, one restart of the agent.  Files: one, of three texts, three
\* versions, five requests.  Plugins: two, two starts, one request half way.
\* Batches: one, of one or two departments, three rows of machines.
CONSTANTS
    s1 = s1
    s2 = s2
    hourly = hourly
    run = run
    list = list
    text1 = text1
    text2 = text2
    text3 = text3
    name1 = name1
    name2 = name2
    m1 = m1
    m2 = m2
    top = top
    sub = sub
    side = side
    Slot <- MCSlots
    MaxRequests = 6
    MaxTasks = 1
    MaxRestarts = 1
    Expression <- MCExpression
    Command <- MCCommand
    Comma <- MCComma
    Cut = Cut
    MaxFiles = 1
    MaxServed = 5
    FormName <- MCFormName
    MaxVersions = 3
    Text <- MCText
    Empty = Empty
    PluginName <- MCPluginName
    MaxPlugins = 2
    MaxStarts = 2
    MaxHalfway = 1
    Machine <- MCMachine
    Department <- MCDepartment
    Root = top
    Below <- MCBelow
    MaxRows = 3
    MaxBatches = 1
    MaxChosen = 2
    NoMachine = NoMachine
SPECIFICATION ServicesSpec
SYMMETRY ServicesSymmetry
INVARIANTS TypeOK NoOrphanJob Agreement ServicesTypeOK NoVersionLost AtMostOneLatest OneRowPerName ListedIsRecorded ReachesItsMachines
CHECK_DEADLOCK FALSE
