\* Two machines, two requests of any two handlers of an area, one connection
\* that breaks.
CONSTANTS
    m1 = m1
    m2 = m2
    Machine <- MCMachines
    Lists <- MCLists
    MaxRequests = 2
    MaxNamed = 2
    MaxBreaks = 1
    MaxErrors = 1
SPECIFICATION Spec
INVARIANTS TypeOK LogsAgree AnswerTellsTruth SuccessKept
PROPERTIES AnsweredOrHeldBack
CHECK_DEADLOCK FALSE
