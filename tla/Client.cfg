\* Four connections and three messages through a channel of two.
CONSTANTS
    MaxConns = 4
    MessageCap = 2
    MaxMessages = 3
SPECIFICATION FairSpec
INVARIANTS TypeOK OneConnection ReadErrorsMatchRuns LeftoverExits
PROPERTY Reconnects
CHECK_DEADLOCK FALSE
