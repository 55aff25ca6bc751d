\* Two calls that are answered and one that watches a file, on a connection
\* that can break, with channels of one message and two frames per Read.
CONSTANTS
    k1 = k1
    k2 = k2
    k3 = k3
    Call <- MCCalls
    Watch <- MCWatch
    Notice = Notice
    ServerCap = 1
    AgentCap = 1
    MaxNotices = 1
    MaxFrames = 2
    LinkMayBreak = TRUE
SPECIFICATION FairSpec
INVARIANTS TypeOK AnswerFindsItsWaiter OneMessagePerCall
PROPERTIES ImplementsContract AnsweredOrHeldBack
CHECK_DEADLOCK FALSE
