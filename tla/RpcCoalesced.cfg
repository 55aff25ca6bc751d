\* Two calls on a connection that never breaks; two answers can arrive in one
\* Read.
CONSTANTS
    k1 = k1
    k2 = k2
    k3 = k3
    Call <- MCPair
    Watch <- MCNone
    Notice = Notice
    ServerCap = 1
    AgentCap = 2
    MaxNotices = 0
    MaxFrames = 2
    LinkMayBreak = FALSE
SPECIFICATION FairSpec
PROPERTY Answered
CHECK_DEADLOCK FALSE
