---------------------------- MODULE AgentFleetInv -----------------------------
(***************************************************************************)
(* The inductive invariant of AgentFleet: what the code keeps true between *)
(* any two steps of its goroutines, from which UniqueUuid,                 *)
(* DeadEntryOnlyInHandshake and, when the end of a connection is seen      *)
(* before its machine is back, LiveAgentReachable and RegisteredNotOffline *)
(* follow.                                                                 *)
(***************************************************************************)
EXTENDS AgentFleet

\* A connection that was dialled has a machine behind it; connections are
\* dialled in order; and a connection that is up is the newest of its machine.
Dialled ==
    /\ \A c \in Conn : (link[c] = "unused") <=> (phase[c] = "none")
    /\ \A c \in Conn : (link[c] = "unused") <=> (owner[c] = Nobody)
    /\ \A c, d \in Conn : d < c /\ link[c] # "unused" => link[d] # "unused"
    /\ \A c, d \in Conn :
          link[c] = "up" /\ d # c /\ owner[d] = owner[c] => d < c /\ link[d] = "down"

\* While a connection is in its handshake or before it, no later one has been
\* accepted: handshakes are done one at a time and in order.
AcceptOrder ==
    \A c, d \in Conn :
        d < c /\ phase[d] \in Handshake \cup {"backlog"} => phase[c] \in {"none", "backlog"}

\* An answer exists only while the handshake waits for one, and only one; a
\* listener past its last read has a broken connection and left nothing on it;
\* a connection has a listener once it is accepted, until the process ends.
Answers ==
    \A c \in Conn :
        /\ wire[c] # "none" \/ answer[c] # "none" => phase[c] \in {"info", "osinfo"}
        /\ wire[c] = "none" \/ answer[c] = "none"
        /\ listener[c] \in {"failed", "offlined", "ended"} => link[c] = "down" /\ wire[c] = "none"
        /\ (listener[c] = "none") <=> (phase[c] \in {"none", "backlog", "closed"})

\* An entry of the map is a connection of that machine that AddAgent stored.
Entries ==
    \A u \in Machine : \A c \in Conn :
        agentMap[u] = c => owner[c] = u /\ phase[c] \in Mapped

\* Between IsUUIDExist and AddNewMachine of one handshake no row appears.
StillAbsent ==
    \A c \in Conn : \A i \in RowId : phase[c] = "absent" => table[i].uuid # owner[c]

\* The rows above the auto-increment key have never been inserted.
FreshRows == \A i \in RowId : i > inserted => table[i].uuid = Nobody

\* Connection d can no longer touch the map entry or the rows of its machine
\* through its listener.
Silenced(d) ==
    /\ link[d] = "down"
    /\ \/ listener[d] = "ended"
       \/ phase[d] = "closed"
       \/ phase[d] \in {"backlog", "info"} /\ wire[d] = "none" /\ answer[d] = "none"

\* When the end of a connection is seen before its machine is back, every
\* earlier connection of a machine is silenced.
OlderSilenced ==
    ~LateDetection =>
        \A c, d \in Conn :
            d < c /\ owner[d] = owner[c] /\ link[c] # "unused" => Silenced(d)

ReachableIfPrompt == ~LateDetection => LiveAgentReachable
ShownIfPrompt == ~LateDetection => RegisteredNotOffline

\* The inductive invariant.
Inductive ==
    /\ TypeOK
    /\ Dialled
    /\ AcceptOrder
    /\ Answers
    /\ Entries
    /\ StillAbsent
    /\ FreshRows
    /\ UniqueUuid
    /\ DeadEntryOnlyInHandshake
    /\ LostOnlyToOlderListener
    /\ OlderSilenced
    /\ ReachableIfPrompt
    /\ ShownIfPrompt
=============================================================================
