------------------------------ MODULE AgentFleet ------------------------------
(***************************************************************************)
(* The server side of an agent's life: the accept loop of the socket       *)
(* server, the handshake it runs on every connection, the listener of each *)
(* connection, the map from machine UUIDs to Agent objects, and the        *)
(* machine_node table, which the handshake, the listeners and the HTTP     *)
(* handlers of the operators all write.                                    *)
(*                                                                         *)
(* A connection is numbered in the order the kernel completes it.  One     *)
(* goroutine accepts and performs the whole handshake (AddandRunAgent) of  *)
(* a connection before it accepts the next one; a listener goroutine per   *)
(* connection reads from it; the sender goroutine of a connection only     *)
(* forwards, and is part of the RPC model.  Every step below is the code   *)
(* between two points where another goroutine, the agent, or MySQL may     *)
(* interleave.                                                             *)
(***************************************************************************)
EXTENDS Naturals, FiniteSets

CONSTANTS Machine,        \* machines, named by the UUID their agent reports
          Nobody,         \* the uuid of a row that does not exist
          Placeholder,    \* the UUID field of an Agent before its Init: "agent"
          Depart,         \* departments
          Uncatalogued,   \* the root department, global.UncateloguedDepartId
          Operator,       \* HTTP requests that change machine_node rows
          MaxConns,       \* bound: connections ever dialled
          MaxRows,        \* bound: rows ever inserted into machine_node
          MaxRestarts,    \* bound: times the server is started again
          LateDetection,  \* an agent can be back before the server has seen
                          \* the end of its previous connection
          DbErrors        \* a statement sent to MySQL can fail

ASSUME FleetAssumption ==
    /\ Nobody \notin Machine
    /\ Placeholder \notin Machine \cup {Nobody}
    /\ Uncatalogued \in Depart
    /\ MaxConns \in Nat
    /\ MaxRows \in Nat
    /\ MaxRestarts \in Nat
    /\ LateDetection \in BOOLEAN
    /\ DbErrors \in BOOLEAN

VARIABLES
    owner,      \* the machine behind each connection
    link,       \* TCP state of each connection
    phase,      \* how far the server is with each connection
    wire,       \* handshake answer of the agent, not yet read
    answer,     \* handshake answer the listener has read
    listener,   \* goroutine of startListen, per connection
    agentMap,   \* AgentManager.agentMap
    table,      \* machine_node
    inserted,   \* rows ever inserted (the auto-increment key)
    request,    \* progress of each operator's request
    server,     \* whether the server process runs
    restarts

netVars    == <<owner, link>>
acceptVars == <<phase, wire, answer>>
dbVars     == <<table, inserted>>
procVars   == <<server, restarts>>
vars == <<netVars, acceptVars, listener, agentMap, dbVars, request, procVars>>

Conn   == 1 .. MaxConns
NoConn == 0
RowId  == 1 .. MaxRows
State  == {"Normal", "OffLine", "Free"}
Answer == {"none", "ok", "error"}

\* The phases between Accept and the return of AddandRunAgent.
Handshake ==
    {"info", "named", "stored", "osinfo", "known", "assigned", "unassigned", "absent"}
\* The phases in which AddAgent has run.
Mapped == {"stored", "osinfo", "known", "assigned", "unassigned", "absent",
           "registered", "dropped"}
Phase == {"none", "backlog", "closed", "registered", "dropped"} \cup Handshake

\* A row of machine_node: which machine, its department, its state.
Row == [uuid : Machine \cup {Nobody}, dept : Depart, state : State]
EmptyRow == [uuid |-> Nobody, dept |-> Uncatalogued, state |-> "Free"]

\* A request in progress: what is left to write, and what it has read.
Request == [op : {"idle", "move", "clear"}, todo : SUBSET RowId,
            dept : Depart, seen : State]
Idle == [op |-> "idle", todo |-> {}, dept |-> Uncatalogued, seen |-> "Free"]

\* Variant: the listener, started before Init, keeps the UUID it saw then.
UuidAtStart(c) == Placeholder

\* Agent.UUID of the object behind connection c: Init overwrites the
\* placeholder with what the agent reports.
Uuid(c) == IF phase[c] \in {"none", "backlog", "info"} THEN Placeholder ELSE owner[c]

RowsOf(u) == {i \in RowId : table[i].uuid = u}

\* UPDATE machine_node SET state = s WHERE machine_uuid = u
SetState(u, s) ==
    table' = [i \in RowId |-> IF table[i].uuid = u THEN [table[i] EXCEPT !.state = s]
                                                   ELSE table[i]]

Init ==
    /\ owner = [c \in Conn |-> Nobody]
    /\ link = [c \in Conn |-> "unused"]
    /\ phase = [c \in Conn |-> "none"]
    /\ wire = [c \in Conn |-> "none"]
    /\ answer = [c \in Conn |-> "none"]
    /\ listener = [c \in Conn |-> "none"]
    /\ agentMap = [u \in Machine |-> NoConn]
    /\ table = [i \in RowId |-> EmptyRow]
    /\ inserted = 0
    /\ request = [o \in Operator |-> Idle]
    /\ server = "running"
    /\ restarts = 0

------------------------------------------------------------------------------
\* Agents and network.

\* The server has read the end of connection c, or never accepted it.
EndSeen(c) == link[c] = "down" /\ listener[c] \in {"none", "ended"}

\* SocketClient.Run: an agent dials once its previous connection is closed.
\* The kernel completes the connection whether or not the accept loop runs.
Dial(m, c) ==
    /\ server = "running"
    /\ link[c] = "unused"
    /\ \A d \in Conn : d < c => link[d] # "unused"
    /\ \A d \in Conn : owner[d] = m => /\ link[d] = "down"
                                       /\ LateDetection \/ EndSeen(d)
    /\ owner' = [owner EXCEPT ![c] = m]
    /\ link' = [link EXCEPT ![c] = "up"]
    /\ phase' = [phase EXCEPT ![c] = "backlog"]
    /\ UNCHANGED <<wire, answer, listener, agentMap, dbVars, request, procVars>>

\* The agent process stops, its machine loses the network, or its socket fails.
LinkBreaks(c) ==
    /\ link[c] = "up"
    /\ link' = [link EXCEPT ![c] = "down"]
    /\ UNCHANGED <<owner, acceptVars, listener, agentMap, dbVars, request, procVars>>

\* AgentInfoHandler and AgentOSInfoHandler of the agent: the data, or status
\* -1 when the host cannot say its address.
AgentAnswers(c, a) ==
    /\ phase[c] \in {"info", "osinfo"}
    /\ link[c] = "up"
    /\ wire[c] = "none" /\ answer[c] = "none"
    /\ wire' = [wire EXCEPT ![c] = a]
    /\ UNCHANGED <<netVars, phase, answer, listener, agentMap, dbVars, request, procVars>>

------------------------------------------------------------------------------
\* The accept loop: AddandRunAgent of one connection after the other.

\* Variant: every connection is handled in a goroutine of its own.
AcceptConcurrently == TRUE

\* OnAccept is called in the loop itself, so a connection is accepted only
\* when the handshake of the one before has returned.
AcceptLoopFree == \A d \in Conn : phase[d] \notin Handshake

\* listener.Accept and NewAgent up to the AgentInfo request of Init.
Accept(c) ==
    /\ phase[c] = "backlog"
    /\ \A d \in Conn : d < c => phase[d] # "backlog"
    /\ AcceptLoopFree
    /\ phase' = [phase EXCEPT ![c] = "info"]
    /\ listener' = [listener EXCEPT ![c] = "reading"]
    /\ UNCHANGED <<netVars, wire, answer, agentMap, dbVars, request, procVars>>

\* Init resumes with the agent's data and writes Agent.UUID.
Named(c) ==
    /\ phase[c] = "info" /\ answer[c] = "ok"
    /\ phase' = [phase EXCEPT ![c] = "named"]
    /\ answer' = [answer EXCEPT ![c] = "none"]
    /\ UNCHANGED <<netVars, wire, listener, agentMap, dbVars, request, procVars>>

\* AddAgent.
StoreAgent(c) ==
    /\ phase[c] = "named"
    /\ agentMap' = [agentMap EXCEPT ![owner[c]] = c]
    /\ phase' = [phase EXCEPT ![c] = "stored"]
    /\ UNCHANGED <<netVars, wire, answer, listener, dbVars, request, procVars>>

\* Variant: GetAgent is tried again until it finds the agent.
LookUpAgain(c) ==
    /\ phase[c] = "stored"
    /\ phase' = [phase EXCEPT ![c] = IF agentMap[owner[c]] = NoConn THEN "stored"
                                                                    ELSE "osinfo"]
    /\ UNCHANGED <<netVars, wire, answer, listener, agentMap, dbVars, request, procVars>>

\* AddAgents2DB: GetAgent, and the AgentOSInfo request to what it returns.
LookUp(c) ==
    /\ phase[c] = "stored"
    /\ phase' = [phase EXCEPT ![c] = IF agentMap[owner[c]] = NoConn THEN "dropped"
                                                                    ELSE "osinfo"]
    /\ UNCHANGED <<netVars, wire, answer, listener, agentMap, dbVars, request, procVars>>

\* The OS data arrive and IsUUIDExist is asked; an error ends the handshake.
CheckRow(c) ==
    /\ phase[c] = "osinfo" /\ answer[c] # "none"
    /\ \/ /\ answer[c] = "ok"
          /\ phase' = [phase EXCEPT ![c] = IF RowsOf(owner[c]) = {} THEN "absent"
                                                                    ELSE "known"]
       \/ /\ answer[c] = "error" \/ DbErrors
          /\ phase' = [phase EXCEPT ![c] = "dropped"]
    /\ answer' = [answer EXCEPT ![c] = "none"]
    /\ UNCHANGED <<netVars, wire, listener, agentMap, dbVars, request, procVars>>

\* UUIDForDepartId; a row deleted meanwhile reads as department 0.
ReadDepart(c) ==
    /\ phase[c] = "known"
    /\ \/ /\ \E i \in RowsOf(owner[c]) : table[i].dept = Uncatalogued
          /\ phase' = [phase EXCEPT ![c] = "unassigned"]
       \/ /\ \/ RowsOf(owner[c]) = {}
             \/ \E i \in RowsOf(owner[c]) : table[i].dept # Uncatalogued
          /\ phase' = [phase EXCEPT ![c] = "assigned"]
    /\ UNCHANGED <<netVars, wire, answer, listener, agentMap, dbVars, request, procVars>>

\* Variant: the whole row is saved again, as for a new machine.
SaveAgain(c) ==
    /\ phase[c] \in {"assigned", "unassigned"}
    /\ table' = [i \in RowId |->
                    IF table[i].uuid = owner[c]
                    THEN [uuid |-> owner[c], dept |-> Uncatalogued, state |-> "Free"]
                    ELSE table[i]]
    /\ phase' = [phase EXCEPT ![c] = "registered"]
    /\ UNCHANGED <<netVars, wire, answer, listener, agentMap, inserted, request, procVars>>

\* Variant: a machine that has a department keeps the state it had.
MarkUnassigned(c) ==
    /\ phase[c] \in {"assigned", "unassigned"}
    /\ IF phase[c] = "assigned" THEN UNCHANGED table ELSE SetState(owner[c], "Free")
    /\ phase' = [phase EXCEPT ![c] = "registered"]
    /\ UNCHANGED <<netVars, wire, answer, listener, agentMap, inserted, request, procVars>>

\* MachineStatusToNormal and MachineStatusToFree of a machine seen before.
MarkOnline(c) ==
    /\ phase[c] \in {"assigned", "unassigned"}
    /\ SetState(owner[c], IF phase[c] = "assigned" THEN "Normal" ELSE "Free")
    /\ phase' = [phase EXCEPT ![c] = "registered"]
    /\ UNCHANGED <<netVars, wire, answer, listener, agentMap, inserted, request, procVars>>

\* AddNewMachine: a machine seen for the first time starts Free in the root.
AddRow(c) ==
    /\ phase[c] = "absent"
    /\ inserted < MaxRows
    /\ inserted' = inserted + 1
    /\ table' = [table EXCEPT ![inserted + 1] =
                    [uuid |-> owner[c], dept |-> Uncatalogued, state |-> "Free"]]
    /\ phase' = [phase EXCEPT ![c] = "registered"]
    /\ UNCHANGED <<netVars, wire, answer, listener, agentMap, request, procVars>>

\* A statement of AddAgents2DB fails: the error is logged, the handshake ends.
RegisterFails(c) ==
    /\ DbErrors
    /\ phase[c] \in {"known", "assigned", "unassigned", "absent"}
    /\ phase' = [phase EXCEPT ![c] = "dropped"]
    /\ UNCHANGED <<netVars, wire, answer, listener, agentMap, dbVars, request, procVars>>

------------------------------------------------------------------------------
\* startListen of one connection.

\* The answer is the first frame of its Read: it is cut from the buffer and
\* its goroutine hands it to the waiting handshake.
ListenerReads(c) ==
    /\ listener[c] = "reading"
    /\ wire[c] # "none"
    /\ answer' = [answer EXCEPT ![c] = wire[c]]
    /\ wire' = [wire EXCEPT ![c] = "none"]
    /\ UNCHANGED <<netVars, phase, listener, agentMap, dbVars, request, procVars>>

\* The Read also returns a frame sent before the answer, a notice of the file
\* monitor: one frame is cut per Read, and the answer stays in readBuff.
ReadsBehind(c) ==
    /\ listener[c] = "reading"
    /\ wire[c] # "none"
    /\ listener' = [listener EXCEPT ![c] = "behind"]
    /\ UNCHANGED <<netVars, acceptVars, agentMap, dbVars, request, procVars>>

\* Another notice of the agent makes Read return, and the answer left in
\* readBuff is cut.
NoticeArrives(c) ==
    /\ listener[c] = "behind"
    /\ link[c] = "up"
    /\ answer' = [answer EXCEPT ![c] = wire[c]]
    /\ wire' = [wire EXCEPT ![c] = "none"]
    /\ listener' = [listener EXCEPT ![c] = "reading"]
    /\ UNCHANGED <<netVars, phase, agentMap, dbVars, request, procVars>>

\* conn.Read returns an error; what was still in flight or in readBuff is lost.
ReadFails(c) ==
    /\ listener[c] \in {"reading", "behind"}
    /\ link[c] = "down"
    /\ listener' = [listener EXCEPT ![c] = "failed"]
    /\ wire' = [wire EXCEPT ![c] = "none"]
    /\ UNCHANGED <<netVars, phase, answer, agentMap, dbVars, request, procVars>>

\* MachineStatusToOffline(a.UUID); an error is only logged.
MarkOffline(c) ==
    /\ listener[c] = "failed"
    /\ \/ SetState(Uuid(c), "OffLine")
       \/ DbErrors /\ UNCHANGED table
    /\ listener' = [listener EXCEPT ![c] = "offlined"]
    /\ UNCHANGED <<netVars, acceptVars, agentMap, inserted, request, procVars>>

\* DeleteAgent(a.UUID), after which the listener blocks on WARN_MSG for good.
\* It removes whatever the map holds for that UUID.
DropFromMap(c) ==
    /\ listener[c] = "offlined"
    /\ agentMap' = [u \in Machine |-> IF u = Uuid(c) THEN NoConn ELSE agentMap[u]]
    /\ listener' = [listener EXCEPT ![c] = "ended"]
    /\ UNCHANGED <<netVars, acceptVars, dbVars, request, procVars>>

------------------------------------------------------------------------------
\* HTTP handlers that change machine_node rows.

\* dao.ModifyMachineDepart reads the row ...
MoveReads(o, i, d) ==
    /\ server = "running"
    /\ request[o] = Idle
    /\ table[i].uuid # Nobody
    /\ request' = [request EXCEPT ![o] =
                      [op |-> "move", todo |-> {i}, dept |-> d, seen |-> table[i].state]]
    /\ UNCHANGED <<netVars, acceptVars, listener, agentMap, dbVars, procVars>>

\* Variant: the struct is saved with the zero value of the field left out.
MovedStateSaved(r, old) ==
    IF r.seen = "Free" THEN "Normal"
    ELSE IF r.dept = Uncatalogued THEN "Free" ELSE "0"

\* ... and writes a department, and a state that depends on what it read.
MovedState(r, old) ==
    IF r.seen = "Free" THEN "Normal"
    ELSE IF r.dept = Uncatalogued THEN "Free" ELSE old

MoveWrites(o) ==
    /\ request[o].op = "move"
    /\ table' = [i \in RowId |->
                    IF i \in request[o].todo /\ table[i].uuid # Nobody
                    THEN [table[i] EXCEPT !.dept = request[o].dept,
                                          !.state = MovedState(request[o], @)]
                    ELSE table[i]]
    /\ request' = [request EXCEPT ![o] = Idle]
    /\ UNCHANGED <<netVars, acceptVars, listener, agentMap, inserted, procVars>>

\* DeleteDepartData lists the machines of a department, the root too ...
ClearReads(o, d) ==
    LET found == {i \in RowId : table[i].uuid # Nobody /\ table[i].dept = d}
    IN  /\ server = "running"
        /\ request[o] = Idle
        /\ found # {}
        /\ request' = [request EXCEPT ![o] = [Idle EXCEPT !.op = "clear", !.todo = found]]
        /\ UNCHANGED <<netVars, acceptVars, listener, agentMap, dbVars, procVars>>

\* ... and moves them one by one into the root, whatever their state is.
ClearWrites(o, i) ==
    /\ request[o].op = "clear" /\ i \in request[o].todo
    /\ table' = IF table[i].uuid = Nobody THEN table
                ELSE [table EXCEPT ![i].dept = Uncatalogued, ![i].state = "Free"]
    /\ LET left == request[o].todo \ {i}
       IN  request' = [request EXCEPT ![o] =
                          IF left = {} THEN Idle ELSE [request[o] EXCEPT !.todo = left]]
    /\ UNCHANGED <<netVars, acceptVars, listener, agentMap, inserted, procVars>>

\* A statement of a request fails: the handler returns, the rest is not done.
RequestFails(o) ==
    /\ DbErrors
    /\ request[o] # Idle
    /\ request' = [request EXCEPT ![o] = Idle]
    /\ UNCHANGED <<netVars, acceptVars, listener, agentMap, dbVars, procVars>>

\* Variant: the machine's agent leaves the map with the row.
DeleteMachineAndAgent(u) ==
    /\ server = "running"
    /\ RowsOf(u) # {}
    /\ table' = [i \in RowId |-> IF table[i].uuid = u THEN EmptyRow ELSE table[i]]
    /\ agentMap' = [agentMap EXCEPT ![u] = NoConn]
    /\ UNCHANGED <<netVars, acceptVars, listener, inserted, request, procVars>>

\* dao.DeleteMachine: the row goes; the agent and its map entry stay.
DeleteMachine(u) ==
    /\ server = "running"
    /\ RowsOf(u) # {}
    /\ table' = [i \in RowId |-> IF table[i].uuid = u THEN EmptyRow ELSE table[i]]
    /\ UNCHANGED <<netVars, acceptVars, listener, agentMap, inserted, request, procVars>>

------------------------------------------------------------------------------
\* The server process.

\* Everything but MySQL goes: sockets, goroutines, the map.
ProcessEnds ==
    /\ server' = "stopped"
    /\ link' = [c \in Conn |-> IF link[c] = "up" THEN "down" ELSE link[c]]
    /\ phase' = [c \in Conn |-> IF phase[c] = "none" THEN "none" ELSE "closed"]
    /\ wire' = [c \in Conn |-> "none"]
    /\ answer' = [c \in Conn |-> "none"]
    /\ listener' = [c \in Conn |-> "none"]
    /\ agentMap' = [u \in Machine |-> NoConn]
    /\ request' = [o \in Operator |-> Idle]
    /\ UNCHANGED <<owner, dbVars, restarts>>

\* Init dereferences the nil AgentInfo of an agent that answered status -1:
\* the panic is in the accept goroutine, which nothing recovers.
InitPanics(c) ==
    /\ phase[c] = "info" /\ answer[c] = "error"
    /\ ProcessEnds

ServerStops == server = "running" /\ ProcessEnds

ServerStarts ==
    /\ server = "stopped"
    /\ restarts < MaxRestarts
    /\ server' = "running"
    /\ restarts' = restarts + 1
    /\ UNCHANGED <<netVars, acceptVars, listener, agentMap, dbVars, request>>

------------------------------------------------------------------------------
AcceptLoop(c) ==
    \/ Accept(c) \/ Named(c) \/ StoreAgent(c) \/ LookUp(c) \/ CheckRow(c)
    \/ ReadDepart(c) \/ MarkOnline(c) \/ AddRow(c) \/ RegisterFails(c) \/ InitPanics(c)

Listener(c) ==
    \/ ListenerReads(c) \/ ReadsBehind(c) \/ ReadFails(c)
    \/ MarkOffline(c) \/ DropFromMap(c)

Network(c) ==
    \/ LinkBreaks(c) \/ NoticeArrives(c)
    \/ \E m \in Machine : Dial(m, c)
    \/ \E a \in {"ok", "error"} : AgentAnswers(c, a)

Http ==
    \/ \E o \in Operator :
          \/ MoveWrites(o) \/ RequestFails(o)
          \/ \E i \in RowId : ClearWrites(o, i) \/ \E d \in Depart : MoveReads(o, i, d)
          \/ \E d \in Depart : ClearReads(o, d)
    \/ \E u \in Machine : DeleteMachine(u)

Next ==
    \/ \E c \in Conn : AcceptLoop(c) \/ Listener(c) \/ Network(c)
    \/ Http \/ ServerStops \/ ServerStarts

Spec == Init /\ [][Next]_vars

\* Goroutines that can run do run, and a connected agent answers a request.
Fairness ==
    \A c \in Conn : /\ WF_vars(AcceptLoop(c))
                    /\ WF_vars(Listener(c))
                    /\ WF_vars(\E a \in {"ok", "error"} : AgentAnswers(c, a))

FairSpec == Spec /\ Fairness
------------------------------------------------------------------------------
(***************************************************************************)
(* Properties.                                                             *)
(***************************************************************************)

\* The variables hold what the code can put in them.
TypeOK ==
    /\ owner \in [Conn -> Machine \cup {Nobody}]
    /\ link \in [Conn -> {"unused", "up", "down"}]
    /\ phase \in [Conn -> Phase]
    /\ wire \in [Conn -> Answer]
    /\ answer \in [Conn -> Answer]
    /\ listener \in [Conn -> {"none", "reading", "behind", "failed", "offlined", "ended"}]
    /\ agentMap \in [Machine -> Conn \cup {NoConn}]
    /\ table \in [RowId -> Row]
    /\ inserted \in 0 .. MaxRows
    /\ request \in [Operator -> Request]
    /\ server \in {"running", "stopped"}
    /\ restarts \in 0 .. MaxRestarts

\* A machine has at most one row in machine_node.  The table has no unique
\* key on machine_uuid: only the accept loop, by doing one handshake at a
\* time, keeps AddNewMachine from running after two IsUUIDExist that both
\* said no.
UniqueUuid ==
    \A i, j \in RowId :
        table[i].uuid = table[j].uuid /\ table[i].uuid # Nobody => i = j

\* GetAgent returns an Agent whose listener is gone only while the accept loop
\* is still in the handshake of that very connection, where it waits for an
\* answer nobody will read: no finished handshake leaves a dead entry.
DeadEntryOnlyInHandshake ==
    \A u \in Machine : \A c \in Conn :
        agentMap[u] = c /\ listener[c] = "ended"
            => /\ phase[c] \in {"stored", "osinfo"}
               /\ wire[c] = "none" /\ answer[c] = "none"

\* A connected agent that AddAgent has stored and the map no longer holds was
\* removed by the listener of an older connection of the same machine, and
\* by nothing else.
LostOnlyToOlderListener ==
    \A c \in Conn :
        phase[c] \in Mapped /\ link[c] = "up" /\ agentMap[owner[c]] # c
            => \E d \in Conn : /\ d < c /\ owner[d] = owner[c]
                               /\ listener[d] = "ended"

\* A registration never moves a machine: the department of a row that stays
\* changes only in a step of an operator's request.
RegistrationKeepsDepart ==
    [][\A i \in RowId :
         (table[i].uuid # Nobody /\ table'[i].uuid # Nobody)
            => \/ table'[i].dept = table[i].dept
               \/ \E o \in Operator : i \in request[o].todo]_vars

\* GetAgent finds every connected agent that AddAgent has stored.  It holds
\* when the end of a connection is seen before the machine is back, and is
\* refuted when it is seen later: DeleteAgent takes a UUID, not an Agent.
LiveAgentReachable ==
    \A c \in Conn :
        phase[c] \in Mapped /\ link[c] = "up" => agentMap[owner[c]] = c

\* A connected and registered machine is not shown OffLine: no write of an
\* older connection's listener comes after the registration.  It holds when
\* the end of a connection is seen before the machine is back.
RegisteredNotOffline ==
    \A c \in Conn :
        phase[c] = "registered" /\ link[c] = "up"
            => \A i \in RowsOf(owner[c]) : table[i].state # "OffLine"

\* The server runs and has seen the end of every connection of machine m,
\* and nothing is under way for it.
Gone(m) ==
    /\ server = "running"
    /\ \E c \in Conn : owner[c] = m /\ listener[c] = "ended"
    /\ \A c \in Conn : owner[c] = m => EndSeen(c) /\ phase[c] \notin Handshake

\* A machine whose connections have all ended is shown OffLine.  Refuted: the
\* listener's write can come before the write of the handshake it belongs to,
\* and moving a machine out of a deleted department makes it Free.
GoneIsOffline ==
    \A i \in RowId : \A m \in Machine :
        table[i].uuid = m /\ Gone(m) => table[i].state = "OffLine"

\* The handshake of connection c waits for an answer that cannot come:
\* sendMessage has no timeout and no one wakes its waiter.
Hung(c) ==
    /\ phase[c] \in {"info", "osinfo"}
    /\ link[c] = "down"
    /\ wire[c] = "none" /\ answer[c] = "none"

\* The handshake of connection c waits for an answer the listener has already
\* taken from the socket, and left in its buffer behind another frame.
HeldBack(c) ==
    /\ phase[c] \in {"info", "osinfo"}
    /\ listener[c] = "behind"

\* Every connection in the backlog is accepted, unless the accept loop hangs
\* in the handshake of a connection that broke, or of one that stands and
\* whose answer waits in the buffer for the agent to send something more.
AcceptProgress ==
    \A c \in Conn :
        (phase[c] = "backlog")
            ~> (phase[c] # "backlog" \/ \E d \in Conn : Hung(d) \/ HeldBack(d))

\* The entry of a registered agent whose connection breaks leaves the map.
DeadAgentDropped ==
    \A c \in Conn :
        (phase[c] = "registered" /\ link[c] = "down")
            ~> (c \notin {agentMap[u] : u \in Machine})
=============================================================================
