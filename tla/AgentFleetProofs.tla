--------------------------- MODULE AgentFleetProofs ---------------------------
(***************************************************************************)
(* Proofs about AgentFleet, for every set of machines, departments and     *)
(* requests, every number of connections, rows and restarts, and both      *)
(* values of LateDetection and DbErrors.  Each part of Inductive has a     *)
(* lemma that a step keeps it, with one step per action that changes what  *)
(* the part is about; the theorems are at the end.                         *)
(***************************************************************************)
EXTENDS AgentFleetInv, TLAPS

\* An update of the state column keeps the rows well formed.
LEMMA SetStateKeepsRows ==
    ASSUME TypeOK, NEW u, NEW s \in State, SetState(u, s)
    PROVE  table' \in [RowId -> Row]
BY DEF TypeOK, SetState, Row

\* So does the move of a machine, whatever state it read.
LEMMA MoveKeepsRows ==
    ASSUME TypeOK, NEW o \in Operator, MoveWrites(o)
    PROVE  table' \in [RowId -> Row]
<1>1. request[o].dept \in Depart /\ request[o].seen \in State
  BY DEF TypeOK, Request
<1>2. \A old \in State : MovedState(request[o], old) \in State
  BY <1>1 DEF MovedState, State
<1>3. \A i \in RowId : table[i] \in Row /\ table[i].state \in State
  BY DEF TypeOK, Row
<1>4. ASSUME NEW i \in RowId
      PROVE  [table[i] EXCEPT !.dept = request[o].dept,
                              !.state = MovedState(request[o], @)] \in Row
  BY <1>1, <1>2, <1>3 DEF Row
<1>5. QED
  BY <1>3, <1>4 DEF MoveWrites

\* And the move of a machine into the root.
LEMMA ClearKeepsRows ==
    ASSUME TypeOK, NEW o \in Operator, NEW i \in RowId, ClearWrites(o, i)
    PROVE  table' \in [RowId -> Row]
<1>1. "Free" \in State /\ Uncatalogued \in Depart
  BY FleetAssumption DEF State
<1>2. table[i] \in Row
  BY DEF TypeOK
<1>3. [[table[i] EXCEPT !.dept = Uncatalogued] EXCEPT !.state = "Free"] \in Row
  BY <1>1, <1>2 DEF Row
<1>4. QED
  BY <1>3 DEF ClearWrites, TypeOK

\* A request that clears a department keeps a set of rows to do.
LEMMA ClearKeepsRequests ==
    ASSUME TypeOK, NEW o \in Operator, NEW i \in RowId, ClearWrites(o, i)
    PROVE  request' \in [Operator -> Request]
<1>1. request[o] \in Request /\ request[o].todo \ {i} \in SUBSET RowId
  BY DEF TypeOK, Request
<1>2. Idle \in Request
  BY FleetAssumption DEF Idle, Request, State
<1>3. [request[o] EXCEPT !.todo = request[o].todo \ {i}] \in Request
  BY <1>1 DEF Request
<1>4. QED
  BY <1>2, <1>3 DEF ClearWrites, TypeOK

\* No step takes a variable out of the values the code can put in it.
LEMMA TypeStep == TypeOK /\ [Next]_vars => TypeOK'
<1> SUFFICES ASSUME TypeOK, [Next]_vars PROVE TypeOK'
  OBVIOUS
<1> USE FleetAssumption
    DEF TypeOK, netVars, acceptVars, dbVars, procVars, Conn, NoConn, Phase, Handshake,
        Mapped, Answer, RowId
<1>1. ASSUME NEW c \in Conn, Accept(c) PROVE TypeOK'
  BY <1>1 DEF Accept
<1>2. ASSUME NEW c \in Conn, Named(c) PROVE TypeOK'
  BY <1>2 DEF Named
<1>3. ASSUME NEW c \in Conn, StoreAgent(c) PROVE TypeOK'
  BY <1>3 DEF StoreAgent
<1>4. ASSUME NEW c \in Conn, LookUp(c) PROVE TypeOK'
  BY <1>4 DEF LookUp
<1>5. ASSUME NEW c \in Conn, CheckRow(c) PROVE TypeOK'
  BY <1>5 DEF CheckRow
<1>6. ASSUME NEW c \in Conn, ReadDepart(c) PROVE TypeOK'
  BY <1>6 DEF ReadDepart
<1>7. ASSUME NEW c \in Conn, MarkOnline(c) PROVE TypeOK'
  <2>1. table' \in [RowId -> Row]
    BY <1>7, SetStateKeepsRows DEF MarkOnline, State
  <2>2. QED
    BY <1>7, <2>1 DEF MarkOnline
<1>8. ASSUME NEW c \in Conn, AddRow(c) PROVE TypeOK'
  BY <1>8 DEF AddRow, Row, State
<1>9. ASSUME NEW c \in Conn, RegisterFails(c) PROVE TypeOK'
  BY <1>9 DEF RegisterFails
<1>10. ASSUME NEW c \in Conn, ListenerReads(c) PROVE TypeOK'
  BY <1>10 DEF ListenerReads
<1>11. ASSUME NEW c \in Conn, ReadFails(c) PROVE TypeOK'
  BY <1>11 DEF ReadFails
<1>12. ASSUME NEW c \in Conn, MarkOffline(c) PROVE TypeOK'
  <2>1. table' \in [RowId -> Row]
    BY <1>12, SetStateKeepsRows DEF MarkOffline, State
  <2>2. QED
    BY <1>12, <2>1 DEF MarkOffline
<1>13. ASSUME NEW c \in Conn, DropFromMap(c) PROVE TypeOK'
  BY <1>13 DEF DropFromMap
<1>14. ASSUME NEW c \in Conn, LinkBreaks(c) PROVE TypeOK'
  BY <1>14 DEF LinkBreaks
<1>15. ASSUME NEW c \in Conn, NEW m \in Machine, Dial(m, c) PROVE TypeOK'
  BY <1>15 DEF Dial
<1>16. ASSUME NEW c \in Conn, NEW a \in {"ok", "error"}, AgentAnswers(c, a) PROVE TypeOK'
  BY <1>16 DEF AgentAnswers
<1>17. ASSUME NEW o \in Operator, MoveWrites(o) PROVE TypeOK'
  <2>1. table' \in [RowId -> Row]
    BY <1>17, MoveKeepsRows
  <2>2. QED
    BY <1>17, <2>1 DEF MoveWrites, Request, State, Idle
<1>18. ASSUME NEW o \in Operator, RequestFails(o) PROVE TypeOK'
  BY <1>18 DEF RequestFails, Request, State, Idle
<1>19. ASSUME NEW o \in Operator, NEW i \in RowId, ClearWrites(o, i) PROVE TypeOK'
  <2>1. table' \in [RowId -> Row] /\ request' \in [Operator -> Request]
    BY <1>19, ClearKeepsRows, ClearKeepsRequests
  <2>2. QED
    BY <1>19, <2>1 DEF ClearWrites
<1>20. ASSUME NEW o \in Operator, NEW i \in RowId, NEW d \in Depart, MoveReads(o, i, d) PROVE TypeOK'
  BY <1>20 DEF MoveReads, Request, Row, Idle
<1>21. ASSUME NEW o \in Operator, NEW d \in Depart, ClearReads(o, d) PROVE TypeOK'
  BY <1>21 DEF ClearReads, Request, Row, Idle
<1>22. ASSUME NEW u \in Machine, DeleteMachine(u) PROVE TypeOK'
  BY <1>22 DEF DeleteMachine, Row, State, EmptyRow
<1>23. ASSUME ProcessEnds PROVE TypeOK'
  BY <1>23 DEF ProcessEnds, Request, State, Idle
<1>24. ASSUME ServerStarts PROVE TypeOK'
  BY <1>24 DEF ServerStarts
<1>25. CASE UNCHANGED vars
  BY <1>25 DEF vars
<1>26. ASSUME NEW c \in Conn, ReadsBehind(c) PROVE TypeOK'
  BY <1>26 DEF ReadsBehind
<1>27. ASSUME NEW c \in Conn, NoticeArrives(c) PROVE TypeOK'
  BY <1>27 DEF NoticeArrives
<1> HIDE DEF TypeOK
<1>28. QED
  BY <1>1, <1>2, <1>3, <1>4, <1>5, <1>6, <1>7, <1>8, <1>9, <1>10, <1>11,
      <1>12, <1>13, <1>14, <1>15, <1>16, <1>17, <1>18, <1>19, <1>20, <1>21,
      <1>22, <1>23, <1>24, <1>25, <1>26, <1>27
  DEF Next, AcceptLoop, Listener, Network, Http, InitPanics, ServerStops

\* An update of the state column renames no row.
LEMMA SetStateKeepsUuid ==
    ASSUME TypeOK, NEW u, NEW s, SetState(u, s)
    PROVE  \A i \in RowId : table'[i].uuid = table[i].uuid
BY DEF TypeOK, SetState, RowId, Row

\* Connections are dialled in order, by a machine that has no other one up.
LEMMA DialledStep ==
    TypeOK /\ Dialled /\ [Next]_vars => Dialled'
<1> SUFFICES ASSUME TypeOK, Dialled, [Next]_vars PROVE Dialled'
  OBVIOUS
<1> USE FleetAssumption DEF TypeOK, netVars, acceptVars, dbVars, Conn, NoConn,
      Phase, Handshake, Mapped
<1>1. CASE UNCHANGED <<owner, link, phase>>
  BY <1>1 DEF Dialled
<1>2. ASSUME NEW c \in Conn, Accept(c) PROVE Dialled'
  BY <1>2 DEF Accept, Dialled
<1>3. ASSUME NEW c \in Conn, Named(c) PROVE Dialled'
  BY <1>3 DEF Named, Dialled
<1>4. ASSUME NEW c \in Conn, StoreAgent(c) PROVE Dialled'
  BY <1>4 DEF StoreAgent, Dialled
<1>5. ASSUME NEW c \in Conn, LookUp(c) PROVE Dialled'
  BY <1>5 DEF LookUp, Dialled
<1>6. ASSUME NEW c \in Conn, CheckRow(c) PROVE Dialled'
  BY <1>6 DEF CheckRow, Dialled
<1>7. ASSUME NEW c \in Conn, ReadDepart(c) PROVE Dialled'
  BY <1>7 DEF ReadDepart, Dialled
<1>8. ASSUME NEW c \in Conn, MarkOnline(c) PROVE Dialled'
  BY <1>8 DEF MarkOnline, Dialled
<1>9. ASSUME NEW c \in Conn, AddRow(c) PROVE Dialled'
  BY <1>9 DEF AddRow, Dialled
<1>10. ASSUME NEW c \in Conn, RegisterFails(c) PROVE Dialled'
  BY <1>10 DEF RegisterFails, Dialled
<1>11. ASSUME NEW c \in Conn, LinkBreaks(c) PROVE Dialled'
  BY <1>11 DEF LinkBreaks, Dialled
<1>12. ASSUME NEW c \in Conn, NEW m \in Machine, Dial(m, c) PROVE Dialled'
  BY <1>12 DEF Dial, Dialled
<1>13. ASSUME ProcessEnds PROVE Dialled'
  BY <1>13 DEF ProcessEnds, Dialled
<1>14. QED
  BY <1>1, <1>2, <1>3, <1>4, <1>5, <1>6, <1>7, <1>8, <1>9, <1>10, <1>11,
      <1>12, <1>13
  DEF Next, AcceptLoop, Listener, Network, Http, InitPanics, ServerStops,
      vars, procVars, ListenerReads, ReadsBehind, NoticeArrives,
      ReadFails, MarkOffline, DropFromMap,
      AgentAnswers, MoveWrites, RequestFails, ClearWrites, MoveReads,
      ClearReads, DeleteMachine, ServerStarts

\* The accept loop takes connections in order and one at a time.
LEMMA AcceptOrderStep ==
    TypeOK /\ Dialled /\ AcceptOrder /\ [Next]_vars => AcceptOrder'
<1> SUFFICES ASSUME TypeOK, Dialled, AcceptOrder, [Next]_vars PROVE AcceptOrder'
  OBVIOUS
<1> USE FleetAssumption DEF TypeOK, netVars, acceptVars, dbVars, Conn, NoConn,
      Phase, Handshake, Mapped
<1>1. CASE UNCHANGED <<phase>>
  BY <1>1 DEF AcceptOrder
<1>2. ASSUME NEW c \in Conn, Accept(c) PROVE AcceptOrder'
  BY <1>2 DEF Accept, AcceptLoopFree, AcceptOrder
<1>3. ASSUME NEW c \in Conn, Named(c) PROVE AcceptOrder'
  BY <1>3 DEF Named, AcceptOrder
<1>4. ASSUME NEW c \in Conn, StoreAgent(c) PROVE AcceptOrder'
  BY <1>4 DEF StoreAgent, AcceptOrder
<1>5. ASSUME NEW c \in Conn, LookUp(c) PROVE AcceptOrder'
  BY <1>5 DEF LookUp, AcceptOrder
<1>6. ASSUME NEW c \in Conn, CheckRow(c) PROVE AcceptOrder'
  BY <1>6 DEF CheckRow, AcceptOrder
<1>7. ASSUME NEW c \in Conn, ReadDepart(c) PROVE AcceptOrder'
  BY <1>7 DEF ReadDepart, AcceptOrder
<1>8. ASSUME NEW c \in Conn, MarkOnline(c) PROVE AcceptOrder'
  BY <1>8 DEF MarkOnline, AcceptOrder
<1>9. ASSUME NEW c \in Conn, AddRow(c) PROVE AcceptOrder'
  BY <1>9 DEF AddRow, AcceptOrder
<1>10. ASSUME NEW c \in Conn, RegisterFails(c) PROVE AcceptOrder'
  BY <1>10 DEF RegisterFails, AcceptOrder
<1>11. ASSUME NEW c \in Conn, NEW m \in Machine, Dial(m, c) PROVE AcceptOrder'
  BY <1>11 DEF Dial, Dialled, AcceptOrder
<1>12. ASSUME ProcessEnds PROVE AcceptOrder'
  BY <1>12 DEF ProcessEnds, AcceptOrder
<1>13. QED
  BY <1>1, <1>2, <1>3, <1>4, <1>5, <1>6, <1>7, <1>8, <1>9, <1>10, <1>11, <1>12
  DEF Next, AcceptLoop, Listener, Network, Http, InitPanics, ServerStops,
      vars, procVars, ListenerReads, ReadsBehind, NoticeArrives,
      ReadFails, MarkOffline, DropFromMap,
      LinkBreaks, AgentAnswers, MoveWrites, RequestFails, ClearWrites,
      MoveReads, ClearReads, DeleteMachine, ServerStarts

\* Answers stay in the phase that waits for one, listeners in the life of their
\* connection.
LEMMA AnswersStep ==
    TypeOK /\ Dialled /\ Answers /\ [Next]_vars => Answers'
<1> SUFFICES ASSUME TypeOK, Dialled, Answers, [Next]_vars PROVE Answers'
  OBVIOUS
<1> USE FleetAssumption DEF TypeOK, netVars, acceptVars, dbVars, Conn, NoConn,
      Phase, Handshake, Mapped, Answer
<1>1. CASE UNCHANGED <<link, phase, wire, answer, listener>>
  BY <1>1 DEF Answers
<1>2. ASSUME NEW c \in Conn, Accept(c) PROVE Answers'
  BY <1>2 DEF Accept, Answers
<1>3. ASSUME NEW c \in Conn, Named(c) PROVE Answers'
  BY <1>3 DEF Named, Answers
<1>4. ASSUME NEW c \in Conn, StoreAgent(c) PROVE Answers'
  BY <1>4 DEF StoreAgent, Answers
<1>5. ASSUME NEW c \in Conn, LookUp(c) PROVE Answers'
  BY <1>5 DEF LookUp, Answers
<1>6. ASSUME NEW c \in Conn, CheckRow(c) PROVE Answers'
  <2>1. PICK p \in {"absent", "known", "dropped"} : phase' = [phase EXCEPT ![c] = p]
    BY <1>6 DEF CheckRow
  <2>2. /\ phase[c] = "osinfo" /\ answer[c] # "none"
        /\ answer' = [answer EXCEPT ![c] = "none"]
        /\ UNCHANGED <<netVars, wire, listener>>
    BY <1>6 DEF CheckRow
  <2>3. QED
    BY <2>1, <2>2 DEF Answers
<1>7. ASSUME NEW c \in Conn, ReadDepart(c) PROVE Answers'
  <2>1. PICK p \in {"assigned", "unassigned"} : phase' = [phase EXCEPT ![c] = p]
    BY <1>7 DEF ReadDepart
  <2>2. phase[c] = "known" /\ UNCHANGED <<netVars, wire, answer, listener>>
    BY <1>7 DEF ReadDepart
  <2>3. QED
    BY <2>1, <2>2 DEF Answers
<1>8. ASSUME NEW c \in Conn, MarkOnline(c) PROVE Answers'
  BY <1>8 DEF MarkOnline, Answers
<1>9. ASSUME NEW c \in Conn, AddRow(c) PROVE Answers'
  BY <1>9 DEF AddRow, Answers
<1>10. ASSUME NEW c \in Conn, RegisterFails(c) PROVE Answers'
  BY <1>10 DEF RegisterFails, Answers
<1>11. ASSUME NEW c \in Conn, ListenerReads(c) PROVE Answers'
  BY <1>11 DEF ListenerReads, Answers
<1>12. ASSUME NEW c \in Conn, ReadFails(c) PROVE Answers'
  BY <1>12 DEF ReadFails, Answers
<1>13. ASSUME NEW c \in Conn, MarkOffline(c) PROVE Answers'
  BY <1>13 DEF MarkOffline, Answers
<1>14. ASSUME NEW c \in Conn, DropFromMap(c) PROVE Answers'
  BY <1>14 DEF DropFromMap, Answers
<1>15. ASSUME NEW c \in Conn, LinkBreaks(c) PROVE Answers'
  BY <1>15 DEF LinkBreaks, Answers
<1>16. ASSUME NEW c \in Conn, NEW m \in Machine, Dial(m, c) PROVE Answers'
  <2>1. /\ phase[c] = "none"
        /\ phase' = [phase EXCEPT ![c] = "backlog"]
        /\ link' = [link EXCEPT ![c] = "up"]
        /\ UNCHANGED <<wire, answer, listener>>
    BY <1>16 DEF Dial, Dialled
  <2>2. listener[c] = "none" /\ wire[c] = "none" /\ answer[c] = "none"
    BY <2>1 DEF Answers
  <2>3. /\ phase'[c] = "backlog"
        /\ \A d \in Conn \ {c} : phase'[d] = phase[d] /\ link'[d] = link[d]
    BY <2>1
  <2> HIDE DEF TypeOK
  <2>4. QED
    BY <2>1, <2>2, <2>3 DEF Answers
<1>17. ASSUME NEW c \in Conn, NEW a \in {"ok", "error"}, AgentAnswers(c, a) PROVE Answers'
  BY <1>17 DEF AgentAnswers, Answers
<1>18. ASSUME ProcessEnds PROVE Answers'
  BY <1>18 DEF ProcessEnds, Answers
<1>19. ASSUME NEW c \in Conn, ReadsBehind(c) PROVE Answers'
  BY <1>19 DEF ReadsBehind, Answers
<1>20. ASSUME NEW c \in Conn, NoticeArrives(c) PROVE Answers'
  BY <1>20 DEF NoticeArrives, Answers
<1>21. QED
  BY <1>1, <1>2, <1>3, <1>4, <1>5, <1>6, <1>7, <1>8, <1>9, <1>10, <1>11,
      <1>12, <1>13, <1>14, <1>15, <1>16, <1>17, <1>18, <1>19, <1>20
  DEF Next, AcceptLoop, Listener, Network, Http, InitPanics, ServerStops,
      vars, procVars, MoveWrites, RequestFails, ClearWrites, MoveReads,
      ClearReads, DeleteMachine, ServerStarts

\* What AddAgent stores is named by its machine and stays mapped or goes.
LEMMA EntriesStep ==
    TypeOK /\ Dialled /\ Entries /\ [Next]_vars => Entries'
<1> SUFFICES ASSUME TypeOK, Dialled, Entries, [Next]_vars PROVE Entries'
  OBVIOUS
<1> USE FleetAssumption DEF TypeOK, netVars, acceptVars, dbVars, Conn, NoConn,
      Phase, Handshake, Mapped
<1>1. CASE UNCHANGED <<owner, phase, agentMap>>
  BY <1>1 DEF Entries
<1>2. ASSUME NEW c \in Conn, Accept(c) PROVE Entries'
  BY <1>2 DEF Accept, Entries
<1>3. ASSUME NEW c \in Conn, Named(c) PROVE Entries'
  BY <1>3 DEF Named, Entries
<1>4. ASSUME NEW c \in Conn, StoreAgent(c) PROVE Entries'
  BY <1>4 DEF StoreAgent, Entries
<1>5. ASSUME NEW c \in Conn, LookUp(c) PROVE Entries'
  BY <1>5 DEF LookUp, Entries
<1>6. ASSUME NEW c \in Conn, CheckRow(c) PROVE Entries'
  BY <1>6 DEF CheckRow, Entries
<1>7. ASSUME NEW c \in Conn, ReadDepart(c) PROVE Entries'
  BY <1>7 DEF ReadDepart, Entries
<1>8. ASSUME NEW c \in Conn, MarkOnline(c) PROVE Entries'
  BY <1>8 DEF MarkOnline, Entries
<1>9. ASSUME NEW c \in Conn, AddRow(c) PROVE Entries'
  BY <1>9 DEF AddRow, Entries
<1>10. ASSUME NEW c \in Conn, RegisterFails(c) PROVE Entries'
  BY <1>10 DEF RegisterFails, Entries
<1>11. ASSUME NEW c \in Conn, DropFromMap(c) PROVE Entries'
  BY <1>11 DEF DropFromMap, Entries
<1>12. ASSUME NEW c \in Conn, NEW m \in Machine, Dial(m, c) PROVE Entries'
  BY <1>12 DEF Dial, Dialled, Entries
<1>13. ASSUME ProcessEnds PROVE Entries'
  BY <1>13 DEF ProcessEnds, Entries
<1>14. QED
  BY <1>1, <1>2, <1>3, <1>4, <1>5, <1>6, <1>7, <1>8, <1>9, <1>10, <1>11,
      <1>12, <1>13
  DEF Next, AcceptLoop, Listener, Network, Http, InitPanics, ServerStops,
      vars, procVars, ListenerReads, ReadsBehind, NoticeArrives,
      ReadFails, MarkOffline, LinkBreaks,
      AgentAnswers, MoveWrites, RequestFails, ClearWrites, MoveReads,
      ClearReads, DeleteMachine, ServerStarts

\* A listener that ends takes its own entry along, so a dead entry comes from
\* an AddAgent after the listener ended, and that handshake goes no further.
LEMMA DeadEntryStep ==
    TypeOK /\ Answers /\ Entries /\ DeadEntryOnlyInHandshake /\ [Next]_vars => DeadEntryOnlyInHandshake'
<1> SUFFICES ASSUME TypeOK, Answers, Entries, DeadEntryOnlyInHandshake, [Next]_vars PROVE DeadEntryOnlyInHandshake'
  OBVIOUS
<1> USE FleetAssumption DEF TypeOK, netVars, acceptVars, dbVars, Conn, NoConn,
      Phase, Handshake, Mapped
<1>1. CASE UNCHANGED <<agentMap, phase, wire, answer, listener>>
  BY <1>1 DEF DeadEntryOnlyInHandshake
<1>2. ASSUME NEW c \in Conn, Accept(c) PROVE DeadEntryOnlyInHandshake'
  BY <1>2 DEF Accept, Answers, Entries, DeadEntryOnlyInHandshake
<1>3. ASSUME NEW c \in Conn, Named(c) PROVE DeadEntryOnlyInHandshake'
  BY <1>3 DEF Named, Answers, Entries, DeadEntryOnlyInHandshake
<1>4. ASSUME NEW c \in Conn, StoreAgent(c) PROVE DeadEntryOnlyInHandshake'
  BY <1>4 DEF StoreAgent, Answers, Entries, DeadEntryOnlyInHandshake
<1>5. ASSUME NEW c \in Conn, LookUp(c) PROVE DeadEntryOnlyInHandshake'
  BY <1>5 DEF LookUp, Answers, Entries, DeadEntryOnlyInHandshake
<1>6. ASSUME NEW c \in Conn, CheckRow(c) PROVE DeadEntryOnlyInHandshake'
  BY <1>6 DEF CheckRow, Answers, Entries, DeadEntryOnlyInHandshake
<1>7. ASSUME NEW c \in Conn, ReadDepart(c) PROVE DeadEntryOnlyInHandshake'
  BY <1>7 DEF ReadDepart, DeadEntryOnlyInHandshake
<1>8. ASSUME NEW c \in Conn, MarkOnline(c) PROVE DeadEntryOnlyInHandshake'
  BY <1>8 DEF MarkOnline, DeadEntryOnlyInHandshake
<1>9. ASSUME NEW c \in Conn, AddRow(c) PROVE DeadEntryOnlyInHandshake'
  BY <1>9 DEF AddRow, DeadEntryOnlyInHandshake
<1>10. ASSUME NEW c \in Conn, RegisterFails(c) PROVE DeadEntryOnlyInHandshake'
  BY <1>10 DEF RegisterFails, DeadEntryOnlyInHandshake
<1>11. ASSUME NEW c \in Conn, ListenerReads(c) PROVE DeadEntryOnlyInHandshake'
  BY <1>11 DEF ListenerReads, Answers, Entries, DeadEntryOnlyInHandshake
<1>12. ASSUME NEW c \in Conn, ReadFails(c) PROVE DeadEntryOnlyInHandshake'
  BY <1>12 DEF ReadFails, DeadEntryOnlyInHandshake
<1>13. ASSUME NEW c \in Conn, MarkOffline(c) PROVE DeadEntryOnlyInHandshake'
  BY <1>13 DEF MarkOffline, DeadEntryOnlyInHandshake
<1>14. ASSUME NEW c \in Conn, DropFromMap(c) PROVE DeadEntryOnlyInHandshake'
  <2> SUFFICES ASSUME NEW u \in Machine, NEW d \in Conn,
                      agentMap'[u] = d, listener'[d] = "ended"
               PROVE  /\ phase'[d] \in {"stored", "osinfo"}
                      /\ wire'[d] = "none" /\ answer'[d] = "none"
    BY DEF DeadEntryOnlyInHandshake
  <2>1. agentMap[u] = d /\ u # Uuid(c)
    BY <1>14 DEF DropFromMap
  <2>2. owner[d] = u /\ phase[d] \in Mapped
    BY <2>1 DEF Entries
  <2>3. d # c
    BY <2>1, <2>2 DEF Uuid
  <2>4. QED
    BY <1>14, <2>1, <2>3 DEF DropFromMap, DeadEntryOnlyInHandshake
<1>15. ASSUME NEW c \in Conn, LinkBreaks(c) PROVE DeadEntryOnlyInHandshake'
  BY <1>15 DEF LinkBreaks, DeadEntryOnlyInHandshake
<1>16. ASSUME NEW c \in Conn, NEW m \in Machine, Dial(m, c) PROVE DeadEntryOnlyInHandshake'
  BY <1>16 DEF Dial, Answers, Entries, DeadEntryOnlyInHandshake
<1>17. ASSUME NEW c \in Conn, NEW a \in {"ok", "error"}, AgentAnswers(c, a) PROVE DeadEntryOnlyInHandshake'
  BY <1>17 DEF AgentAnswers, Answers, Entries, DeadEntryOnlyInHandshake
<1>18. ASSUME ProcessEnds PROVE DeadEntryOnlyInHandshake'
  BY <1>18 DEF ProcessEnds, DeadEntryOnlyInHandshake
<1>19. ASSUME NEW c \in Conn, ReadsBehind(c) PROVE DeadEntryOnlyInHandshake'
  BY <1>19 DEF ReadsBehind, Answers, Entries, DeadEntryOnlyInHandshake
<1>20. ASSUME NEW c \in Conn, NoticeArrives(c) PROVE DeadEntryOnlyInHandshake'
  BY <1>20 DEF NoticeArrives, Answers, Entries, DeadEntryOnlyInHandshake
<1>21. QED
  BY <1>1, <1>2, <1>3, <1>4, <1>5, <1>6, <1>7, <1>8, <1>9, <1>10, <1>11,
      <1>12, <1>13, <1>14, <1>15, <1>16, <1>17, <1>18, <1>19, <1>20
  DEF Next, AcceptLoop, Listener, Network, Http, InitPanics, ServerStops,
      vars, procVars, MoveWrites, RequestFails, ClearWrites, MoveReads,
      ClearReads, DeleteMachine, ServerStarts

\* DropFromMap removes the entry of a connection that is up only for an older
\* connection of the machine: the newest one is the one that is up.
LEMMA LostStep ==
    TypeOK /\ Dialled /\ AcceptOrder /\ Answers /\ LostOnlyToOlderListener /\ [Next]_vars => LostOnlyToOlderListener'
<1> SUFFICES ASSUME TypeOK, Dialled, AcceptOrder, Answers, LostOnlyToOlderListener, [Next]_vars PROVE LostOnlyToOlderListener'
  OBVIOUS
<1> USE FleetAssumption DEF TypeOK, netVars, acceptVars, dbVars, Conn, NoConn,
      Phase, Handshake, Mapped
<1>1. CASE UNCHANGED <<owner, link, agentMap, phase, listener>>
  BY <1>1 DEF LostOnlyToOlderListener
<1>2. ASSUME NEW c \in Conn, Accept(c) PROVE LostOnlyToOlderListener'
  BY <1>2 DEF Accept, Answers, LostOnlyToOlderListener
<1>3. ASSUME NEW c \in Conn, Named(c) PROVE LostOnlyToOlderListener'
  BY <1>3 DEF Named, LostOnlyToOlderListener
<1>4. ASSUME NEW c \in Conn, StoreAgent(c) PROVE LostOnlyToOlderListener'
  BY <1>4 DEF StoreAgent, Dialled, AcceptOrder, Answers,
      LostOnlyToOlderListener
<1>5. ASSUME NEW c \in Conn, LookUp(c) PROVE LostOnlyToOlderListener'
  BY <1>5 DEF LookUp, LostOnlyToOlderListener
<1>6. ASSUME NEW c \in Conn, CheckRow(c) PROVE LostOnlyToOlderListener'
  BY <1>6 DEF CheckRow, LostOnlyToOlderListener
<1>7. ASSUME NEW c \in Conn, ReadDepart(c) PROVE LostOnlyToOlderListener'
  BY <1>7 DEF ReadDepart, LostOnlyToOlderListener
<1>8. ASSUME NEW c \in Conn, MarkOnline(c) PROVE LostOnlyToOlderListener'
  BY <1>8 DEF MarkOnline, LostOnlyToOlderListener
<1>9. ASSUME NEW c \in Conn, AddRow(c) PROVE LostOnlyToOlderListener'
  BY <1>9 DEF AddRow, LostOnlyToOlderListener
<1>10. ASSUME NEW c \in Conn, RegisterFails(c) PROVE LostOnlyToOlderListener'
  BY <1>10 DEF RegisterFails, LostOnlyToOlderListener
<1>11. ASSUME NEW c \in Conn, ListenerReads(c) PROVE LostOnlyToOlderListener'
  BY <1>11 DEF ListenerReads, LostOnlyToOlderListener
<1>12. ASSUME NEW c \in Conn, ReadFails(c) PROVE LostOnlyToOlderListener'
  BY <1>12 DEF ReadFails, LostOnlyToOlderListener
<1>13. ASSUME NEW c \in Conn, MarkOffline(c) PROVE LostOnlyToOlderListener'
  BY <1>13 DEF MarkOffline, LostOnlyToOlderListener
<1>14. ASSUME NEW c \in Conn, DropFromMap(c) PROVE LostOnlyToOlderListener'
  BY <1>14 DEF DropFromMap, Uuid, Dialled, Answers, LostOnlyToOlderListener
<1>15. ASSUME NEW c \in Conn, LinkBreaks(c) PROVE LostOnlyToOlderListener'
  BY <1>15 DEF LinkBreaks, LostOnlyToOlderListener
<1>16. ASSUME NEW c \in Conn, NEW m \in Machine, Dial(m, c) PROVE LostOnlyToOlderListener'
  BY <1>16 DEF Dial, Dialled, LostOnlyToOlderListener
<1>17. ASSUME ProcessEnds PROVE LostOnlyToOlderListener'
  BY <1>17 DEF ProcessEnds, LostOnlyToOlderListener
<1>18. ASSUME NEW c \in Conn, ReadsBehind(c) PROVE LostOnlyToOlderListener'
  BY <1>18 DEF ReadsBehind, LostOnlyToOlderListener
<1>19. ASSUME NEW c \in Conn, NoticeArrives(c) PROVE LostOnlyToOlderListener'
  BY <1>19 DEF NoticeArrives, LostOnlyToOlderListener
<1>20. QED
  BY <1>1, <1>2, <1>3, <1>4, <1>5, <1>6, <1>7, <1>8, <1>9, <1>10, <1>11,
      <1>12, <1>13, <1>14, <1>15, <1>16, <1>17, <1>18, <1>19
  DEF Next, AcceptLoop, Listener, Network, Http, InitPanics, ServerStops,
      vars, procVars, AgentAnswers, MoveWrites, RequestFails, ClearWrites,
      MoveReads, ClearReads, DeleteMachine, ServerStarts

\* Rows appear in AddRow alone, whose handshake is the only one.
LEMMA AbsentStep ==
    TypeOK /\ Dialled /\ AcceptOrder /\ StillAbsent /\ [Next]_vars => StillAbsent'
<1> SUFFICES ASSUME TypeOK, Dialled, AcceptOrder, StillAbsent, [Next]_vars PROVE StillAbsent'
  OBVIOUS
<1> USE FleetAssumption DEF TypeOK, netVars, acceptVars, dbVars, Conn, NoConn,
      Phase, Handshake, Mapped
<1>1. CASE UNCHANGED <<owner, phase, table>>
  BY <1>1 DEF StillAbsent, RowId
<1>2. ASSUME NEW c \in Conn, Accept(c) PROVE StillAbsent'
  BY <1>2 DEF Accept, StillAbsent, RowId
<1>3. ASSUME NEW c \in Conn, Named(c) PROVE StillAbsent'
  BY <1>3 DEF Named, StillAbsent, RowId
<1>4. ASSUME NEW c \in Conn, StoreAgent(c) PROVE StillAbsent'
  BY <1>4 DEF StoreAgent, StillAbsent, RowId
<1>5. ASSUME NEW c \in Conn, LookUp(c) PROVE StillAbsent'
  BY <1>5 DEF LookUp, StillAbsent, RowId
<1>6. ASSUME NEW c \in Conn, CheckRow(c) PROVE StillAbsent'
  BY <1>6 DEF CheckRow, RowsOf, StillAbsent, RowId
<1>7. ASSUME NEW c \in Conn, ReadDepart(c) PROVE StillAbsent'
  BY <1>7 DEF ReadDepart, StillAbsent, RowId
<1>8. ASSUME NEW c \in Conn, MarkOnline(c) PROVE StillAbsent'
  <2>1. \A i \in RowId : table'[i].uuid = table[i].uuid
    BY <1>8, SetStateKeepsUuid DEF MarkOnline
  <2>2. QED
    BY <1>8, <2>1 DEF MarkOnline, StillAbsent
<1>9. ASSUME NEW c \in Conn, AddRow(c) PROVE StillAbsent'
  BY <1>9 DEF AddRow, Dialled, AcceptOrder, StillAbsent, RowId
<1>10. ASSUME NEW c \in Conn, RegisterFails(c) PROVE StillAbsent'
  BY <1>10 DEF RegisterFails, StillAbsent, RowId
<1>11. ASSUME NEW c \in Conn, MarkOffline(c) PROVE StillAbsent'
  <2>1. \A i \in RowId : table'[i].uuid = table[i].uuid
    BY <1>11, SetStateKeepsUuid DEF MarkOffline
  <2>2. QED
    BY <1>11, <2>1 DEF MarkOffline, StillAbsent
<1>12. ASSUME NEW c \in Conn, NEW m \in Machine, Dial(m, c) PROVE StillAbsent'
  BY <1>12 DEF Dial, Dialled, StillAbsent, RowId
<1>13. ASSUME NEW o \in Operator, MoveWrites(o) PROVE StillAbsent'
  BY <1>13 DEF MoveWrites, Row, StillAbsent, RowId
<1>14. ASSUME NEW o \in Operator, NEW i \in RowId, ClearWrites(o, i) PROVE StillAbsent'
  BY <1>14 DEF ClearWrites, Row, StillAbsent, RowId
<1>15. ASSUME NEW u \in Machine, DeleteMachine(u) PROVE StillAbsent'
  BY <1>15 DEF DeleteMachine, EmptyRow, Dialled, StillAbsent, RowId
<1>16. ASSUME ProcessEnds PROVE StillAbsent'
  BY <1>16 DEF ProcessEnds, StillAbsent, RowId
<1>17. QED
  BY <1>1, <1>2, <1>3, <1>4, <1>5, <1>6, <1>7, <1>8, <1>9, <1>10, <1>11,
      <1>12, <1>13, <1>14, <1>15, <1>16
  DEF Next, AcceptLoop, Listener, Network, Http, InitPanics, ServerStops,
      vars, procVars, ListenerReads, ReadsBehind, NoticeArrives,
      ReadFails, DropFromMap, LinkBreaks,
      AgentAnswers, RequestFails, MoveReads, ClearReads, ServerStarts

\* Updates and deletions never fill a row, and AddRow takes the next key.
LEMMA FreshStep ==
    TypeOK /\ FreshRows /\ [Next]_vars => FreshRows'
<1> SUFFICES ASSUME TypeOK, FreshRows, [Next]_vars PROVE FreshRows'
  OBVIOUS
<1> USE FleetAssumption DEF TypeOK, netVars, acceptVars, dbVars, Conn, NoConn,
      Phase, Handshake, Mapped
<1>1. CASE UNCHANGED <<table, inserted>>
  BY <1>1 DEF FreshRows, RowId
<1>2. ASSUME NEW c \in Conn, MarkOnline(c) PROVE FreshRows'
  <2>1. \A i \in RowId : table'[i].uuid = table[i].uuid
    BY <1>2, SetStateKeepsUuid DEF MarkOnline
  <2>2. QED
    BY <1>2, <2>1 DEF MarkOnline, FreshRows
<1>3. ASSUME NEW c \in Conn, AddRow(c) PROVE FreshRows'
  BY <1>3 DEF AddRow, FreshRows, RowId
<1>4. ASSUME NEW c \in Conn, MarkOffline(c) PROVE FreshRows'
  <2>1. \A i \in RowId : table'[i].uuid = table[i].uuid
    BY <1>4, SetStateKeepsUuid DEF MarkOffline
  <2>2. QED
    BY <1>4, <2>1 DEF MarkOffline, FreshRows
<1>5. ASSUME NEW o \in Operator, MoveWrites(o) PROVE FreshRows'
  BY <1>5 DEF MoveWrites, Row, FreshRows, RowId
<1>6. ASSUME NEW o \in Operator, NEW i \in RowId, ClearWrites(o, i) PROVE FreshRows'
  BY <1>6 DEF ClearWrites, Row, FreshRows, RowId
<1>7. ASSUME NEW u \in Machine, DeleteMachine(u) PROVE FreshRows'
  BY <1>7 DEF DeleteMachine, EmptyRow, FreshRows, RowId
<1>8. QED
  BY <1>1, <1>2, <1>3, <1>4, <1>5, <1>6, <1>7
  DEF Next, AcceptLoop, Listener, Network, Http, InitPanics, ServerStops,
      vars, procVars, Accept, Named, StoreAgent, LookUp, CheckRow, ReadDepart,
      RegisterFails, ListenerReads, ReadsBehind, NoticeArrives,
      ReadFails, DropFromMap, LinkBreaks, Dial,
      AgentAnswers, RequestFails, MoveReads, ClearReads, ProcessEnds,
      ServerStarts

\* AddRow finds no row of its machine.
LEMMA UniqueStep ==
    TypeOK /\ Dialled /\ StillAbsent /\ UniqueUuid /\ [Next]_vars => UniqueUuid'
<1> SUFFICES ASSUME TypeOK, Dialled, StillAbsent, UniqueUuid, [Next]_vars PROVE UniqueUuid'
  OBVIOUS
<1> USE FleetAssumption DEF TypeOK, netVars, acceptVars, dbVars, Conn, NoConn,
      Phase, Handshake, Mapped
<1>1. CASE UNCHANGED <<table>>
  BY <1>1 DEF UniqueUuid, RowId
<1>2. ASSUME NEW c \in Conn, MarkOnline(c) PROVE UniqueUuid'
  <2>1. \A i \in RowId : table'[i].uuid = table[i].uuid
    BY <1>2, SetStateKeepsUuid DEF MarkOnline
  <2>2. QED
    BY <1>2, <2>1 DEF MarkOnline, UniqueUuid
<1>3. ASSUME NEW c \in Conn, AddRow(c) PROVE UniqueUuid'
  BY <1>3 DEF AddRow, StillAbsent, UniqueUuid, RowId
<1>4. ASSUME NEW c \in Conn, MarkOffline(c) PROVE UniqueUuid'
  <2>1. \A i \in RowId : table'[i].uuid = table[i].uuid
    BY <1>4, SetStateKeepsUuid DEF MarkOffline
  <2>2. QED
    BY <1>4, <2>1 DEF MarkOffline, UniqueUuid
<1>5. ASSUME NEW o \in Operator, MoveWrites(o) PROVE UniqueUuid'
  BY <1>5 DEF MoveWrites, Row, UniqueUuid, RowId
<1>6. ASSUME NEW o \in Operator, NEW i \in RowId, ClearWrites(o, i) PROVE UniqueUuid'
  BY <1>6 DEF ClearWrites, Row, UniqueUuid, RowId
<1>7. ASSUME NEW u \in Machine, DeleteMachine(u) PROVE UniqueUuid'
  BY <1>7 DEF DeleteMachine, EmptyRow, UniqueUuid, RowId
<1>8. QED
  BY <1>1, <1>2, <1>3, <1>4, <1>5, <1>6, <1>7
  DEF Next, AcceptLoop, Listener, Network, Http, InitPanics, ServerStops,
      vars, procVars, Accept, Named, StoreAgent, LookUp, CheckRow, ReadDepart,
      RegisterFails, ListenerReads, ReadsBehind, NoticeArrives,
      ReadFails, DropFromMap, LinkBreaks, Dial,
      AgentAnswers, RequestFails, MoveReads, ClearReads, ProcessEnds,
      ServerStarts

\* A silenced connection stays silenced, and Dial requires one.
LEMMA SilencedStep ==
    TypeOK /\ Dialled /\ Answers /\ OlderSilenced /\ [Next]_vars => OlderSilenced'
<1> SUFFICES ASSUME TypeOK, Dialled, Answers, OlderSilenced, [Next]_vars PROVE OlderSilenced'
  OBVIOUS
<1> USE FleetAssumption DEF TypeOK, netVars, acceptVars, dbVars, Conn, NoConn,
      Phase, Handshake, Mapped
<1>1. CASE UNCHANGED <<owner, link, phase, wire, answer, listener>>
  BY <1>1 DEF OlderSilenced, Silenced
<1>2. ASSUME NEW c \in Conn, Accept(c) PROVE OlderSilenced'
  BY <1>2 DEF Accept, Answers, OlderSilenced, Silenced
<1>3. ASSUME NEW c \in Conn, Named(c) PROVE OlderSilenced'
  BY <1>3 DEF Named, OlderSilenced, Silenced
<1>4. ASSUME NEW c \in Conn, StoreAgent(c) PROVE OlderSilenced'
  BY <1>4 DEF StoreAgent, OlderSilenced, Silenced
<1>5. ASSUME NEW c \in Conn, LookUp(c) PROVE OlderSilenced'
  BY <1>5 DEF LookUp, OlderSilenced, Silenced
<1>6. ASSUME NEW c \in Conn, CheckRow(c) PROVE OlderSilenced'
  <2>1. PICK p \in {"absent", "known", "dropped"} : phase' = [phase EXCEPT ![c] = p]
    BY <1>6 DEF CheckRow
  <2>2. /\ phase[c] = "osinfo" /\ answer[c] # "none"
        /\ answer' = [answer EXCEPT ![c] = "none"]
        /\ UNCHANGED <<netVars, wire, listener>>
    BY <1>6 DEF CheckRow
  <2>3. QED
    BY <2>1, <2>2 DEF OlderSilenced, Silenced
<1>7. ASSUME NEW c \in Conn, ReadDepart(c) PROVE OlderSilenced'
  <2>1. PICK p \in {"assigned", "unassigned"} : phase' = [phase EXCEPT ![c] = p]
    BY <1>7 DEF ReadDepart
  <2>2. phase[c] = "known" /\ UNCHANGED <<netVars, wire, answer, listener>>
    BY <1>7 DEF ReadDepart
  <2>3. QED
    BY <2>1, <2>2 DEF OlderSilenced, Silenced
<1>8. ASSUME NEW c \in Conn, MarkOnline(c) PROVE OlderSilenced'
  BY <1>8 DEF MarkOnline, OlderSilenced, Silenced
<1>9. ASSUME NEW c \in Conn, AddRow(c) PROVE OlderSilenced'
  BY <1>9 DEF AddRow, OlderSilenced, Silenced
<1>10. ASSUME NEW c \in Conn, RegisterFails(c) PROVE OlderSilenced'
  BY <1>10 DEF RegisterFails, OlderSilenced, Silenced
<1>11. ASSUME NEW c \in Conn, ListenerReads(c) PROVE OlderSilenced'
  BY <1>11 DEF ListenerReads, OlderSilenced, Silenced
<1>12. ASSUME NEW c \in Conn, ReadFails(c) PROVE OlderSilenced'
  BY <1>12 DEF ReadFails, OlderSilenced, Silenced
<1>13. ASSUME NEW c \in Conn, MarkOffline(c) PROVE OlderSilenced'
  BY <1>13 DEF MarkOffline, OlderSilenced, Silenced
<1>14. ASSUME NEW c \in Conn, DropFromMap(c) PROVE OlderSilenced'
  BY <1>14 DEF DropFromMap, OlderSilenced, Silenced
<1>15. ASSUME NEW c \in Conn, LinkBreaks(c) PROVE OlderSilenced'
  BY <1>15 DEF LinkBreaks, OlderSilenced, Silenced
<1>16. ASSUME NEW c \in Conn, NEW m \in Machine, Dial(m, c) PROVE OlderSilenced'
  BY <1>16 DEF Dial, EndSeen, Dialled, Answers, OlderSilenced, Silenced
<1>17. ASSUME NEW c \in Conn, NEW a \in {"ok", "error"}, AgentAnswers(c, a) PROVE OlderSilenced'
  BY <1>17 DEF AgentAnswers, Dialled, Answers, OlderSilenced, Silenced
<1>18. ASSUME ProcessEnds PROVE OlderSilenced'
  BY <1>18 DEF ProcessEnds, Dialled, OlderSilenced, Silenced
<1>19. ASSUME NEW c \in Conn, ReadsBehind(c) PROVE OlderSilenced'
  BY <1>19 DEF ReadsBehind, OlderSilenced, Silenced
<1>20. ASSUME NEW c \in Conn, NoticeArrives(c) PROVE OlderSilenced'
  BY <1>20 DEF NoticeArrives, OlderSilenced, Silenced
<1>21. QED
  BY <1>1, <1>2, <1>3, <1>4, <1>5, <1>6, <1>7, <1>8, <1>9, <1>10, <1>11,
      <1>12, <1>13, <1>14, <1>15, <1>16, <1>17, <1>18, <1>19, <1>20
  DEF Next, AcceptLoop, Listener, Network, Http, InitPanics, ServerStops,
      vars, procVars, MoveWrites, RequestFails, ClearWrites, MoveReads,
      ClearReads, DeleteMachine, ServerStarts

\* A silenced connection has no entry of its machine to remove: its listener
\* has ended, or carries the placeholder for a UUID.
LEMMA ReachableStep ==
    TypeOK /\ Dialled /\ AcceptOrder /\ Answers /\ OlderSilenced /\ ReachableIfPrompt /\ [Next]_vars => ReachableIfPrompt'
<1> SUFFICES ASSUME TypeOK, Dialled, AcceptOrder, Answers, OlderSilenced, ReachableIfPrompt, [Next]_vars PROVE ReachableIfPrompt'
  OBVIOUS
<1> USE FleetAssumption DEF TypeOK, netVars, acceptVars, dbVars, Conn, NoConn,
      Phase, Handshake, Mapped
<1>1. CASE UNCHANGED <<owner, link, agentMap, phase>>
  BY <1>1 DEF ReachableIfPrompt, LiveAgentReachable
<1>2. ASSUME NEW c \in Conn, Accept(c) PROVE ReachableIfPrompt'
  BY <1>2 DEF Accept, ReachableIfPrompt, LiveAgentReachable
<1>3. ASSUME NEW c \in Conn, Named(c) PROVE ReachableIfPrompt'
  BY <1>3 DEF Named, ReachableIfPrompt, LiveAgentReachable
<1>4. ASSUME NEW c \in Conn, StoreAgent(c) PROVE ReachableIfPrompt'
  BY <1>4 DEF StoreAgent, Dialled, AcceptOrder, ReachableIfPrompt,
      LiveAgentReachable
<1>5. ASSUME NEW c \in Conn, LookUp(c) PROVE ReachableIfPrompt'
  BY <1>5 DEF LookUp, ReachableIfPrompt, LiveAgentReachable
<1>6. ASSUME NEW c \in Conn, CheckRow(c) PROVE ReachableIfPrompt'
  BY <1>6 DEF CheckRow, ReachableIfPrompt, LiveAgentReachable
<1>7. ASSUME NEW c \in Conn, ReadDepart(c) PROVE ReachableIfPrompt'
  BY <1>7 DEF ReadDepart, ReachableIfPrompt, LiveAgentReachable
<1>8. ASSUME NEW c \in Conn, MarkOnline(c) PROVE ReachableIfPrompt'
  BY <1>8 DEF MarkOnline, ReachableIfPrompt, LiveAgentReachable
<1>9. ASSUME NEW c \in Conn, AddRow(c) PROVE ReachableIfPrompt'
  BY <1>9 DEF AddRow, ReachableIfPrompt, LiveAgentReachable
<1>10. ASSUME NEW c \in Conn, RegisterFails(c) PROVE ReachableIfPrompt'
  BY <1>10 DEF RegisterFails, ReachableIfPrompt, LiveAgentReachable
<1>11. ASSUME NEW c \in Conn, LinkBreaks(c) PROVE ReachableIfPrompt'
  BY <1>11 DEF LinkBreaks, ReachableIfPrompt, LiveAgentReachable
<1>12. ASSUME NEW c \in Conn, NEW m \in Machine, Dial(m, c) PROVE ReachableIfPrompt'
  BY <1>12 DEF Dial, Dialled, ReachableIfPrompt, LiveAgentReachable
<1>13. ASSUME NEW c \in Conn, DropFromMap(c) PROVE ReachableIfPrompt'
  <2> SUFFICES ASSUME ~LateDetection, NEW e \in Conn,
                      phase[e] \in Mapped, link[e] = "up", agentMap[owner[e]] = e
               PROVE  agentMap'[owner[e]] = e
    BY <1>13 DEF DropFromMap, ReachableIfPrompt, LiveAgentReachable
  <2>1. owner[e] \in Machine /\ link[c] = "down" /\ listener[c] = "offlined"
    BY <1>13 DEF DropFromMap, Dialled, Answers
  <2>2. Uuid(c) # owner[e]
    <3>1. CASE owner[c] # owner[e]
      BY <2>1, <3>1 DEF Uuid
    <3>2. CASE owner[c] = owner[e]
      <4>1. c < e
        BY <2>1, <3>2 DEF Dialled
      <4>2. Silenced(c) /\ phase[c] # "closed"
        BY <2>1, <3>2, <4>1 DEF OlderSilenced, Answers
      <4>3. QED
        BY <2>1, <4>2 DEF Silenced, Uuid
    <3>3. QED
      BY <3>1, <3>2
  <2>3. QED
    BY <1>13, <2>1, <2>2 DEF DropFromMap
<1>14. ASSUME ProcessEnds PROVE ReachableIfPrompt'
  BY <1>14 DEF ProcessEnds, ReachableIfPrompt, LiveAgentReachable
<1>15. QED
  BY <1>1, <1>2, <1>3, <1>4, <1>5, <1>6, <1>7, <1>8, <1>9, <1>10, <1>11,
      <1>12, <1>13, <1>14
  DEF Next, AcceptLoop, Listener, Network, Http, InitPanics, ServerStops,
      vars, procVars, ListenerReads, ReadsBehind, NoticeArrives,
      ReadFails, MarkOffline, AgentAnswers,
      MoveWrites, RequestFails, ClearWrites, MoveReads, ClearReads,
      DeleteMachine, ServerStarts

\* The listener of a machine's older connection cannot write the row of one
\* that is up: it has ended, or carries the placeholder for a UUID.
LEMMA OldListenerNamesNoOther ==
    ASSUME TypeOK, Dialled, Answers, OlderSilenced, ~LateDetection,
           NEW c \in Conn, listener[c] = "failed", NEW e \in Conn, link[e] = "up"
    PROVE  Uuid(c) # owner[e]
<1> USE FleetAssumption DEF TypeOK, Conn
<1>1. owner[e] \in Machine /\ link[c] = "down"
  BY DEF Dialled, Answers
<1>2. CASE owner[c] # owner[e]
  BY <1>1, <1>2 DEF Uuid
<1>3. CASE owner[c] = owner[e]
  <2>1. c < e
    BY <1>1, <1>3 DEF Dialled
  <2>2. Silenced(c) /\ phase[c] # "closed"
    BY <1>1, <1>3, <2>1 DEF OlderSilenced, Answers
  <2>3. QED
    BY <1>1, <2>2 DEF Silenced, Uuid
<1>4. QED
  BY <1>2, <1>3

\* What a step has to keep: a row that is shown OffLine under a connected and
\* registered machine was so before.
LEMMA ShownByRows ==
    ASSUME RegisteredNotOffline, UNCHANGED <<owner, link>>,
           ASSUME NEW e \in Conn, NEW i \in RowId, phase'[e] = "registered", link[e] = "up",
                  table'[i].uuid = owner[e], table'[i].state = "OffLine"
           PROVE  /\ phase[e] = "registered"
                  /\ table[i].uuid = owner[e] /\ table[i].state = "OffLine"
    PROVE  RegisteredNotOffline'
BY DEF RegisteredNotOffline, RowsOf

\* A registration shows its machine Normal or Free, and what writes OffLine
\* afterwards is the listener of that connection, once it is down.
LEMMA ShownStep ==
    TypeOK /\ Dialled /\ Answers /\ OlderSilenced /\ StillAbsent /\ ShownIfPrompt /\ [Next]_vars
        => ShownIfPrompt'
<1> SUFFICES ASSUME TypeOK, Dialled, Answers, OlderSilenced, StillAbsent, ~LateDetection,
                    RegisteredNotOffline, [Next]_vars
             PROVE  RegisteredNotOffline'
  BY DEF ShownIfPrompt
<1> USE FleetAssumption DEF TypeOK, netVars, acceptVars, dbVars, Conn, NoConn, RowId,
      RowsOf, Phase, Handshake, Mapped
<1>1. CASE UNCHANGED <<owner, link, phase, table>>
  BY <1>1 DEF RegisteredNotOffline
<1>2. ASSUME NEW c \in Conn, NEW p \in Phase \ {"registered"},
             phase' = [phase EXCEPT ![c] = p], UNCHANGED <<netVars, table>>
      PROVE  RegisteredNotOffline'
  BY <1>2 DEF RegisteredNotOffline
<1>3. ASSUME NEW c \in Conn, MarkOnline(c) PROVE RegisteredNotOffline'
  <2>1. /\ UNCHANGED <<owner, link>>
        /\ phase' = [phase EXCEPT ![c] = "registered"]
    BY <1>3 DEF MarkOnline
  <2>2. PICK s \in {"Normal", "Free"} : SetState(owner[c], s)
    BY <1>3 DEF MarkOnline
  <2>3. \A i \in RowId : table'[i].uuid = table[i].uuid
    BY <2>2, SetStateKeepsUuid
  <2>4. \A i \in RowId :
            IF table[i].uuid = owner[c] THEN table'[i].state = s ELSE table'[i] = table[i]
    BY <2>2 DEF SetState, Row
  <2>5. QED
    BY <2>1, <2>3, <2>4, ShownByRows
<1>4. ASSUME NEW c \in Conn, AddRow(c) PROVE RegisteredNotOffline'
  <2>1. /\ UNCHANGED <<owner, link>>
        /\ phase' = [phase EXCEPT ![c] = "registered"]
        /\ phase[c] = "absent" /\ inserted + 1 \in RowId
        /\ table' = [table EXCEPT ![inserted + 1] =
              [uuid |-> owner[c], dept |-> Uncatalogued, state |-> "Free"]]
    BY <1>4 DEF AddRow
  <2> SUFFICES ASSUME NEW e \in Conn, phase'[e] = "registered", link[e] = "up",
                      NEW i \in RowId, table'[i].uuid = owner[e],
                      table'[i].state = "OffLine"
               PROVE  FALSE
    BY <2>1, ShownByRows
  <2>2. i # inserted + 1 /\ table'[i] = table[i]
    BY <2>1
  <2>3. phase[e] # "registered"
    BY <2>2 DEF RegisteredNotOffline
  <2>4. e = c
    BY <2>1, <2>3
  <2>5. QED
    BY <1>4, <2>1, <2>2, <2>4 DEF StillAbsent
<1>5. ASSUME NEW c \in Conn, MarkOffline(c) PROVE RegisteredNotOffline'
  <2>1. /\ listener[c] = "failed" /\ UNCHANGED <<owner, link, phase>>
        /\ SetState(Uuid(c), "OffLine") \/ UNCHANGED table
    BY <1>5 DEF MarkOffline
  <2>2. \A i \in RowId :
            table'[i].uuid = table[i].uuid
            /\ (table[i].uuid # Uuid(c) => table'[i] = table[i])
    BY <2>1 DEF SetState, Row
  <2>3. \A e \in Conn : link[e] = "up" => Uuid(c) # owner[e]
    BY <2>1, OldListenerNamesNoOther
  <2>4. \A e \in Conn, i \in RowId :
            link[e] = "up" /\ table'[i].uuid = owner[e] => table'[i] = table[i]
    BY <2>2, <2>3
  <2>5. QED
    BY <2>1, <2>4, ShownByRows
<1>6. ASSUME NEW c \in Conn, LinkBreaks(c) PROVE RegisteredNotOffline'
  BY <1>6 DEF LinkBreaks, RegisteredNotOffline
<1>7. ASSUME NEW c \in Conn, NEW m \in Machine, Dial(m, c) PROVE RegisteredNotOffline'
  BY <1>7 DEF Dial, RegisteredNotOffline
<1>8. ASSUME NEW o \in Operator, MoveWrites(o) PROVE RegisteredNotOffline'
  <2>1. UNCHANGED <<owner, link, phase>>
    BY <1>8 DEF MoveWrites
  <2>2. \A i \in RowId :
            /\ table'[i].uuid = table[i].uuid
            /\ table'[i].state \in {"Normal", "Free", table[i].state}
    BY <1>8 DEF MoveWrites, MovedState, Row
  <2>3. QED
    BY <2>1, <2>2, ShownByRows
<1>9. ASSUME NEW o \in Operator, NEW i \in RowId, ClearWrites(o, i)
      PROVE  RegisteredNotOffline'
  <2>1. UNCHANGED <<owner, link, phase>>
    BY <1>9 DEF ClearWrites
  <2>2. \A j \in RowId :
            /\ table'[j].uuid = table[j].uuid
            /\ table'[j].state \in {"Free", table[j].state}
    BY <1>9 DEF ClearWrites, Row
  <2>3. QED
    BY <2>1, <2>2, ShownByRows
<1>10. ASSUME NEW u \in Machine, DeleteMachine(u) PROVE RegisteredNotOffline'
  <2>1. UNCHANGED <<owner, link, phase>>
    BY <1>10 DEF DeleteMachine
  <2>2. \A i \in RowId : table'[i] = table[i] \/ table'[i].state = "Free"
    BY <1>10 DEF DeleteMachine, EmptyRow
  <2>3. QED
    BY <2>1, <2>2, ShownByRows
<1>11. ASSUME ProcessEnds PROVE RegisteredNotOffline'
  BY <1>11 DEF ProcessEnds, RegisteredNotOffline
<1>12. ASSUME NEW c \in Conn, AcceptLoop(c) PROVE RegisteredNotOffline'
  <2>1. CASE MarkOnline(c) \/ AddRow(c) \/ InitPanics(c)
    BY <2>1, <1>3, <1>4, <1>11 DEF InitPanics
  <2>2. CASE Accept(c) \/ Named(c) \/ StoreAgent(c) \/ LookUp(c) \/ CheckRow(c)
             \/ ReadDepart(c) \/ RegisterFails(c)
    <3>1. PICK p \in Phase \ {"registered"} : phase' = [phase EXCEPT ![c] = p]
      BY <2>2 DEF Accept, Named, StoreAgent, LookUp, CheckRow, ReadDepart, RegisterFails
    <3>2. UNCHANGED <<netVars, table>>
      BY <2>2 DEF Accept, Named, StoreAgent, LookUp, CheckRow, ReadDepart, RegisterFails
    <3>3. QED
      BY <3>1, <3>2, <1>2
  <2>3. QED
    BY <1>12, <2>1, <2>2 DEF AcceptLoop
<1>13. QED
  BY <1>1, <1>5, <1>6, <1>7, <1>8, <1>9, <1>10, <1>11, <1>12
  DEF Next, Listener, Network, Http, ServerStops, vars, procVars,
      ListenerReads, ReadsBehind, NoticeArrives,
      ReadFails, DropFromMap, AgentAnswers, RequestFails, MoveReads, ClearReads,
      ServerStarts

-----------------------------------------------------------------------------
\* The server starts with no connection, no entry and an empty table.
LEMMA InductiveInit == Init => Inductive
<1> SUFFICES ASSUME Init PROVE Inductive
  OBVIOUS
<1> USE FleetAssumption DEF Init, Conn, NoConn, RowId, EmptyRow, Handshake, Mapped
<1>1. TypeOK
  BY DEF TypeOK, Phase, Answer, Row, State, Request, Idle
<1>2. Dialled /\ AcceptOrder /\ Answers
  BY DEF Dialled, AcceptOrder, Answers
<1>3. Entries /\ StillAbsent /\ FreshRows /\ UniqueUuid
  BY DEF Entries, StillAbsent, FreshRows, UniqueUuid
<1>4. DeadEntryOnlyInHandshake /\ LostOnlyToOlderListener
  BY DEF DeadEntryOnlyInHandshake, LostOnlyToOlderListener
<1>5. OlderSilenced /\ ReachableIfPrompt
  BY DEF OlderSilenced, ReachableIfPrompt, LiveAgentReachable
<1>6. ShownIfPrompt
  BY DEF ShownIfPrompt, RegisteredNotOffline
<1>7. QED
  BY <1>1, <1>2, <1>3, <1>4, <1>5, <1>6 DEF Inductive

\* Every step of every goroutine keeps the invariant.
LEMMA InductiveStep == Inductive /\ [Next]_vars => Inductive'
BY TypeStep, DialledStep, AcceptOrderStep, AnswersStep, EntriesStep, DeadEntryStep,
   LostStep, AbsentStep, FreshStep, UniqueStep, SilencedStep, ReachableStep,
   ShownStep
DEF Inductive

\* The invariant holds in every state.
LEMMA InductiveHolds == Spec => []Inductive
BY InductiveInit, InductiveStep, PTL DEF Spec

-----------------------------------------------------------------------------
\* Type correctness of the accept loop, the listeners, the map and the table.
THEOREM TypeCorrect == Spec => []TypeOK
<1>1. Inductive => TypeOK
  BY DEF Inductive
<1>2. QED
  BY <1>1, InductiveHolds, PTL

\* A machine never has two rows in machine_node, although the table has no
\* unique key and the handshake checks and inserts in two statements.
THEOREM OneRowPerMachine == Spec => []UniqueUuid
<1>1. Inductive => UniqueUuid
  BY DEF Inductive
<1>2. QED
  BY <1>1, InductiveHolds, PTL

\* GetAgent returns an Agent without a listener only while AddandRunAgent is
\* still at work on that very connection.
THEOREM DeadEntriesAreTransient == Spec => []DeadEntryOnlyInHandshake
<1>1. Inductive => DeadEntryOnlyInHandshake
  BY DEF Inductive
<1>2. QED
  BY <1>1, InductiveHolds, PTL

\* A connected agent that AddAgent stored leaves the map only by the listener
\* of an older connection of its machine.
THEOREM EntriesAreLostToOlderListeners == Spec => []LostOnlyToOlderListener
<1>1. Inductive => LostOnlyToOlderListener
  BY DEF Inductive
<1>2. QED
  BY <1>1, InductiveHolds, PTL

\* When the server sees the end of a connection before its machine is back,
\* GetAgent finds every connected agent that AddAgent stored, whatever the
\* operators do and whichever statements fail.
THEOREM PromptDetectionKeepsAgentsReachable ==
    ~LateDetection => (Spec => []LiveAgentReachable)
<1> SUFFICES ASSUME ~LateDetection PROVE Spec => []LiveAgentReachable
  OBVIOUS
<1>1. Inductive => LiveAgentReachable
  BY DEF Inductive, ReachableIfPrompt
<1>2. QED
  BY <1>1, InductiveHolds, PTL

\* Under the same condition a connected and registered machine is never shown
\* OffLine: what MachineStatusToNormal or AddNewMachine wrote is not undone by
\* the listener of an earlier connection, nor by an operator's request.
THEOREM PromptDetectionKeepsMachinesShown ==
    ~LateDetection => (Spec => []RegisteredNotOffline)
<1> SUFFICES ASSUME ~LateDetection PROVE Spec => []RegisteredNotOffline
  OBVIOUS
<1>1. Inductive => RegisteredNotOffline
  BY DEF Inductive, ShownIfPrompt
<1>2. QED
  BY <1>1, InductiveHolds, PTL

\* A row keeps its department through every registration and every listener's
\* write; an operator's request that holds the row is the only thing that
\* changes it.
THEOREM DepartmentsChangeByRequestOnly == Spec => RegistrationKeepsDepart
<1> DEFINE Kept == \A i \in RowId :
        (table[i].uuid # Nobody /\ table'[i].uuid # Nobody)
            => \/ table'[i].dept = table[i].dept
               \/ \E o \in Operator : i \in request[o].todo
<1>1. Inductive /\ [Next]_vars => [Kept]_vars
  <2> SUFFICES ASSUME TypeOK, FreshRows, [Next]_vars PROVE Kept
    BY DEF Inductive
  <2> USE FleetAssumption DEF TypeOK, dbVars, RowId, Row
  <2>1. CASE UNCHANGED table
    BY <2>1
  <2>2. ASSUME NEW c \in Conn, MarkOnline(c) PROVE Kept
    BY <2>2 DEF MarkOnline, SetState
  <2>3. ASSUME NEW c \in Conn, AddRow(c) PROVE Kept
    BY <2>3 DEF AddRow, FreshRows
  <2>4. ASSUME NEW c \in Conn, MarkOffline(c) PROVE Kept
    BY <2>4 DEF MarkOffline, SetState
  <2>5. ASSUME NEW o \in Operator, MoveWrites(o) PROVE Kept
    BY <2>5 DEF MoveWrites
  <2>6. ASSUME NEW o \in Operator, NEW i \in RowId, ClearWrites(o, i) PROVE Kept
    BY <2>6 DEF ClearWrites
  <2>7. ASSUME NEW u \in Machine, DeleteMachine(u) PROVE Kept
    BY <2>7 DEF DeleteMachine, EmptyRow
  <2>8. QED
    BY <2>1, <2>2, <2>3, <2>4, <2>5, <2>6, <2>7
    DEF Next, AcceptLoop, Listener, Network, Http, InitPanics, ServerStops,
        vars, procVars, Accept, Named, StoreAgent, LookUp, CheckRow, ReadDepart,
        RegisterFails, ListenerReads, ReadsBehind, NoticeArrives,
        ReadFails, DropFromMap, LinkBreaks, Dial,
        AgentAnswers, RequestFails, MoveReads, ClearReads, ProcessEnds,
        ServerStarts
<1>2. QED
  BY <1>1, InductiveHolds, PTL DEF Spec, RegistrationKeepsDepart
===============================================================================
