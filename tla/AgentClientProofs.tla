--------------------------- MODULE AgentClientProofs --------------------------
(***************************************************************************)
(* Proofs about AgentClient, for every number of connections and messages  *)
(* and every capacity of the channel.                                      *)
(***************************************************************************)
EXTENDS AgentClient, FiniteSetTheorems, TLAPS

\* What has been dialled has a sender and a reader, and nothing else has; the
\* connection Run holds, and only that one, can still be open.
Held ==
    /\ \A c \in Conn : /\ (net[c] = "none") <=> (c > current)
                       /\ (sender[c] = "none") <=> (c > current)
                       /\ (reader[c] = "none") <=> (c > current)
                       /\ net[c] \in {"up", "broken"} => c = current /\ run # "dialing"
    /\ run # "dialing" => current > 0 /\ net[current] \in {"up", "broken"}

\* While no write has failed, Run has received the error of the reader of every
\* connection it left, and closes only what broke.
Matched ==
    /\ spurious = {}
    /\ \A c \in Conn : c < current => reader[c] = "gone"
    /\ current > 0 =>
          /\ run = "waiting" => \/ reader[current] = "running"
                                \/ reader[current] = "exiting" /\ net[current] = "broken"
          /\ run = "closing" => reader[current] = "gone" /\ net[current] = "broken"
          /\ run = "dialing" => reader[current] = "gone"

Inductive == TypeOK /\ Held /\ (~SenderFailed => Matched)

\* Nothing has been dialled yet.
LEMMA InductiveInit == Init => Inductive
BY ClientAssumption DEF Init, Inductive, TypeOK, Held, Matched, Conn, Goroutine

\* No step leaves the types, and messageChan keeps to its capacity; Run closes
\* a connection that exists.
LEMMA TypeStep == TypeOK /\ Held /\ [Next]_vars => TypeOK'
<1> SUFFICES ASSUME TypeOK, Held, [Next]_vars PROVE TypeOK'
  OBVIOUS
<1> USE ClientAssumption DEF TypeOK, Conn, Goroutine
<1>1. CASE Connect
  BY <1>1 DEF Connect
<1>2. CASE Break
  BY <1>2 DEF Break
<1>3. CASE Send
  BY <1>3 DEF Send
<1>4. CASE ExitReceived
  BY <1>4 DEF ExitReceived
<1>5. CASE Close
  <2>1. current \in Conn
    BY <1>5 DEF Close, Held
  <2>2. QED
    BY <1>5, <2>1 DEF Close
<1>6. ASSUME NEW s \in Conn, Write(s) PROVE TypeOK'
  BY <1>6 DEF Write
<1>7. ASSUME NEW c \in Conn, ReadFails(c) PROVE TypeOK'
  BY <1>7 DEF ReadFails
<1>8. CASE UNCHANGED vars
  BY <1>8 DEF vars
<1> HIDE DEF TypeOK
<1>9. QED
  BY <1>1, <1>2, <1>3, <1>4, <1>5, <1>6, <1>7, <1>8 DEF Next

\* Connect is the only step that opens a connection, and Run has closed the one
\* before.
LEMMA HeldStep == TypeOK /\ Held /\ [Next]_vars => Held'
<1> SUFFICES ASSUME TypeOK, Held, [Next]_vars PROVE Held'
  OBVIOUS
<1> USE ClientAssumption DEF TypeOK, Conn, Goroutine
<1>1. CASE Connect
  BY <1>1 DEF Connect, Held
<1>2. CASE Break
  BY <1>2 DEF Break, Held
<1>3. CASE Send
  BY <1>3 DEF Send, Held
<1>4. CASE ExitReceived
  BY <1>4 DEF ExitReceived, Held
<1>5. CASE Close
  BY <1>5 DEF Close, Held
<1>6. ASSUME NEW s \in Conn, Write(s) PROVE Held'
  BY <1>6 DEF Write, Held
<1>7. ASSUME NEW c \in Conn, ReadFails(c) PROVE Held'
  BY <1>7 DEF ReadFails, Held
<1>8. CASE UNCHANGED vars
  BY <1>8 DEF vars, Held
<1> HIDE DEF TypeOK
<1>9. QED
  BY <1>1, <1>2, <1>3, <1>4, <1>5, <1>6, <1>7, <1>8 DEF Next

\* A failed write is never forgotten, and without one the only goroutine that
\* ends a Run is the reader of its own connection.
LEMMA MatchedStep ==
    TypeOK /\ Held /\ (~SenderFailed => Matched) /\ [Next]_vars
        => (~SenderFailed => Matched)'
<1> SUFFICES ASSUME TypeOK, Held, ~SenderFailed => Matched, [Next]_vars, ~SenderFailed'
             PROVE  Matched'
  OBVIOUS
<1> USE ClientAssumption DEF TypeOK, Conn, Goroutine
<1>1. CASE Connect
  BY <1>1 DEF Connect, Held, SenderFailed, Matched
<1>2. CASE Break
  BY <1>2 DEF Break, Held, SenderFailed, Matched
<1>3. CASE Send
  BY <1>3 DEF Send, SenderFailed, Matched
<1>4. CASE ExitReceived
  <2>1. ~SenderFailed
    BY <1>4 DEF ExitReceived, SenderFailed
  <2>2. PICK c \in Conn : reader[c] = "exiting" /\ reader' = [reader EXCEPT ![c] = "gone"]
    BY <1>4, <2>1 DEF ExitReceived, SenderFailed
  <2>3. c = current
    BY <1>4, <2>1, <2>2 DEF ExitReceived, Held, Matched
  <2>4. QED
    BY <1>4, <2>1, <2>2, <2>3 DEF ExitReceived, Held, Matched
<1>5. CASE Close
  BY <1>5 DEF Close, Held, SenderFailed, Matched
<1>6. ASSUME NEW s \in Conn, Write(s) PROVE Matched'
  BY <1>6 DEF Write, SenderFailed, Matched
<1>7. ASSUME NEW c \in Conn, ReadFails(c) PROVE Matched'
  BY <1>7 DEF ReadFails, Held, SenderFailed, Matched
<1>8. CASE UNCHANGED vars
  BY <1>8 DEF vars, SenderFailed, Matched
<1> HIDE DEF TypeOK
<1>9. QED
  BY <1>1, <1>2, <1>3, <1>4, <1>5, <1>6, <1>7, <1>8 DEF Next

\* The invariant holds in every state.
LEMMA InductiveHolds == Spec => []Inductive
<1>1. Inductive /\ [Next]_vars => Inductive'
  BY TypeStep, HeldStep, MatchedStep DEF Inductive
<1>2. QED
  BY InductiveInit, <1>1, PTL DEF Spec

\* Type correctness of the reconnect loop, its goroutines and its channel.
THEOREM TypeCorrect == Spec => []TypeOK
<1>1. Inductive => TypeOK
  BY DEF Inductive
<1>2. QED
  BY <1>1, InductiveHolds, PTL

\* The agent closes every connection it leaves: at any time at most the one in
\* the conn field is open.
THEOREM AtMostOneConnection == Spec => []OneConnection
<1>1. Inductive => OneConnection
  BY DEF Inductive, Held, OneConnection
<1>2. QED
  BY <1>1, InductiveHolds, PTL

\* The shared exitChan misleads Run only after a write has failed: until then
\* a connection is closed only because it broke.
THEOREM ReadersAloneNeverMislead == Spec => []ReadErrorsMatchRuns
<1>1. Inductive => ReadErrorsMatchRuns
  BY DEF Inductive, Matched, ReadErrorsMatchRuns
<1>2. QED
  BY <1>1, InductiveHolds, PTL

------------------------------------------------------------------------------
\* The leftovers on exitChan.

In(goroutine, state) == {c \in Conn : goroutine[c] = state}

\* Run has received as many exits as it has left connections.
Counted ==
    Cardinality(In(sender, "gone")) + Cardinality(In(reader, "gone"))
        = IF run = "waiting" THEN current - 1 ELSE current

\* The goroutines in a state are finitely many.
LEMMA Finite ==
    ASSUME NEW T \in SUBSET Conn
    PROVE  IsFiniteSet(T) /\ Cardinality(T) \in Nat
<1>1. IsFiniteSet(Conn)
  BY FS_Interval, ClientAssumption DEF Conn
<1>2. QED
  BY <1>1, FS_Subset, FS_CardinalityType

\* A goroutine that goes makes those that are gone one more.
LEMMA OneMoreGone ==
    ASSUME NEW g \in [Conn -> Goroutine], NEW c \in Conn, g[c] = "exiting"
    PROVE  Cardinality(In([g EXCEPT ![c] = "gone"], "gone")) = Cardinality(In(g, "gone")) + 1
<1>1. In([g EXCEPT ![c] = "gone"], "gone") = In(g, "gone") \cup {c} /\ c \notin In(g, "gone")
  BY DEF In, Goroutine
<1>2. IsFiniteSet(In(g, "gone"))
  BY Finite DEF In
<1>3. QED
  BY <1>1, <1>2, FS_AddElement

\* Nobody has gone before the first connection.
LEMMA CountedInit == Init => Counted
<1> SUFFICES ASSUME Init PROVE Counted
  OBVIOUS
<1>1. In(sender, "gone") = {} /\ In(reader, "gone") = {} /\ run = "dialing" /\ current = 0
  BY DEF Init, In
<1>2. QED
  BY <1>1, FS_EmptySet DEF Counted

\* Only a receive of Run lets a goroutine go, and each Run receives once.
LEMMA CountedStep == TypeOK /\ Held /\ Counted /\ [Next]_vars => Counted'
<1> SUFFICES ASSUME TypeOK, Held, Counted, [Next]_vars PROVE Counted'
  OBVIOUS
<1> DEFINE S == In(sender, "gone")
           R == In(reader, "gone")
<1>1. /\ sender \in [Conn -> Goroutine] /\ reader \in [Conn -> Goroutine]
      /\ current \in Nat /\ run \in {"dialing", "waiting", "closing"}
  BY ClientAssumption DEF TypeOK
<1>2. Cardinality(S) \in Nat /\ Cardinality(R) \in Nat
  BY Finite DEF In
<1>3. Cardinality(S) + Cardinality(R) = IF run = "waiting" THEN current - 1 ELSE current
  BY DEF Counted
<1>4. CASE Connect
  <2>1. In(sender, "gone")' = S /\ In(reader, "gone")' = R
    <3>1. \A c \in Conn : c > current => sender[c] = "none" /\ reader[c] = "none"
      BY DEF Held
    <3>2. current + 1 \in Conn /\ current + 1 > current
      BY <1>1, <1>4, ClientAssumption DEF Connect, Conn
    <3>3. QED
      BY <1>1, <1>4, <3>1, <3>2 DEF Connect, In
  <2>2. run = "dialing" /\ run' = "waiting" /\ current' = current + 1
    BY <1>4 DEF Connect
  <2>3. QED
    BY <1>1, <1>2, <1>3, <2>1, <2>2 DEF Counted
<1>5. CASE ExitReceived
  <2>1. run = "waiting" /\ run' = "closing" /\ current' = current
    BY <1>5 DEF ExitReceived
  <2>2. ASSUME NEW s \in Conn, sender[s] = "exiting",
               sender' = [sender EXCEPT ![s] = "gone"], reader' = reader
        PROVE  Counted'
    <3>1. Cardinality(In(sender', "gone")) = Cardinality(S) + 1
      BY <1>1, <2>2, OneMoreGone
    <3>2. In(sender, "gone")' = In(sender', "gone") /\ In(reader, "gone")' = R
      BY <2>2 DEF In
    <3>3. QED
      BY <1>1, <1>2, <1>3, <2>1, <3>1, <3>2 DEF Counted
  <2>3. ASSUME NEW c \in Conn, reader[c] = "exiting",
               reader' = [reader EXCEPT ![c] = "gone"], sender' = sender
        PROVE  Counted'
    <3>1. Cardinality(In(reader', "gone")) = Cardinality(R) + 1
      BY <1>1, <2>3, OneMoreGone
    <3>2. In(reader, "gone")' = In(reader', "gone") /\ In(sender, "gone")' = S
      BY <2>3 DEF In
    <3>3. QED
      BY <1>1, <1>2, <1>3, <2>1, <3>1, <3>2 DEF Counted
  <2>4. QED
    BY <1>5, <2>2, <2>3 DEF ExitReceived
<1>6. CASE Close
  <2>1. /\ In(sender, "gone")' = S /\ In(reader, "gone")' = R
        /\ run = "closing" /\ run' = "dialing" /\ current' = current
    BY <1>6 DEF Close, In
  <2>2. QED
    BY <1>3, <2>1 DEF Counted
<1>7. CASE Break \/ Send \/ UNCHANGED vars
  <2>1. UNCHANGED <<sender, reader, run, current>>
    BY <1>7 DEF Break, Send, vars
  <2>2. QED
    BY <2>1 DEF Counted, In
<1>8. ASSUME NEW s \in Conn, Write(s) PROVE Counted'
  <2>1. In(sender, "gone")' = S /\ In(reader, "gone")' = R /\ UNCHANGED <<run, current>>
    BY <1>1, <1>8 DEF Write, In
  <2>2. QED
    BY <2>1 DEF Counted
<1>9. ASSUME NEW c \in Conn, ReadFails(c) PROVE Counted'
  <2>1. In(sender, "gone")' = S /\ In(reader, "gone")' = R /\ UNCHANGED <<run, current>>
    BY <1>1, <1>9 DEF ReadFails, In
  <2>2. QED
    BY <2>1 DEF Counted
<1>10. QED
  BY <1>4, <1>5, <1>6, <1>7, <1>8, <1>9 DEF Next

\* The readers blocked on exitChan, as members of Exiting.
Blocked == {MaxConns + c : c \in In(reader, "exiting")}

\* Numbering them anew does not make them more.
LEMMA BlockedReaders == IsFiniteSet(Blocked) /\ Cardinality(Blocked) <= Cardinality(In(reader, "exiting"))
<1> DEFINE T == In(reader, "exiting")
           f == [x \in Blocked |-> x - MaxConns]
<1>1. \A c \in T : c \in Nat /\ (MaxConns + c) - MaxConns = c
  BY ClientAssumption DEF In, Conn
<1>2. \A x \in Blocked : x - MaxConns \in T /\ x = MaxConns + (x - MaxConns)
  BY <1>1 DEF Blocked
<1>3. f \in Injection(Blocked, T)
  <2>1. f \in [Blocked -> T]
    BY <1>2
  <2>2. \A x, y \in Blocked : f[x] = f[y] => x = y
    BY <1>2
  <2>3. QED
    BY <2>1, <2>2 DEF Injection, IsInjective
<1>4. IsFiniteSet(T)
  BY Finite DEF In
<1>5. QED
  BY <1>3, <1>4, FS_Injection

\* A reader is blocked for each connection left whose Run a sender ended, and
\* perhaps for the last one.
LEMMA FewLeftovers == TypeOK /\ Held /\ Counted => LeftoverExits
<1> SUFFICES ASSUME TypeOK, Held, Counted PROVE LeftoverExits
  OBVIOUS
<1> DEFINE SE == In(sender, "exiting")
           SG == In(sender, "gone")
           RE == In(reader, "exiting")
           RG == In(reader, "gone")
<1>1. /\ IsFiniteSet(SE) /\ IsFiniteSet(SG) /\ IsFiniteSet(RE) /\ IsFiniteSet(RG)
      /\ Cardinality(SE) \in Nat /\ Cardinality(SG) \in Nat
      /\ Cardinality(RE) \in Nat /\ Cardinality(RG) \in Nat
  BY Finite DEF In
<1>2. current \in Nat
  BY ClientAssumption DEF TypeOK
<1>3. Cardinality(RE) + Cardinality(RG) <= current
  <2>1. RE \cap RG = {} /\ RE \cup RG \subseteq 1 .. current
    BY <1>2, ClientAssumption DEF In, Held, Conn
  <2>2. Cardinality(RE \cup RG) = Cardinality(RE) + Cardinality(RG)
    BY <1>1, <2>1, FS_Union, FS_EmptySet
  <2>3. IsFiniteSet(1 .. current) /\ Cardinality(1 .. current) = current
    BY <1>2, FS_Interval
  <2>4. QED
    BY <2>1, <2>2, <2>3, FS_Subset
<1>4. Cardinality(SG) + Cardinality(RG) >= current - 1
  BY <1>1, <1>2 DEF Counted
<1>5. Cardinality(RE) <= Cardinality(SG) + 1
  BY <1>1, <1>2, <1>3, <1>4
<1>6. Cardinality(Failures) = Cardinality(SE) + Cardinality(SG)
  <2>1. Failures = SE \cup SG /\ SE \cap SG = {}
    BY DEF Failures, In
  <2>2. Cardinality(SE \cup SG) = Cardinality(SE) + Cardinality(SG) - Cardinality(SE \cap SG)
    BY <1>1, FS_Union
  <2>3. Cardinality(SE \cap SG) = 0
    BY <2>1, FS_EmptySet
  <2>4. QED
    BY <1>1, <2>1, <2>2, <2>3
<1>7. Cardinality(Exiting) <= Cardinality(SE) + Cardinality(RE)
  <2>1. Exiting = SE \cup Blocked
    BY DEF Exiting, Blocked, In
  <2>2. /\ IsFiniteSet(Blocked) /\ Cardinality(Blocked) <= Cardinality(RE)
        /\ Cardinality(Blocked) \in Nat
    BY BlockedReaders, FS_CardinalityType
  <2>3. Cardinality(SE \cup Blocked) = Cardinality(SE) + Cardinality(Blocked) - Cardinality(SE \cap Blocked)
    BY <1>1, <2>2, FS_Union
  <2>4. Cardinality(SE \cap Blocked) \in Nat
    BY <1>1, FS_Intersection, FS_CardinalityType
  <2>5. QED
    BY <1>1, <2>1, <2>2, <2>3, <2>4
<1>8. Cardinality(Exiting) <= Cardinality(Failures) + 1
  <2>1. IsFiniteSet(Exiting) /\ Cardinality(Exiting) \in Nat
    <3>1. Exiting = SE \cup Blocked
      BY DEF Exiting, Blocked, In
    <3>2. QED
      BY <1>1, <3>1, BlockedReaders, FS_Union, FS_CardinalityType
  <2>2. QED
    BY <1>1, <1>5, <1>6, <1>7, <2>1
<1>9. QED
  BY <1>8 DEF LeftoverExits

\* No more goroutines are blocked on exitChan than writes have failed, and one:
\* the leftovers that can end a later Run do not pile up by themselves, however
\* many connections the agent goes through.
THEOREM LeftoversAreFew == Spec => []LeftoverExits
<1>1. Counted /\ Inductive /\ [Next]_vars => Counted'
  BY CountedStep DEF Inductive
<1>2. Inductive /\ Counted => LeftoverExits
  BY FewLeftovers DEF Inductive
<1>3. QED
  BY CountedInit, InductiveHolds, <1>1, <1>2, PTL DEF Spec
=============================================================================
