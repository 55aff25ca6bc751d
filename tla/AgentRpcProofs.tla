---------------------------- MODULE AgentRpcProofs ---------------------------
(***************************************************************************)
(* Proofs about AgentRpc, for every set of calls, every capacity of the    *)
(* channels and any number of frames in a Read, and that it implements     *)
(* RpcContract.                                                            *)
(***************************************************************************)
EXTENDS AgentRpc, FiniteSetTheorems, FunctionTheorems, SequenceTheorems, TLAPS

------------------------------------------------------------------------------
\* How often a frame is in a sequence.

At(s, k) == {i \in DOMAIN s : s[i] = k}
One(condition) == IF condition THEN 1 ELSE 0

\* Count is a number, and zero where the frame is not.
LEMMA CountType ==
    ASSUME NEW S, NEW s \in Seq(S), NEW k
    PROVE  /\ IsFiniteSet(At(s, k))
           /\ Count(s, k) \in Nat
           /\ Count(s, k) = Cardinality(At(s, k))
           /\ Count(s, k) > 0 <=> k \in Range(s)
<1>1. At(s, k) \in SUBSET (1 .. Len(s))
  BY DEF At
<1>2. IsFiniteSet(1 .. Len(s)) /\ Len(s) \in Nat
  BY FS_Interval
<1>3. IsFiniteSet(At(s, k))
  BY <1>1, <1>2, FS_Subset
<1>4. Cardinality(At(s, k)) \in Nat /\ (Cardinality(At(s, k)) = 0 <=> At(s, k) = {})
  BY <1>3, FS_CardinalityType, FS_EmptySet
<1>5. At(s, k) # {} <=> k \in Range(s)
  BY DEF At, Range
<1>6. Count(s, k) = Cardinality(At(s, k))
  BY DEF Count, At
<1>7. QED
  BY <1>3, <1>4, <1>5, <1>6

\* It is not in the empty sequence.
LEMMA CountEmpty ==
    ASSUME NEW k
    PROVE  Count(<< >>, k) = 0
<1>1. {i \in DOMAIN << >> : << >>[i] = k} = {}
  OBVIOUS
<1>2. QED
  BY <1>1, FS_EmptySet DEF Count

\* In two sequences, one behind the other, it is as often as in both.
LEMMA CountConcat ==
    ASSUME NEW S, NEW s \in Seq(S), NEW t \in Seq(S), NEW k
    PROVE  Count(s \o t, k) = Count(s, k) + Count(t, k)
<1> DEFINE n == Len(s)
           moved == {j \in n + 1 .. n + Len(t) : t[j - n] = k}
           f == [i \in At(t, k) |-> i + n]
<1>1. n \in Nat /\ Len(t) \in Nat /\ s \o t \in Seq(S) /\ Len(s \o t) = n + Len(t)
  BY ConcatProperties
<1>2. \A i \in 1 .. n + Len(t) : (s \o t)[i] = IF i <= n THEN s[i] ELSE t[i - n]
  BY ConcatProperties
<1>3. At(s \o t, k) = At(s, k) \cup moved
  <2>1. DOMAIN (s \o t) = 1 .. n + Len(t) /\ DOMAIN s = 1 .. n
    BY <1>1
  <2>2. QED
    BY <1>1, <1>2, <2>1 DEF At
<1>4. At(s, k) \cap moved = {}
  BY <1>1 DEF At
<1>5. ExistsBijection(At(t, k), moved)
  <2>1. f \in [At(t, k) -> moved]
    BY <1>1 DEF At
  <2>2. \A i, j \in At(t, k) : f[i] = f[j] => i = j
    BY <1>1 DEF At
  <2>3. \A j \in moved : \E i \in At(t, k) : f[i] = j
    <3> SUFFICES ASSUME NEW j \in moved PROVE \E i \in At(t, k) : f[i] = j
      OBVIOUS
    <3>1. j - n \in At(t, k) /\ f[j - n] = j
      BY <1>1 DEF At
    <3>2. QED
      BY <3>1
  <2>4. f \in Bijection(At(t, k), moved)
    BY <2>1, <2>2, <2>3, Fun_IsBij
  <2>5. QED
    BY <2>4 DEF ExistsBijection
<1>6. IsFiniteSet(moved) /\ Cardinality(moved) = Count(t, k)
  BY <1>5, CountType, FS_Bijection
<1>7. IsFiniteSet(At(s, k)) /\ Cardinality(At(s, k)) = Count(s, k)
  BY CountType
<1>8. Cardinality(At(s, k) \cup moved) = Count(s, k) + Count(t, k)
  <2>1. Cardinality(At(s, k) \cup moved)
           = Cardinality(At(s, k)) + Cardinality(moved) - Cardinality(At(s, k) \cap moved)
    <3> HIDE DEF moved
    <3>1. QED
      BY <1>6, <1>7, FS_Union
  <2>2. Cardinality(At(s, k) \cap moved) = 0
    BY <1>4, FS_EmptySet
  <2>3. Count(s, k) \in Nat /\ Count(t, k) \in Nat
    BY CountType
  <2> HIDE DEF moved
  <2>4. QED
    BY <1>6, <1>7, <2>1, <2>2, <2>3
<1>9. QED
  BY <1>1, <1>3, <1>8, CountType

\* A sequence of one holds what it is made of.
LEMMA CountOne ==
    ASSUME NEW e, NEW k
    PROVE  Count(<<e>>, k) = One(e = k)
<1>1. {i \in DOMAIN <<e>> : <<e>>[i] = k} = IF e = k THEN {1} ELSE {}
  OBVIOUS
<1>2. QED
  BY <1>1, FS_EmptySet, FS_Singleton DEF Count, One

\* What a channel or a stream takes in and gives out.
LEMMA CountAppend ==
    ASSUME NEW S, NEW s \in Seq(S), NEW e \in S, NEW k
    PROVE  Count(Append(s, e), k) = Count(s, k) + One(e = k)
<1>1. Append(s, e) = s \o <<e>> /\ <<e>> \in Seq(S)
  BY AppendIsConcat
<1>2. Count(s \o <<e>>, k) = Count(s, k) + Count(<<e>>, k)
  BY <1>1, CountConcat
<1>3. QED
  BY <1>1, <1>2, CountOne

\* Taking the head off takes one of it.
LEMMA CountTail ==
    ASSUME NEW S, NEW s \in Seq(S), s # << >>, NEW k
    PROVE  /\ Head(s) \in S /\ Tail(s) \in Seq(S)
           /\ Count(s, k) = Count(Tail(s), k) + One(Head(s) = k)
<1>1. Head(s) \in S /\ Tail(s) \in Seq(S) /\ <<Head(s)>> \in Seq(S)
  BY HeadTailProperties
<1>2. s = <<Head(s)>> \o Tail(s)
  OBVIOUS
<1>3. Count(<<Head(s)>> \o Tail(s), k) = Count(<<Head(s)>>, k) + Count(Tail(s), k)
  BY <1>1, CountConcat
<1>4. Count(Tail(s), k) \in Nat /\ Count(<<Head(s)>>, k) = One(Head(s) = k)
  BY <1>1, CountType, CountOne
<1>5. Count(s, k) = Count(<<Head(s)>> \o Tail(s), k)
  BY ONLY <1>2, Zenon
<1>6. Count(s, k) = One(Head(s) = k) + Count(Tail(s), k)
  BY ONLY <1>3, <1>4, <1>5, Zenon
<1>7. One(Head(s) = k) \in Nat
  BY DEF One
<1>8. QED
  BY ONLY <1>1, <1>4, <1>6, <1>7

\* A Read takes the first n frames off the stream.
LEMMA CountSplit ==
    ASSUME NEW S, NEW s \in Seq(S), NEW n \in 1 .. Len(s), NEW k
    PROVE  /\ SubSeq(s, 1, n) \in Seq(S) /\ SubSeq(s, 1, n) # << >>
           /\ SubSeq(s, n + 1, Len(s)) \in Seq(S)
           /\ Count(s, k) = Count(SubSeq(s, 1, n), k) + Count(SubSeq(s, n + 1, Len(s)), k)
<1>1. Len(s) \in Nat /\ \A i \in 1 .. Len(s) : s[i] \in S
  BY ElementOfSeq
<1>2. SubSeq(s, 1, n) \in Seq(S) /\ Len(SubSeq(s, 1, n)) = n
  BY <1>1, SubSeqProperties
<1>3. SubSeq(s, n + 1, Len(s)) \in Seq(S)
  BY <1>1, SubSeqProperties
<1>4. SubSeq(s, 1, n) \o SubSeq(s, n + 1, Len(s)) = s
  <2>1. SubSeq(s, 1, n) \o SubSeq(s, n + 1, Len(s)) = SubSeq(s, 1, Len(s))
    BY <1>1, ConcatAdjacentSubSeq
  <2>2. QED
    BY <2>1, SubSeqFull
<1>5. SubSeq(s, 1, n) # << >>
  BY <1>2
<1>6. Count(SubSeq(s, 1, n) \o SubSeq(s, n + 1, Len(s)), k)
         = Count(SubSeq(s, 1, n), k) + Count(SubSeq(s, n + 1, Len(s)), k)
  BY <1>2, <1>3, CountConcat
<1>7. QED
  BY <1>2, <1>3, <1>4, <1>5, <1>6
------------------------------------------------------------------------------
\* The invariant.

\* How often message k is on its way as a request, and as an answer.
Sent(k) == Count(queue, k) + Count(toAgent, k) + One(k \in running)
Back(k) == Count(agentQueue, k) + Count(toServer, k) + Count(readBuff, k)
             + One(k \in replying) + One(k \in delivering)

\* A call that waits has one message in the system, or at most one when the
\* connection has broken; a call that does not wait has none.
Single(k) ==
    /\ Sent(k) + Back(k) <= 1
    /\ pc[k] # "waiting" => Sent(k) + Back(k) = 0
    /\ link /\ pc[k] = "waiting" => Sent(k) + Back(k) = 1

\* The handler has not run while the request is on its way, and has when the
\* answer is.
Carried(k) ==
    /\ Sent(k) > 0 => outcome[k] = "none"
    /\ Back(k) > 0 => outcome[k] # "none"
    /\ pc[k] \in {"idle", "stored"} => outcome[k] = "none"

\* A call that has been sent is in the WaitMap, and has a result when it is done.
Awaited(k) ==
    /\ pc[k] # "idle" => k \in waitMap
    /\ result[k] # "none" => pc[k] = "done"

Flow == \A k \in Call : Single(k) /\ Carried(k) /\ Awaited(k)

Inductive == TypeOK /\ Flow

\* What is counted are numbers.
LEMMA Counted ==
    ASSUME TypeOK, NEW k \in Call
    PROVE  /\ Count(queue, k) \in Nat /\ Count(toAgent, k) \in Nat
           /\ Count(agentQueue, k) \in Nat /\ Count(toServer, k) \in Nat
           /\ Count(readBuff, k) \in Nat
           /\ Sent(k) \in Nat /\ Back(k) \in Nat
<1>1. Count(queue, k) \in Nat /\ Count(toAgent, k) \in Nat
  BY CountType DEF TypeOK
<1>2. Count(agentQueue, k) \in Nat /\ Count(toServer, k) \in Nat /\ Count(readBuff, k) \in Nat
  BY CountType DEF TypeOK
<1>3. QED
  BY <1>1, <1>2 DEF Sent, Back, One

\* So are they after a step.
LEMMA CountedNext ==
    ASSUME TypeOK', NEW k \in Call
    PROVE  /\ Count(queue', k) \in Nat /\ Count(toAgent', k) \in Nat
           /\ Count(agentQueue', k) \in Nat /\ Count(toServer', k) \in Nat
           /\ Count(readBuff', k) \in Nat
           /\ Sent(k)' \in Nat /\ Back(k)' \in Nat
<1>1. Count(queue', k) \in Nat /\ Count(toAgent', k) \in Nat
  BY CountType DEF TypeOK
<1>2. Count(agentQueue', k) \in Nat /\ Count(toServer', k) \in Nat /\ Count(readBuff', k) \in Nat
  BY CountType DEF TypeOK
<1>3. QED
  BY <1>1, <1>2 DEF Sent, Back, One

\* Sets without a common element add up.
LEMMA DisjointUnion ==
    ASSUME NEW A, NEW B, IsFiniteSet(A), IsFiniteSet(B), A \cap B = {}
    PROVE  IsFiniteSet(A \cup B) /\ Cardinality(A \cup B) = Cardinality(A) + Cardinality(B)
<1>1. Cardinality(A \cap B) = 0
  BY FS_EmptySet
<1>2. Cardinality(A) \in Nat /\ Cardinality(B) \in Nat
  BY FS_CardinalityType
<1>3. /\ IsFiniteSet(A \cup B)
      /\ Cardinality(A \cup B) = Cardinality(A) + Cardinality(B) - Cardinality(A \cap B)
  BY ONLY IsFiniteSet(A), IsFiniteSet(B), FS_Union, Zenon
<1>4. QED
  BY <1>1, <1>2, <1>3

\* Copies is what is on its way there and back.
LEMMA CopiesAreSentAndBack ==
    ASSUME TypeOK, NEW k \in Call
    PROVE  Copies(k) = Sent(k) + Back(k)
<1> DEFINE at(i, S) == IF k \in S THEN {<<i, S>>} ELSE {}
           places == {S \in {<<1, running>>, <<2, replying>>, <<3, delivering>>} : k \in S[2]}
<1>1. places = (at(1, running) \cup at(2, replying)) \cup at(3, delivering)
  OBVIOUS
<1> DEFINE A == at(1, running)
           B == at(2, replying)
           C == at(3, delivering)
<1>2. /\ IsFiniteSet(A) /\ Cardinality(A) = One(k \in running)
      /\ IsFiniteSet(B) /\ Cardinality(B) = One(k \in replying)
      /\ IsFiniteSet(C) /\ Cardinality(C) = One(k \in delivering)
  BY FS_EmptySet, FS_Singleton DEF One
<1>3. A \cap B = {} /\ (A \cup B) \cap C = {}
  OBVIOUS
<1>4. places = (A \cup B) \cup C
  BY <1>1
<1> HIDE DEF at, places, A, B, C
<1>5. IsFiniteSet(A \cup B) /\ Cardinality(A \cup B) = One(k \in running) + One(k \in replying)
  BY <1>2, <1>3, DisjointUnion
<1>6. Cardinality(places) = One(k \in running) + One(k \in replying) + One(k \in delivering)
  <2>1. Cardinality((A \cup B) \cup C) = Cardinality(A \cup B) + Cardinality(C)
    BY <1>2, <1>3, <1>5, DisjointUnion
  <2>2. QED
    BY <1>2, <1>4, <1>5, <2>1
<1>7. Copies(k) = Count(queue, k) + Count(toAgent, k) + Count(agentQueue, k)
                    + Count(toServer, k) + Count(readBuff, k) + Cardinality(places)
  BY DEF Copies, places
<1>8. QED
  BY <1>6, <1>7, Counted DEF Sent, Back, One

\* Nothing has been sent yet.
LEMMA InductiveInit == Init => Inductive
<1> SUFFICES ASSUME Init PROVE Inductive
  OBVIOUS
<1>1. TypeOK
  <2>1. \A S : << >> \in Seq(S) /\ Len(<< >>) = 0
    OBVIOUS
  <2>2. QED
    BY <2>1, RpcAssumption DEF Init, TypeOK, Outcome
<1>2. ASSUME NEW k \in Call PROVE Sent(k) = 0 /\ Back(k) = 0
  BY CountEmpty DEF Init, Sent, Back, One
<1>3. QED
  BY <1>1, <1>2 DEF Inductive, Flow, Single, Carried, Awaited, Init

------------------------------------------------------------------------------
\* The types are kept, and with them the capacities of the two channels.
LEMMA TypeStep == TypeOK /\ [Next]_vars => TypeOK'
<1> SUFFICES ASSUME TypeOK, [Next]_vars PROVE TypeOK'
  OBVIOUS
<1> USE RpcAssumption DEF TypeOK, Frame, Outcome, serverVars, agentVars
<1>1. ASSUME NEW k \in Call, Ask(k) PROVE TypeOK'
  <2>1. CASE pc[k] = "idle"
    BY <1>1, <2>1 DEF Ask
  <2>2. CASE pc[k] = "stored"
    <3>1. /\ queue' = Append(queue, k) /\ Len(queue) < ServerCap
          /\ pc' = [pc EXCEPT ![k] = "waiting"]
      BY <1>1, <2>2 DEF Ask
    <3>2. queue' \in Seq(Call) /\ Len(queue') <= ServerCap
      BY <3>1
    <3>3. QED
      BY <1>1, <2>2, <3>1, <3>2 DEF Ask
  <2>3. QED
    BY <1>1, <2>1, <2>2 DEF Ask
<1>2. CASE Forward
  BY <1>2 DEF Forward
<1>3. CASE AgentReads
  BY <1>3 DEF AgentReads
<1>4. ASSUME NEW k \in Call, NEW v \in Outcome, Handle(k, v) PROVE TypeOK'
  BY <1>4 DEF Handle
<1>5. ASSUME NEW k \in Call, Reply(k) PROVE TypeOK'
  BY <1>5 DEF Reply
<1>6. CASE Notify
  BY <1>6 DEF Notify
<1>7. CASE AgentSends
  BY <1>7 DEF AgentSends
<1>8. ASSUME NEW n \in 1 .. MaxFrames, ListenerReads(n) PROVE TypeOK'
  <2> DEFINE first == SubSeq(toServer, 1, n)
             buffered == readBuff \o first
  <2>1. n \in 1 .. Len(toServer)
    BY <1>8 DEF ListenerReads
  <2>2. first \in Seq(Frame) /\ first # << >> /\ SubSeq(toServer, n + 1, Len(toServer)) \in Seq(Frame)
    BY <2>1, CountSplit
  <2> HIDE DEF first
  <2>3. buffered \in Seq(Frame) /\ buffered # << >>
    BY <2>2, ConcatProperties, ConcatEqualIffEmpty
  <2> HIDE DEF buffered
  <2>4. Head(buffered) \in Frame /\ Tail(buffered) \in Seq(Frame)
    BY <2>3, HeadTailProperties
  <2>5. QED
    BY <1>8, <2>2, <2>4 DEF ListenerReads, buffered, first
<1>9. ASSUME NEW k \in Call, Deliver(k) PROVE TypeOK'
  BY <1>9 DEF Deliver, Waiter
<1>10. CASE LinkBreaks
  <2>1. << >> \in Seq(Call) /\ << >> \in Seq(Frame)
    OBVIOUS
  <2>2. QED
    BY <1>10, <2>1 DEF LinkBreaks
<1>11. CASE UNCHANGED vars
  BY <1>11 DEF vars
<1> HIDE DEF TypeOK
<1>12. QED
  BY <1>1, <1>2, <1>3, <1>4, <1>5, <1>6, <1>7, <1>8, <1>9, <1>10, <1>11
     DEF Next, Caller, Handler, Listen
------------------------------------------------------------------------------
\* Every action keeps a call's message one.

\* Frames only move on, or get lost with the connection.
LEMMA FlowKept ==
    ASSUME Inductive, UNCHANGED <<pc, waitMap, outcome, result>>,
           \A k \in Call : /\ Sent(k)' \in Nat /\ Back(k)' \in Nat
                           /\ Sent(k)' <= Sent(k) /\ Back(k)' <= Back(k),
           link' => link /\ \A k \in Call : Sent(k)' + Back(k)' = Sent(k) + Back(k)
    PROVE  Flow'
<1> SUFFICES ASSUME NEW k \in Call PROVE Single(k)' /\ Carried(k)' /\ Awaited(k)'
  BY DEF Flow
<1>1. Single(k) /\ Carried(k) /\ Awaited(k) /\ Sent(k) \in Nat /\ Back(k) \in Nat
  BY Counted DEF Inductive, Flow
<1> HIDE DEF Sent, Back
<1>2. Single(k)'
  BY <1>1 DEF Single
<1>3. Carried(k)'
  BY <1>1 DEF Carried
<1>4. Awaited(k)'
  BY <1>1 DEF Awaited
<1>5. QED
  BY <1>2, <1>3, <1>4

\* The same, of a step that moves a message on as long as there is a connection.
LEMMA MovedOn ==
    ASSUME Inductive, TypeOK', UNCHANGED <<pc, waitMap, outcome, result>>,
           link' => link,
           \A k \in Call : /\ Sent(k)' <= Sent(k) /\ Back(k)' <= Back(k)
                           /\ link' => Sent(k)' = Sent(k) /\ Back(k)' = Back(k)
    PROVE  Flow'
<1>1. \A k \in Call : /\ Sent(k)' \in Nat /\ Back(k)' \in Nat
                      /\ Sent(k)' <= Sent(k) /\ Back(k)' <= Back(k)
  BY CountedNext
<1>2. link' => link /\ \A k \in Call : Sent(k)' + Back(k)' = Sent(k) + Back(k)
  OBVIOUS
<1>3. QED
  BY <1>1, <1>2, FlowKept

\* A call that is made puts its first message on its way.
LEMMA AskStep ==
    ASSUME Inductive, TypeOK', NEW k \in Call, Ask(k)
    PROVE  Flow'
<1> SUFFICES ASSUME NEW j \in Call PROVE Single(j)' /\ Carried(j)' /\ Awaited(j)'
  BY DEF Flow
<1>1. /\ Single(j) /\ Carried(j) /\ Awaited(j) /\ Sent(j) \in Nat /\ Back(j) \in Nat
      /\ pc \in [Call -> {"idle", "stored", "waiting", "done"}]
  BY Counted DEF Inductive, Flow, TypeOK
<1>2. UNCHANGED <<outcome, result, link>> /\ Back(j)' = Back(j)
  BY DEF Ask, Back, agentVars
<1>3. CASE pc[k] = "idle"
  <2>1. /\ waitMap' = waitMap \cup {k} /\ pc' = [pc EXCEPT ![k] = "stored"]
        /\ Sent(j)' = Sent(j)
    BY <1>3 DEF Ask, Sent, agentVars
  <2>2. QED
    BY <1>1, <1>2, <1>3, <2>1 DEF Single, Carried, Awaited
<1>4. CASE pc[k] = "stored"
  <2>1. /\ queue' = Append(queue, k) /\ UNCHANGED <<toAgent, running, waitMap>>
        /\ pc' = [pc EXCEPT ![k] = "waiting"]
    BY <1>4 DEF Ask, agentVars
  <2>2. Count(queue', j) = Count(queue, j) + One(k = j)
    BY <2>1, CountAppend DEF Inductive, TypeOK
  <2>3. Sent(j)' = Sent(j) + One(k = j)
    BY <2>1, <2>2, Counted DEF Sent, Inductive, One
  <2>4. QED
    BY <1>1, <1>2, <1>4, <2>1, <2>3 DEF Single, Carried, Awaited, One
<1>5. QED
  BY <1>3, <1>4 DEF Ask

\* The server's sender moves a request from the channel to the stream.
LEMMA ForwardStep ==
    ASSUME Inductive, TypeOK', Forward
    PROVE  Flow'
<1> DEFINE h == Head(queue)
<1>1. /\ UNCHANGED <<pc, waitMap, outcome, result, link, running>>
      /\ queue' = Tail(queue)
      /\ toAgent' = IF link THEN Append(toAgent, h) ELSE toAgent
      /\ queue \in Seq(Call) /\ queue # << >> /\ toAgent \in Seq(Call)
  BY DEF Forward, agentVars, Inductive, TypeOK
<1>2. h \in Call
  BY <1>1, CountTail
<1>3. ASSUME NEW k \in Call
      PROVE  /\ Sent(k)' <= Sent(k) /\ Back(k)' <= Back(k)
             /\ link => Sent(k)' = Sent(k) /\ Back(k)' = Back(k)
  <2>1. Count(queue, k) = Count(queue', k) + One(h = k)
    BY <1>1, CountTail
  <2>2. Count(Append(toAgent, h), k) = Count(toAgent, k) + One(h = k)
    BY <1>1, <1>2, CountAppend
  <2>3. /\ Count(queue', k) \in Nat /\ Count(queue, k) \in Nat /\ Count(toAgent, k) \in Nat
        /\ One(h = k) \in Nat /\ One(k \in running) \in Nat /\ Back(k) \in Nat
    BY Counted, CountedNext DEF Inductive, One
  <2>4. Back(k)' = Back(k)
    BY DEF Forward, agentVars, Back
  <2>5. Sent(k)' = Count(queue', k) + Count(toAgent', k) + One(k \in running)
    BY <1>1 DEF Sent
  <2> HIDE DEF h
  <2>6. CASE link
    BY <1>1, <2>1, <2>2, <2>3, <2>4, <2>5, <2>6 DEF Sent
  <2>7. CASE ~link
    BY <1>1, <2>1, <2>3, <2>4, <2>5, <2>7 DEF Sent
  <2>8. QED
    BY <2>6, <2>7
<1>4. QED
  BY <1>1, <1>3, MovedOn

\* The agent's reader makes a goroutine of a request.
LEMMA AgentReadsStep ==
    ASSUME Inductive, TypeOK', AgentReads
    PROVE  Flow'
<1> DEFINE h == Head(toAgent)
<1>1. /\ UNCHANGED <<pc, waitMap, outcome, result, link, queue>>
      /\ toAgent' = Tail(toAgent) /\ running' = running \cup {h}
      /\ toAgent \in Seq(Call) /\ toAgent # << >>
  BY DEF AgentReads, serverVars, Inductive, TypeOK
<1>2. ASSUME NEW k \in Call
      PROVE  Sent(k)' = Sent(k) /\ Back(k)' = Back(k) /\ Sent(k) \in Nat /\ Back(k) \in Nat
  <2>1. Count(toAgent, k) = Count(toAgent', k) + One(h = k)
    BY <1>1, CountTail
  <2>2. /\ Count(queue, k) \in Nat /\ Count(toAgent', k) \in Nat
        /\ Sent(k) \in Nat /\ Back(k) \in Nat /\ Sent(k) <= 1
    BY Counted, CountedNext DEF Inductive, Flow, Single
  <2>3. Back(k)' = Back(k)
    BY DEF AgentReads, serverVars, Back
  <2>4. Sent(k)' = Count(queue, k) + Count(toAgent', k) + One(k \in running')
    BY <1>1 DEF Sent
  <2> HIDE DEF h
  <2>5. QED
    BY <1>1, <2>1, <2>2, <2>3, <2>4 DEF Sent, One
<1>3. QED
  BY <1>1, <1>2, MovedOn

\* The handler has its call's request, and only once.
LEMMA HandleStep ==
    ASSUME Inductive, TypeOK', NEW k \in Call, NEW v \in Outcome, Handle(k, v)
    PROVE  Flow'
<1> SUFFICES ASSUME NEW j \in Call PROVE Single(j)' /\ Carried(j)' /\ Awaited(j)'
  BY DEF Flow
<1>1. /\ UNCHANGED <<pc, waitMap, result, link, queue, toAgent, agentQueue, toServer, readBuff,
                     delivering>>
      /\ k \in running /\ running' = running \ {k} /\ replying' = replying \cup {k}
      /\ outcome' = [outcome EXCEPT ![k] = v] /\ outcome \in [Call -> Outcome \cup {"none"}]
  BY DEF Handle, serverVars, Inductive, TypeOK
<1>2. /\ Single(j) /\ Carried(j) /\ Awaited(j) /\ Sent(j) \in Nat /\ Back(j) \in Nat
      /\ Count(queue, j) \in Nat /\ Count(toAgent, j) \in Nat
      /\ Count(agentQueue, j) \in Nat /\ Count(toServer, j) \in Nat /\ Count(readBuff, j) \in Nat
  BY Counted DEF Inductive, Flow
<1>3. CASE j = k
  <2>1. Sent(j) = 1 /\ Back(j) = 0 /\ Count(queue, j) = 0 /\ Count(toAgent, j) = 0
    BY <1>1, <1>2, <1>3 DEF Single, Sent, One
  <2>2. Sent(j)' = 0
    BY <1>1, <1>3, <2>1 DEF Sent, One
  <2>3. Back(j)' = 1
    BY <1>1, <1>2, <1>3, <2>1 DEF Back, One
  <2>4. outcome'[j] # "none" /\ pc[j] = "waiting"
    BY <1>1, <1>2, <1>3, <2>1 DEF Single, Outcome
  <2>5. QED
    BY <1>1, <1>2, <2>1, <2>2, <2>3, <2>4 DEF Single, Carried, Awaited
<1>4. CASE j # k
  <2>1. Sent(j)' = Sent(j)
    BY <1>1, <1>4 DEF Sent, One
  <2>2. Back(j)' = Back(j)
    BY <1>1, <1>4 DEF Back, One
  <2>3. outcome'[j] = outcome[j]
    BY <1>1, <1>4
  <2>4. QED
    BY <1>1, <1>2, <2>1, <2>2, <2>3 DEF Single, Carried, Awaited
<1>5. QED
  BY <1>3, <1>4

\* A handler that answers moves on to the agent's channel.
LEMMA ReplyStep ==
    ASSUME Inductive, TypeOK', NEW k \in Call, Reply(k)
    PROVE  Flow'
<1>1. /\ UNCHANGED <<pc, waitMap, outcome, result, link, queue, toAgent, running, toServer,
                     readBuff, delivering>>
      /\ agentQueue' = Append(agentQueue, k)
      /\ k \in replying /\ replying' = replying \ {k} /\ agentQueue \in Seq(Frame) /\ k \in Frame
  BY DEF Reply, serverVars, Inductive, TypeOK, Frame
<1>2. ASSUME NEW j \in Call
      PROVE  Sent(j)' = Sent(j) /\ Back(j)' = Back(j) /\ Sent(j) \in Nat /\ Back(j) \in Nat
  <2>1. Count(agentQueue', j) = Count(agentQueue, j) + One(k = j)
    BY <1>1, CountAppend
  <2>2. /\ Count(agentQueue, j) \in Nat /\ Count(toServer, j) \in Nat /\ Count(readBuff, j) \in Nat
        /\ Sent(j) \in Nat /\ Back(j) \in Nat
    BY Counted DEF Inductive
  <2>3. Sent(j)' = Sent(j)
    BY <1>1 DEF Sent
  <2>4. Back(j)' = Count(agentQueue', j) + Count(toServer, j) + Count(readBuff, j)
                     + One(j \in replying') + One(j \in delivering)
    BY <1>1 DEF Back
  <2>5. QED
    BY <1>1, <2>1, <2>2, <2>3, <2>4 DEF Back, One
<1>3. QED
  BY <1>1, <1>2, MovedOn

\* A notice is no call's message.
LEMMA NotifyStep ==
    ASSUME Inductive, TypeOK', Notify
    PROVE  Flow'
<1>1. /\ UNCHANGED <<pc, waitMap, outcome, result, link, queue, toAgent, running, toServer,
                     readBuff, replying, delivering>>
      /\ agentQueue' = Append(agentQueue, Notice) /\ agentQueue \in Seq(Frame) /\ Notice \in Frame
  BY DEF Notify, serverVars, Inductive, TypeOK, Frame
<1>2. ASSUME NEW j \in Call
      PROVE  Sent(j)' = Sent(j) /\ Back(j)' = Back(j) /\ Sent(j) \in Nat /\ Back(j) \in Nat
  <2>1. Count(agentQueue', j) = Count(agentQueue, j) + One(Notice = j)
    BY <1>1, CountAppend
  <2>2. One(Notice = j) = 0
    BY RpcAssumption DEF One
  <2>3. Count(agentQueue, j) \in Nat /\ Sent(j) \in Nat /\ Back(j) \in Nat
    BY Counted DEF Inductive
  <2>4. Count(agentQueue', j) = Count(agentQueue, j)
    BY <2>1, <2>2, <2>3
  <2>5. QED
    BY <1>1, <2>3, <2>4 DEF Sent, Back
<1>3. QED
  BY <1>1, <1>2, MovedOn

\* The agent's sender moves an answer from the channel to the stream.
LEMMA AgentSendsStep ==
    ASSUME Inductive, TypeOK', AgentSends
    PROVE  Flow'
<1> DEFINE h == Head(agentQueue)
<1>1. /\ UNCHANGED <<pc, waitMap, outcome, result, link, queue, toAgent, running, readBuff,
                     replying, delivering>>
      /\ agentQueue' = Tail(agentQueue)
      /\ toServer' = IF link THEN Append(toServer, h) ELSE toServer
      /\ agentQueue \in Seq(Frame) /\ agentQueue # << >> /\ toServer \in Seq(Frame)
  BY DEF AgentSends, serverVars, Inductive, TypeOK
<1>2. h \in Frame
  BY <1>1, CountTail
<1>3. ASSUME NEW k \in Call
      PROVE  /\ Sent(k)' <= Sent(k) /\ Back(k)' <= Back(k)
             /\ link => Sent(k)' = Sent(k) /\ Back(k)' = Back(k)
  <2>1. Count(agentQueue, k) = Count(agentQueue', k) + One(h = k)
    BY <1>1, CountTail
  <2>2. Count(Append(toServer, h), k) = Count(toServer, k) + One(h = k)
    BY <1>1, <1>2, CountAppend
  <2>3. /\ Count(agentQueue', k) \in Nat /\ Count(agentQueue, k) \in Nat
        /\ Count(toServer, k) \in Nat /\ Count(readBuff, k) \in Nat
        /\ One(h = k) \in Nat /\ One(k \in replying) \in Nat /\ One(k \in delivering) \in Nat
        /\ Sent(k) \in Nat
    BY Counted, CountedNext DEF Inductive, One
  <2>4. Sent(k)' = Sent(k)
    BY <1>1 DEF Sent
  <2>5. /\ Back(k)' = Count(agentQueue', k) + Count(toServer', k) + Count(readBuff, k)
                        + One(k \in replying) + One(k \in delivering)
        /\ Back(k) = Count(agentQueue, k) + Count(toServer, k) + Count(readBuff, k)
                       + One(k \in replying) + One(k \in delivering)
    BY <1>1 DEF Back
  <2> HIDE DEF h
  <2>6. CASE link
    <3>1. Count(toServer', k) = Count(toServer, k) + One(h = k)
      BY <1>1, <2>2, <2>6
    <3>2. Back(k)' = Back(k) /\ Back(k) \in Nat
      BY <2>1, <2>3, <2>5, <3>1
    <3>3. QED
      BY <2>3, <2>4, <3>2
  <2>7. CASE ~link
    <3>1. Count(toServer', k) = Count(toServer, k)
      BY <1>1, <2>7
    <3>2. QED
      BY <2>1, <2>3, <2>4, <2>5, <2>7, <3>1
  <2>8. QED
    BY <2>6, <2>7
<1>4. QED
  BY <1>1, <1>3, MovedOn

\* The listener moves n frames to its buffer and cuts one off.
LEMMA ListenerReadsStep ==
    ASSUME Inductive, TypeOK', NEW n \in 1 .. MaxFrames, ListenerReads(n)
    PROVE  Flow'
<1> DEFINE first == SubSeq(toServer, 1, n)
           rest == SubSeq(toServer, n + 1, Len(toServer))
           buffered == readBuff \o first
           h == Head(buffered)
<1>1. /\ UNCHANGED <<pc, waitMap, outcome, result, link, queue, toAgent, running, agentQueue,
                     replying>>
      /\ n \in 1 .. Len(toServer) /\ toServer' = rest
      /\ delivering' = delivering \cup ({h} \ {Notice}) /\ readBuff' = Tail(buffered)
      /\ toServer \in Seq(Frame) /\ readBuff \in Seq(Frame)
  BY DEF ListenerReads, agentVars, Inductive, TypeOK
<1>2. first \in Seq(Frame) /\ first # << >> /\ rest \in Seq(Frame)
  BY <1>1, CountSplit
<1>3. buffered \in Seq(Frame) /\ buffered # << >>
  <2> HIDE DEF first
  <2>1. QED
    BY <1>1, <1>2, ConcatProperties, ConcatEqualIffEmpty
<1>4. ASSUME NEW k \in Call
      PROVE  Sent(k)' = Sent(k) /\ Back(k)' = Back(k) /\ Sent(k) \in Nat /\ Back(k) \in Nat
  <2>1. Count(toServer, k) = Count(first, k) + Count(rest, k)
    BY <1>1, CountSplit
  <2>2. Count(buffered, k) = Count(readBuff, k) + Count(first, k)
    BY <1>1, <1>2, CountConcat
  <2> HIDE DEF first, rest, buffered
  <2>3. Count(buffered, k) = Count(readBuff', k) + One(h = k)
    BY <1>1, <1>3, CountTail
  <2>4. /\ Count(first, k) \in Nat /\ Count(rest, k) \in Nat /\ Count(readBuff, k) \in Nat
        /\ Count(agentQueue, k) \in Nat /\ Count(toServer, k) \in Nat
        /\ Count(readBuff', k) \in Nat
        /\ Sent(k) \in Nat /\ Back(k) \in Nat /\ Back(k) <= 1
    <3>1. Count(first, k) \in Nat /\ Count(rest, k) \in Nat
      BY <1>2, CountType
    <3>2. Single(k)
      BY DEF Inductive, Flow
    <3>3. QED
      BY <3>1, <3>2, Counted, CountedNext DEF Inductive, Single
  <2>5. Sent(k)' = Sent(k)
    BY <1>1 DEF Sent
  <2>6. Back(k)' = Count(agentQueue, k) + Count(rest, k) + Count(readBuff', k)
                     + One(k \in replying) + One(k \in delivering')
    BY <1>1 DEF Back
  <2> HIDE DEF h
  <2>7. One(k \in delivering') = One(k \in delivering) + One(h = k)
    <3>1. Count(first, k) > 0 => Count(toServer, k) > 0
      BY <2>1, <2>4
    <3>2. h = k => Count(readBuff, k) + Count(toServer, k) > 0
      BY <2>2, <2>3, <2>4, <3>1 DEF One
    <3>3. h = k => k \notin delivering
      BY <2>4, <3>2 DEF Back, One
    <3>4. k # Notice
      BY RpcAssumption
    <3>5. QED
      BY <1>1, <3>3, <3>4 DEF One
  <2>8. /\ One(k \in replying) \in Nat /\ One(k \in delivering) \in Nat /\ One(h = k) \in Nat
    BY DEF One
  <2>9. QED
    BY <2>1, <2>2, <2>3, <2>4, <2>5, <2>6, <2>7, <2>8 DEF Back
<1>5. QED
  BY <1>1, <1>4, MovedOn

\* The caller has its answer, which is gone from the way.
LEMMA DeliverStep ==
    ASSUME Inductive, TypeOK', NEW k \in Call, Deliver(k)
    PROVE  Flow'
<1> SUFFICES ASSUME NEW j \in Call PROVE Single(j)' /\ Carried(j)' /\ Awaited(j)'
  BY DEF Flow
<1>1. /\ UNCHANGED <<waitMap, link, queue, toAgent, running, agentQueue, toServer, readBuff,
                     replying, outcome>>
      /\ k \in delivering /\ delivering' = delivering \ {k}
      /\ pc' = [pc EXCEPT ![k] = "done"] /\ result' = [result EXCEPT ![k] = outcome[k]]
      /\ pc[k] = "waiting" /\ k \in waitMap
      /\ pc \in [Call -> {"idle", "stored", "waiting", "done"}]
      /\ result \in [Call -> Outcome \cup {"none"}]
  BY DEF Deliver, Waiter, agentVars, Inductive, TypeOK
<1>2. /\ Single(j) /\ Carried(j) /\ Awaited(j) /\ Sent(j) \in Nat /\ Back(j) \in Nat
      /\ Count(agentQueue, j) \in Nat /\ Count(toServer, j) \in Nat /\ Count(readBuff, j) \in Nat
  BY Counted DEF Inductive, Flow
<1>3. Sent(j)' = Sent(j)
  BY <1>1 DEF Sent
<1>4. Back(j)' = Back(j) - One(j = k)
  BY <1>1, <1>2 DEF Back, One
<1>5. QED
  BY <1>1, <1>2, <1>3, <1>4 DEF Single, Carried, Awaited, One, Back

\* A connection that is lost takes the frames on it along.
LEMMA LinkBreaksStep ==
    ASSUME Inductive, TypeOK', LinkBreaks
    PROVE  Flow'
<1>1. /\ UNCHANGED <<pc, waitMap, outcome, result, queue, running, agentQueue, replying,
                     delivering>>
      /\ link' = FALSE /\ toAgent' = << >> /\ toServer' = << >> /\ readBuff' = << >>
  BY DEF LinkBreaks, agentVars
<1>2. ASSUME NEW k \in Call PROVE Sent(k)' <= Sent(k) /\ Back(k)' <= Back(k)
  <2>1. Count(toAgent', k) = 0 /\ Count(toServer', k) = 0 /\ Count(readBuff', k) = 0
    BY <1>1, CountEmpty
  <2>2. /\ Count(queue, k) \in Nat /\ Count(toAgent, k) \in Nat /\ Count(agentQueue, k) \in Nat
        /\ Count(toServer, k) \in Nat /\ Count(readBuff, k) \in Nat
    BY Counted DEF Inductive
  <2>3. /\ Sent(k)' = Count(queue, k) + Count(toAgent', k) + One(k \in running)
        /\ Back(k)' = Count(agentQueue, k) + Count(toServer', k) + Count(readBuff', k)
                        + One(k \in replying) + One(k \in delivering)
    BY <1>1 DEF Sent, Back
  <2>4. One(k \in running) \in Nat /\ One(k \in replying) \in Nat /\ One(k \in delivering) \in Nat
    BY DEF One
  <2>5. QED
    BY <2>1, <2>2, <2>3, <2>4 DEF Sent, Back
<1>3. QED
  BY <1>1, <1>2, MovedOn

\* Nothing changes in a step that leaves the variables alone.
LEMMA StutterStep ==
    ASSUME Inductive, UNCHANGED vars
    PROVE  Flow'
BY DEF Inductive, Flow, Single, Carried, Awaited, Sent, Back, vars, serverVars, agentVars

\* The invariant holds in every state.
LEMMA InductiveHolds == Spec => []Inductive
<1>1. Inductive /\ [Next]_vars => Inductive'
  <2> SUFFICES ASSUME Inductive, [Next]_vars PROVE Inductive'
    OBVIOUS
  <2>1. TypeOK'
    BY TypeStep DEF Inductive
  <2>2. Flow'
    BY <2>1, AskStep, ForwardStep, AgentReadsStep, HandleStep, ReplyStep, NotifyStep,
       AgentSendsStep, ListenerReadsStep, DeliverStep, LinkBreaksStep, StutterStep
       DEF Next, Caller, Handler, Listen
  <2>3. QED
    BY <2>1, <2>2 DEF Inductive
<1>2. QED
  BY InductiveInit, <1>1, PTL DEF Spec

------------------------------------------------------------------------------
\* The channels keep to their capacity and carry what they are made for.
THEOREM TypeCorrect == Spec => []TypeOK
<1>1. Inductive => TypeOK
  BY DEF Inductive
<1>2. QED
  BY <1>1, InductiveHolds, PTL

\* Nothing between the two processes repeats a message, and only a broken
\* connection loses one.
THEOREM NeverLostNorRepeated == Spec => []OneMessagePerCall
<1>1. Inductive => OneMessagePerCall
  <2> SUFFICES ASSUME Inductive, NEW k \in Call
               PROVE  Copies(k) <= 1 /\ (link /\ pc[k] = "waiting" => Copies(k) = 1)
    BY DEF OneMessagePerCall
  <2>1. Copies(k) = Sent(k) + Back(k) /\ Single(k)
    BY CopiesAreSentAndBack DEF Inductive, Flow
  <2>2. QED
    BY <2>1 DEF Single
<1>2. QED
  BY <1>1, InductiveHolds, PTL

\* An answer on its way back has a call that waits for it.
LEMMA AnswerIsBack ==
    ASSUME TypeOK, NEW k \in Answers
    PROVE  k \in Call /\ Back(k) > 0
<1>1. k \in Call
  BY RangeOfSeq DEF Answers, TypeOK, Frame
<1>2. /\ Count(agentQueue, k) > 0 <=> k \in Range(agentQueue)
      /\ Count(toServer, k) > 0 <=> k \in Range(toServer)
      /\ Count(readBuff, k) > 0 <=> k \in Range(readBuff)
  BY CountType DEF TypeOK
<1>3. /\ Count(agentQueue, k) \in Nat /\ Count(toServer, k) \in Nat /\ Count(readBuff, k) \in Nat
  BY <1>1, Counted
<1>4. QED
  BY <1>1, <1>2, <1>3 DEF Answers, Back, One

\* ProcessMessage finds a waiter for every answer, and the hand-over of none
\* blocks for good.
THEOREM AnswersAreAwaited == Spec => []AnswerFindsItsWaiter
<1>1. Inductive => AnswerFindsItsWaiter
  <2> SUFFICES ASSUME Inductive, NEW k \in Answers PROVE k \in waitMap /\ pc[k] = "waiting"
    BY DEF AnswerFindsItsWaiter
  <2>1. k \in Call /\ Back(k) > 0
    BY AnswerIsBack DEF Inductive
  <2>2. Single(k) /\ Awaited(k) /\ Sent(k) \in Nat /\ Back(k) \in Nat
    BY <2>1, Counted DEF Inductive, Flow
  <2>3. QED
    BY <2>1, <2>2 DEF Single, Awaited
<1>2. QED
  BY <1>1, InductiveHolds, PTL

------------------------------------------------------------------------------
\* Every step is one of RpcContract, or changes nothing it speaks of: a handler
\* that runs is its Serve, an answer that is delivered its Return.
LEMMA StepImplements == Inductive /\ [Next]_vars => [RC!Next]_<<outcome, result>>
<1> SUFFICES ASSUME Inductive, [Next]_vars PROVE [RC!Next]_<<outcome, result>>
  OBVIOUS
<1>1. ASSUME NEW k \in Call, NEW v \in Outcome, Handle(k, v) PROVE RC!Next
  <2>1. Carried(k) /\ Sent(k) > 0
    <3>1. Carried(k) /\ Count(queue, k) \in Nat /\ Count(toAgent, k) \in Nat /\ k \in running
      BY <1>1, Counted DEF Inductive, Flow, Handle
    <3>2. QED
      BY <3>1 DEF Sent, One
  <2>2. RC!Serve(k, v)
    BY <1>1, <2>1 DEF Carried, Handle, serverVars, RC!Serve
  <2>3. QED
    BY <2>2 DEF RC!Next
<1>2. ASSUME NEW k \in Call, Deliver(k) PROVE RC!Next
  <2>1. /\ Carried(k) /\ Awaited(k) /\ Back(k) > 0
    <3>1. /\ Carried(k) /\ Awaited(k) /\ Count(agentQueue, k) \in Nat
          /\ Count(toServer, k) \in Nat /\ Count(readBuff, k) \in Nat /\ k \in delivering
      BY <1>2, Counted DEF Inductive, Flow, Deliver
    <3>2. QED
      BY <3>1 DEF Back, One
  <2>2. /\ pc[k] = "waiting" /\ result' = [result EXCEPT ![k] = outcome[k]]
        /\ UNCHANGED outcome
    BY <1>2 DEF Deliver, Waiter, agentVars
  <2>3. RC!Return(k)
    BY <2>1, <2>2 DEF Carried, Awaited, RC!Return
  <2>4. QED
    BY <2>3 DEF RC!Next
<1>3. ASSUME NEW k \in Call, Ask(k) \/ Reply(k) PROVE UNCHANGED <<outcome, result>>
  BY <1>3 DEF Ask, Reply, serverVars, agentVars
<1>4. ASSUME Forward \/ AgentReads \/ AgentSends \/ Notify \/ LinkBreaks
      PROVE  UNCHANGED <<outcome, result>>
  BY <1>4 DEF Forward, AgentReads, AgentSends, Notify, LinkBreaks, serverVars, agentVars
<1>5. ASSUME NEW n \in 1 .. MaxFrames, ListenerReads(n) PROVE UNCHANGED <<outcome, result>>
  BY <1>5 DEF ListenerReads, agentVars
<1>6. CASE UNCHANGED vars
  BY <1>6 DEF vars, serverVars, agentVars
<1>7. QED
  BY <1>1, <1>2, <1>3, <1>4, <1>5, <1>6 DEF Next, Caller, Handler, Listen

\* Calls through the WaitMap, the channels, the streams and the goroutines of
\* both sides behave as RpcContract says: carried out at most once, and the
\* caller gets the outcome of its own call.
THEOREM CallsKeepTheContract == Spec => ImplementsContract
<1>1. Init => RC!Init
  BY DEF Init, RC!Init
<1>2. QED
  BY <1>1, StepImplements, InductiveHolds, PTL DEF Spec, ImplementsContract, RC!Spec, RC!cvars
=============================================================================
