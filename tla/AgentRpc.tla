------------------------------ MODULE AgentRpc -------------------------------
(***************************************************************************)
(* Calls to one connected agent: sendMessage and the WaitMap on the        *)
(* server, the two message channels, the sender goroutines, the framed TCP *)
(* stream in both directions, and the goroutine the agent starts for every *)
(* request.  A call is one invocation of a method of Agent (RunCommand,    *)
(* ServiceStart, InstallRpm, ...): it has a fresh message UUID, so the     *)
(* call stands for its UUID.  A message carries its call; a notice is what *)
(* the agent sends of its own accord (FileMonitor, ConfigFileMonitor).     *)
(***************************************************************************)
EXTENDS Naturals, Sequences, FiniteSets, SequencesExt

CONSTANTS Call,         \* calls of HTTP handlers to this agent
          Watch,        \* the calls whose handler watches a file and so never
                        \* answers (AgentConfigHandler)
          Notice,       \* an unsolicited message of the agent
          ServerCap,    \* capacity of Agent.messageChan, 50 in the code
          AgentCap,     \* capacity of SocketClient.messageChan, 100 in the code
          MaxNotices,   \* bound: unsolicited messages
          MaxFrames,    \* frames the listener can get in one conn.Read
          LinkMayBreak  \* whether the connection can be lost

ASSUME RpcAssumption ==
    /\ Watch \subseteq Call
    /\ Notice \notin Call
    /\ ServerCap \in Nat \ {0} /\ AgentCap \in Nat \ {0}
    /\ MaxNotices \in Nat /\ MaxFrames \in Nat \ {0}
    /\ LinkMayBreak \in BOOLEAN

Outcome == {"ok", "error"}

VARIABLES
    pc,          \* the goroutine of each call, in sendMessage
    waitMap,     \* keys of MessageProcesser.WaitMap
    queue,       \* Agent.messageChan
    toAgent,     \* requests on the stream to the agent
    running,     \* handler goroutines at work
    outcome,     \* what the handler of each call has done
    replying,    \* handler goroutines sending their answer
    agentQueue,  \* SocketClient.messageChan
    toServer,    \* frames on the stream to the server
    readBuff,    \* complete frames in the listener's buffer, not yet cut off
    delivering,  \* ProcessMessage goroutines of the server
    result,      \* what sendMessage returned
    notices,     \* unsolicited messages sent so far
    link         \* TRUE while the connection stands

serverVars == <<pc, waitMap, queue, readBuff, delivering, result>>
agentVars  == <<running, outcome, replying, agentQueue, notices>>
vars == <<serverVars, agentVars, toAgent, toServer, link>>

Frame == Call \cup {Notice}

Init ==
    /\ pc = [k \in Call |-> "idle"]
    /\ waitMap = {}
    /\ queue = <<>> /\ toAgent = <<>>
    /\ running = {} /\ replying = {}
    /\ outcome = [k \in Call |-> "none"]
    /\ agentQueue = <<>> /\ toServer = <<>>
    /\ readBuff = <<>> /\ delivering = {}
    /\ result = [k \in Call |-> "none"]
    /\ notices = 0
    /\ link = TRUE

------------------------------------------------------------------------------
\* The server: sendMessage and the sender goroutine of the connection.

\* Variant: the message is queued before its waiter is in the WaitMap.
AskThenWait(k) ==
    \/ /\ pc[k] = "idle"
       /\ Len(queue) < ServerCap
       /\ queue' = Append(queue, k)
       /\ pc' = [pc EXCEPT ![k] = "stored"]
       /\ UNCHANGED <<waitMap, readBuff, delivering, result, agentVars, toAgent,
                      toServer, link>>
    \/ /\ pc[k] = "stored"
       /\ waitMap' = waitMap \cup {k}
       /\ pc' = [pc EXCEPT ![k] = "waiting"]
       /\ UNCHANGED <<queue, readBuff, delivering, result, agentVars, toAgent,
                      toServer, link>>

\* Variant: the message goes to a list that grows instead of a channel.
AskUnbounded(k) ==
    \/ /\ pc[k] = "idle"
       /\ waitMap' = waitMap \cup {k}
       /\ pc' = [pc EXCEPT ![k] = "stored"]
       /\ UNCHANGED <<queue, readBuff, delivering, result, agentVars, toAgent,
                      toServer, link>>
    \/ /\ pc[k] = "stored"
       /\ queue' = Append(queue, k)
       /\ pc' = [pc EXCEPT ![k] = "waiting"]
       /\ UNCHANGED <<waitMap, readBuff, delivering, result, agentVars, toAgent,
                      toServer, link>>

\* sendMessage up to the wait: WaitMap.Store, then a send to messageChan that
\* blocks while the channel is full.
Ask(k) ==
    \/ /\ pc[k] = "idle"
       /\ waitMap' = waitMap \cup {k}
       /\ pc' = [pc EXCEPT ![k] = "stored"]
       /\ UNCHANGED <<queue, readBuff, delivering, result, agentVars, toAgent,
                      toServer, link>>
    \/ /\ pc[k] = "stored"
       /\ Len(queue) < ServerCap
       /\ queue' = Append(queue, k)
       /\ pc' = [pc EXCEPT ![k] = "waiting"]
       /\ UNCHANGED <<waitMap, readBuff, delivering, result, agentVars, toAgent,
                      toServer, link>>

\* Variant: after a short write the whole message is written again.
ForwardTwice ==
    /\ queue # <<>>
    /\ queue' = Tail(queue)
    /\ toAgent' = IF link THEN toAgent \o <<Head(queue), Head(queue)>> ELSE toAgent
    /\ UNCHANGED <<pc, waitMap, readBuff, delivering, result, agentVars, toServer, link>>

\* The sender takes a message and writes it; it ignores a write error.
Forward ==
    /\ queue # <<>>
    /\ queue' = Tail(queue)
    /\ toAgent' = IF link THEN Append(toAgent, Head(queue)) ELSE toAgent
    /\ UNCHANGED <<pc, waitMap, readBuff, delivering, result, agentVars, toServer, link>>

------------------------------------------------------------------------------
\* The agent.

\* The reader cuts every complete frame off its buffer and starts a goroutine
\* for each, so requests that arrive together are all served.
AgentReads ==
    /\ toAgent # <<>>
    /\ toAgent' = Tail(toAgent)
    /\ running' = running \cup {Head(toAgent)}
    /\ UNCHANGED <<serverVars, outcome, replying, agentQueue, notices, toServer, link>>

\* A handler does its work; what it answers is data or an error.
Handle(k, v) ==
    /\ k \in running \ Watch
    /\ running' = running \ {k}
    /\ outcome' = [outcome EXCEPT ![k] = v]
    /\ replying' = replying \cup {k}
    /\ UNCHANGED <<serverVars, agentQueue, notices, toAgent, toServer, link>>

\* SocketClient.Send of an answer blocks while the channel is full.
Reply(k) ==
    /\ k \in replying
    /\ Len(agentQueue) < AgentCap
    /\ replying' = replying \ {k}
    /\ agentQueue' = Append(agentQueue, k)
    /\ UNCHANGED <<serverVars, running, outcome, notices, toAgent, toServer, link>>

\* FileMonitor and Configfsnotify report a change of a file.
Notify ==
    /\ notices < MaxNotices
    /\ Len(agentQueue) < AgentCap
    /\ notices' = notices + 1
    /\ agentQueue' = Append(agentQueue, Notice)
    /\ UNCHANGED <<serverVars, running, outcome, replying, toAgent, toServer, link>>

\* The agent's sender takes a message and writes it.
AgentSends ==
    /\ agentQueue # <<>>
    /\ agentQueue' = Tail(agentQueue)
    /\ toServer' = IF link THEN Append(toServer, Head(agentQueue)) ELSE toServer
    /\ UNCHANGED <<serverVars, running, outcome, replying, notices, toAgent, link>>

------------------------------------------------------------------------------
\* The server: startListen and ProcessMessage.

\* Variant: the buffer is emptied once a frame has been cut off it.
ReadAndForget(n) ==
    /\ n <= Len(toServer)
    /\ delivering' = delivering \cup ({Head(readBuff \o toServer)} \ {Notice})
    /\ readBuff' = <<>>
    /\ toServer' = SubSeq(toServer, n + 1, Len(toServer))
    /\ UNCHANGED <<pc, waitMap, queue, result, agentVars, toAgent, link>>

\* One conn.Read brings n frames; TlvDecode is called once, so one frame is
\* cut off the buffer and the others wait for the next Read.  The handler of
\* a notice leaves no trace here.
ListenerReads(n) ==
    /\ n <= Len(toServer)
    /\ LET buffered == readBuff \o SubSeq(toServer, 1, n)
       IN  /\ delivering' = delivering \cup ({Head(buffered)} \ {Notice})
           /\ readBuff' = Tail(buffered)
    /\ toServer' = SubSeq(toServer, n + 1, Len(toServer))
    /\ UNCHANGED <<pc, waitMap, queue, result, agentVars, toAgent, link>>

\* Variant: an answer goes to some call that waits on this agent.
AnyWaiter(k) == waitMap

\* WaitMap.Load(msg.UUID): the waiters an answer to call k can go to.
Waiter(k) == waitMap \cap {k}

\* ProcessMessage hands the answer over on the waiter's unbuffered channel,
\* and sendMessage returns it.  The WaitMap entry stays.
Deliver(k) ==
    /\ k \in delivering
    /\ \E w \in Waiter(k) :
          /\ pc[w] = "waiting"
          /\ pc' = [pc EXCEPT ![w] = "done"]
          /\ result' = [result EXCEPT ![w] = outcome[k]]
    /\ delivering' = delivering \ {k}
    /\ UNCHANGED <<waitMap, queue, readBuff, agentVars, toAgent, toServer, link>>

\* The connection is lost with all that is on it; the listener ends, and with
\* it its buffer.  Nothing wakes the callers.
LinkBreaks ==
    /\ LinkMayBreak
    /\ link
    /\ link' = FALSE
    /\ toAgent' = <<>> /\ toServer' = <<>> /\ readBuff' = <<>>
    /\ UNCHANGED <<pc, waitMap, queue, delivering, result, agentVars>>

------------------------------------------------------------------------------
Caller(k)  == Ask(k) \/ Deliver(k)
Handler(k) == Reply(k) \/ \E v \in Outcome : Handle(k, v)
Listen     == \E n \in 1 .. MaxFrames : ListenerReads(n)

Next ==
    \/ \E k \in Call : Caller(k) \/ Handler(k)
    \/ Forward \/ AgentReads \/ AgentSends \/ Listen
    \/ Notify \/ LinkBreaks

Spec == Init /\ [][Next]_vars

\* Every goroutine that can run does, and a send that blocks on a full channel
\* gets its turn (Go queues blocked senders); a caller need not make its call.
Fairness ==
    /\ \A k \in Call : /\ SF_vars(pc[k] = "stored" /\ Ask(k))
                       /\ WF_vars(Deliver(k))
                       /\ SF_vars(Reply(k))
                       /\ WF_vars(\E v \in Outcome : Handle(k, v))
    /\ WF_vars(Forward) /\ WF_vars(AgentReads) /\ WF_vars(AgentSends) /\ WF_vars(Listen)

FairSpec == Spec /\ Fairness
------------------------------------------------------------------------------
(***************************************************************************)
(* Properties.                                                             *)
(***************************************************************************)

\* The channels keep to their capacity and carry calls and notices.
TypeOK ==
    /\ pc \in [Call -> {"idle", "stored", "waiting", "done"}]
    /\ waitMap \subseteq Call
    /\ queue \in Seq(Call) /\ Len(queue) <= ServerCap
    /\ toAgent \in Seq(Call)
    /\ running \subseteq Call /\ replying \subseteq Call
    /\ outcome \in [Call -> Outcome \cup {"none"}]
    /\ agentQueue \in Seq(Frame) /\ Len(agentQueue) <= AgentCap
    /\ toServer \in Seq(Frame) /\ readBuff \in Seq(Frame)
    /\ delivering \subseteq Call
    /\ result \in [Call -> Outcome \cup {"none"}]
    /\ notices \in 0 .. MaxNotices
    /\ link \in BOOLEAN

\* Wherever an answer is on its way back, its call is in the WaitMap and waits:
\* ProcessMessage never takes an answer for a message of another kind, and
\* the goroutine that hands it over never blocks for good.
Answers == replying \cup delivering
             \cup ((Range(agentQueue) \cup Range(toServer) \cup Range(readBuff)) \ {Notice})

AnswerFindsItsWaiter == \A k \in Answers : k \in waitMap /\ pc[k] = "waiting"

\* How often message k, request or answer, is held somewhere.
Count(s, k) == Cardinality({i \in DOMAIN s : s[i] = k})
Copies(k) ==
    Count(queue, k) + Count(toAgent, k) + Count(agentQueue, k) + Count(toServer, k)
      + Count(readBuff, k) + Cardinality({S \in {<<1, running>>, <<2, replying>>,
                                                 <<3, delivering>>} : k \in S[2]})

\* While the connection stands a waiting call has exactly one message in the
\* system: nothing between the two processes loses or repeats one.  After
\* it broke there is at most one.
OneMessagePerCall ==
    \A k \in Call : /\ Copies(k) <= 1
                    /\ link /\ pc[k] = "waiting" => Copies(k) = 1

\* The calls of the Agent methods behave as RpcContract says, through the
\* WaitMap, the channels, the streams and the goroutines of both sides.
RC == INSTANCE RpcContract WITH Call <- Call, Outcome <- Outcome, outcome <- outcome, result <- result
ImplementsContract == RC!Spec

\* The answer to k is cut off no more: it sits in the listener's buffer, and
\* nothing else is on its way to make the listener read again.
HeldBack(k) ==
    /\ k \in Range(readBuff)
    /\ toServer = <<>> /\ agentQueue = <<>> /\ replying = {}

\* A call whose handler answers returns, unless the connection breaks or its
\* answer came in one Read behind another frame and nothing follows.
AnsweredOrHeldBack ==
    \A k \in Call \ Watch :
        (pc[k] = "waiting") ~> (pc[k] = "done" \/ ~link \/ HeldBack(k))

\* A call whose handler answers returns.  Refuted on a connection that never
\* breaks, when two frames arrive in one Read.
Answered ==
    \A k \in Call \ Watch : (pc[k] = "waiting") ~> (pc[k] = "done")
=============================================================================
