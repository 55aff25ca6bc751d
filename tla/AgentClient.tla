----------------------------- MODULE AgentClient -----------------------------
(***************************************************************************)
(* The agent's side of the connection: SocketClient.Run in the loop of     *)
(* main, and the sender and reader goroutines that connect starts for each *)
(* connection.  One SocketClient lives through all connections: its        *)
(* messageChan, its unbuffered exitChan and its conn field are shared by   *)
(* the goroutines of every connection so far.  Connection c is the c-th    *)
(* one dialled; its goroutines are sender c and reader c.                  *)
(***************************************************************************)
EXTENDS Naturals, FiniteSets

CONSTANTS MaxConns,     \* bound: connections dialled
          MessageCap,   \* capacity of messageChan, 100 in the code
          MaxMessages   \* bound: messages the handlers send

ASSUME ClientAssumption ==
    /\ MaxConns \in Nat \ {0}
    /\ MessageCap \in Nat \ {0}
    /\ MaxMessages \in Nat

VARIABLES
    current,   \* the connection in the conn field, 0 before the first
    net,       \* each connection: not dialled, up, broken by the network or
               \* the server, or closed by Run
    run,       \* the goroutine of the reconnect loop
    sender,    \* sender goroutines
    reader,    \* reader goroutines
    waiting,   \* messages in messageChan
    sent,      \* messages handed to messageChan so far
    spurious   \* connections Run closed while they worked

vars == <<current, net, run, sender, reader, waiting, sent, spurious>>

Conn == 1 .. MaxConns
Goroutine == {"none", "running", "exiting", "gone"}

Init ==
    /\ current = 0
    /\ net = [c \in Conn |-> "none"]
    /\ run = "dialing"
    /\ sender = [c \in Conn |-> "none"]
    /\ reader = [c \in Conn |-> "none"]
    /\ waiting = 0 /\ sent = 0
    /\ spurious = {}

\* connect: net.Dial, the conn field, a sender and a reader.  A dial that
\* fails is followed by the delay and another dial, and changes nothing.
Connect ==
    /\ run = "dialing"
    /\ current < MaxConns
    /\ current' = current + 1
    /\ net' = [net EXCEPT ![current + 1] = "up"]
    /\ sender' = [sender EXCEPT ![current + 1] = "running"]
    /\ reader' = [reader EXCEPT ![current + 1] = "running"]
    /\ run' = "waiting"
    /\ UNCHANGED <<waiting, sent, spurious>>

\* The server ends the connection or the network loses it.
Break ==
    /\ current > 0 /\ net[current] = "up"
    /\ net' = [net EXCEPT ![current] = "broken"]
    /\ UNCHANGED <<current, run, sender, reader, waiting, sent, spurious>>

\* Variant: messages go to a list that grows instead of a channel.
SendUnbounded ==
    /\ sent < MaxMessages
    /\ waiting' = waiting + 1
    /\ sent' = sent + 1
    /\ UNCHANGED <<current, net, run, sender, reader, spurious>>

\* SocketClient.Send of an answer or a notice.
Send ==
    /\ sent < MaxMessages
    /\ waiting < MessageCap
    /\ waiting' = waiting + 1
    /\ sent' = sent + 1
    /\ UNCHANGED <<current, net, run, sender, reader, spurious>>

\* A sender, of whichever connection, takes a message and writes it to the
\* connection now in the conn field; on an error it goes to exitWithError.
\* A write to a connection the other side has left may still succeed, and the
\* message is lost.
Write(s) ==
    /\ sender[s] = "running"
    /\ waiting > 0
    /\ waiting' = waiting - 1
    /\ \/ net[current] \in {"up", "broken"} /\ UNCHANGED sender
       \/ net[current] \in {"broken", "closed"} /\ sender' = [sender EXCEPT ![s] = "exiting"]
    /\ UNCHANGED <<current, net, run, reader, sent, spurious>>

\* Variant: a reader that fails returns without telling Run.
ReadQuietly(c) ==
    /\ reader[c] = "running"
    /\ net[c] \in {"broken", "closed"}
    /\ reader' = [reader EXCEPT ![c] = "gone"]
    /\ UNCHANGED <<current, net, run, sender, waiting, sent, spurious>>

\* The Read of reader c returns an error.
ReadFails(c) ==
    /\ reader[c] = "running"
    /\ net[c] \in {"broken", "closed"}
    /\ reader' = [reader EXCEPT ![c] = "exiting"]
    /\ UNCHANGED <<current, net, run, sender, waiting, sent, spurious>>

\* Variant: Run waits in a select that a timer also ends.
RunWakes ==
    /\ run = "waiting"
    /\ run' = "closing"
    /\ UNCHANGED <<current, net, sender, reader, waiting, sent, spurious>>

\* Run receives from exitChan: whichever goroutine is blocked there goes.
ExitReceived ==
    /\ run = "waiting"
    /\ \/ \E s \in Conn : /\ sender[s] = "exiting"
                          /\ sender' = [sender EXCEPT ![s] = "gone"]
                          /\ UNCHANGED reader
       \/ \E c \in Conn : /\ reader[c] = "exiting"
                          /\ reader' = [reader EXCEPT ![c] = "gone"]
                          /\ UNCHANGED sender
    /\ run' = "closing"
    /\ UNCHANGED <<current, net, waiting, sent, spurious>>

\* Variant: the connection is left to the goroutine that failed.
LeaveOpen ==
    /\ run = "closing"
    /\ run' = "dialing"
    /\ UNCHANGED <<current, net, sender, reader, waiting, sent, spurious>>

\* conn.Close of the connection in the conn field; the loop of main waits its
\* delay and calls Run again.
Close ==
    /\ run = "closing"
    /\ net' = [net EXCEPT ![current] = "closed"]
    /\ spurious' = IF net[current] = "up" THEN spurious \cup {current} ELSE spurious
    /\ run' = "dialing"
    /\ UNCHANGED <<current, sender, reader, waiting, sent>>

Next ==
    \/ Connect \/ Break \/ Send \/ ExitReceived \/ Close
    \/ \E c \in Conn : Write(c) \/ ReadFails(c)

Spec == Init /\ [][Next]_vars

\* The goroutines and the reconnect loop run; nothing makes a connection
\* break or a handler send.
Fairness ==
    /\ WF_vars(Connect) /\ WF_vars(ExitReceived) /\ WF_vars(Close)
    /\ \A c \in Conn : WF_vars(Write(c)) /\ WF_vars(ReadFails(c))

FairSpec == Spec /\ Fairness

------------------------------------------------------------------------------
(***************************************************************************)
(* Properties.                                                             *)
(***************************************************************************)

\* The variables hold what the code can put in them, and the channel keeps to
\* its capacity.
TypeOK ==
    /\ current \in 0 .. MaxConns
    /\ net \in [Conn -> {"none", "up", "broken", "closed"}]
    /\ run \in {"dialing", "waiting", "closing"}
    /\ sender \in [Conn -> Goroutine]
    /\ reader \in [Conn -> Goroutine]
    /\ waiting \in 0 .. MessageCap
    /\ sent \in 0 .. MaxMessages
    /\ spurious \subseteq Conn

\* The agent never holds two connections: the server would show the machine
\* connected twice, and the older end would remove the newer entry.
OneConnection == \A c \in Conn : net[c] \in {"up", "broken"} => c = current

SenderFailed == \E s \in Conn : sender[s] \in {"exiting", "gone"}

\* While no write has ever failed, only a connection that broke is closed: the
\* one reader error per connection is consumed by the Run of that connection.
\* The condition is needed: once a write has failed beside the reader, the
\* second exit ends the next Run, and a connection that works is closed.
ReadErrorsMatchRuns == ~SenderFailed => spurious = {}

Exiting == {c \in Conn : sender[c] = "exiting"} \cup
           {MaxConns + c : c \in {d \in Conn : reader[d] = "exiting"}}
Failures == {s \in Conn : sender[s] \in {"exiting", "gone"}}

\* The goroutines blocked on exitChan are at most one for the connection just
\* lost and one for every write that ever failed: no other leftover can end
\* a later Run.
LeftoverExits == Cardinality(Exiting) <= Cardinality(Failures) + 1

\* An agent that has lost its connection dials again, or has used up the
\* connections of this instance.
Reconnects == (current > 0 /\ net[current] = "broken") ~> (run = "dialing")
=============================================================================
