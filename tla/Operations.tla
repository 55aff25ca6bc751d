----------------------------- MODULE Operations ------------------------------
(***************************************************************************)
(* The handlers of the server that have agents do something on their       *)
(* hosts, the logs they keep and the answers they give.  gin serves the    *)
(* requests in goroutines of their own, each agent runs every call in a    *)
(* goroutine of its own; a step is a command of a host, or what a handler  *)
(* does between two calls.  HostOperations has the operations.             *)
(***************************************************************************)
EXTENDS HostOperations

CONSTANTS Machine,
          Lists,         \* bound: lists of machines a request may name
          MaxRequests,   \* bound: requests made
          MaxNamed,      \* bound: machines named in lists, of all requests
          MaxBreaks,     \* bound: connections that break
          MaxErrors      \* bound: statements that fail

ASSUME OperationsAssumption ==
    /\ Lists \subseteq Seq(Machine)
    /\ MaxRequests \in Nat /\ MaxBreaks \in Nat /\ MaxErrors \in Nat
    /\ MaxNamed \in Nat

------------------------------------------------------------------------------
\* The handlers, as pairs of a style and an operation.
\*   batch: every machine of a list, a log with a row for each
\*   logged: one machine, a log with one row
\*   single: one machine, no log
\*   chain: several operations on one machine, up to the first that fails
\*   package, command: the handlers for plugins

RpmBatches  == {"batch"}  \X {"InstallRpm", "RemoveRpm"}
RpmReads    == {"single"} \X {"AllRpm", "RpmSource"}
RpmOfPackage == {"single"} \X {"RpmInfo"}
PluginPackages == {"package"} \X {"InstallRpm", "RemoveRpm"}
ServiceReads   == {"single"} \X {"ServiceList", "ServiceStatus"}
ServiceChanges == {"logged"} \X {"ServiceStart", "ServiceStop", "ServiceRestart"}
PluginServices == {"single"} \X {"ServiceStart", "ServiceStop"}
SysctlChange   == {"logged"} \X {"ChangeSysctl"}
SysctlReads    == {"single"} \X {"GetSysctlInfo", "SysctlView"}
FirewallReads  == {"single"} \X {"FirewalldConfig", "FirewalldZoneConfig"}
FirewallPorts  == {"single"} \X {"FirewalldZonePortAdd", "FirewalldZonePortDel"}
FirewallRules  == {"single"} \X {"FirewalldServiceAdd", "FirewalldServiceRemove",
                                 "FirewalldSourceAdd", "FirewalldSourceRemove"}
FirewallStates == {"single"} \X {"FirewalldRestart", "FirewalldStop"}
FirewallZones  == {"single"} \X {"FirewalldSetDefaultZone"}
UserReads      == {"single"} \X {"CurrentUser", "AllUser"}
UserChanges    == {"single"} \X {"AddLinuxUser", "DelUser", "ChangePermission", "ChangeFileOwner"}
DiskReads      == {"single"} \X {"DiskUsage", "DiskInfo"}
DiskChanges    == {"single"} \X {"DiskMount", "DiskUMount", "DiskFormat"}
FileBroadcast  == {"batch"} \X {"UpdateFile"}
FileReads      == {"single"} \X {"ReadFile"}
RepoReads      == {"single"} \X {"GetRepoSource"}
NetworkReads   == {"single"} \X {"NetTCP", "NetUDP", "NetIOCounter", "NetNICConfig"}
NetworkConnection  == {"single"} \X {"GetNetWorkConnInfo"}
NetworkConfig  == {"chain"} \X {"GetNICName"}
MachineReads   == {"single"} \X {"GetOSInfo", "GetCPUInfo", "GetMemoryInfo", "GetTimeInfo"}
PluginCommands == {"command"} \X {"RunCommand", "RunScript"}
SingleCommand  == {"single"} \X {"RunCommand"}

\* ConfigNetworkConnect: the operations of a chain.
Chain == <<"GetNICName", "GetNetWorkConnectInfo", "UpdateFile", "RestartNetWork">>

\* What is wrong with a form: nothing ("good"); a field is empty that must not
\* be, or it does not parse ("refused"); it asks for an assignment of addresses
\* that is neither static nor dhcp ("other").
ChecksForm == FileBroadcast \cup NetworkConfig \cup PluginPackages \cup PluginCommands
Forms(handler) == IF handler \in NetworkConfig THEN {"good", "other"} ELSE {"good"}

\* How a form is refused.  The handlers for plugins take the list of machines
\* out of a batch that may not be in the form, and panic.
Refusals(handler) ==
    IF handler \in PluginPackages \cup PluginCommands THEN {"fail", "panic"}
    ELSE IF handler \in ChecksForm THEN {"fail"} ELSE {}

\* Operations of different areas are about different facts of a host, and those
\* that only look change none: the requests of one behaviour are of one area.
\* A host starts with one of the sets of facts.  A host without the unit or the
\* card is left out, since what an operation does there, which is to fail, it
\* may do on any host.
Areas ==
    [package  |-> [handlers |-> RpmBatches \cup RpmOfPackage \cup PluginPackages,
                   facts    |-> {{}, {"package"}}],
     service  |-> [handlers |-> ServiceChanges \cup PluginServices,
                   facts    |-> {{"unit"}, {"unit", "active"}}],
     kernel   |-> [handlers |-> SysctlChange \cup SysctlReads,
                   facts    |-> {{}}],
     port     |-> [handlers |-> FirewallPorts \cup FirewallStates,
                   facts    |-> {{"firewalld"}, {"firewalld", "savedPort"}}],
     rule     |-> [handlers |-> FirewallRules,
                   facts    |-> {{"firewalld"}, {"firewalld", "savedSource", "source"}}],
     zone     |-> [handlers |-> FirewallReads \cup FirewallZones,
                   facts    |-> {{"firewalld"}, {"firewalld", "card"}}],
     user     |-> [handlers |-> UserReads \cup UserChanges,
                   facts    |-> {{}, {"user"}}],
     disk     |-> [handlers |-> DiskChanges,
                   facts    |-> {{}, {"mounted"}}],
     file     |-> [handlers |-> FileBroadcast \cup FileReads,
                   facts    |-> {{}, {"file", "old"}}],
     network  |-> [handlers |-> NetworkConnection \cup NetworkConfig,
                   facts    |-> {{"card"}, {"card", "settings"}}],
     command  |-> [handlers |-> PluginCommands \cup SingleCommand,
                   facts    |-> {{}}],
     software |-> [handlers |-> RpmReads \cup RepoReads \cup ServiceReads,
                   facts    |-> {{}}],
     devices  |-> [handlers |-> DiskReads \cup NetworkReads,
                   facts    |-> {{}}],
     machine  |-> [handlers |-> MachineReads,
                   facts    |-> {{}, {"inTime"}}]]

Logs(style) == style \in {"batch", "logged"}
ManyMachines(style) == style \in {"batch", "package", "command"}

VARIABLES
    area,       \* the area of this behaviour
    connected,  \* machines in the agent map
    breaks,     \* connections broken so far
    broken,     \* machines whose connection has broken
    errors,     \* statements failed so far
    host,       \* the facts of each machine
    request,    \* the handler goroutine of each request
    stream,     \* requests whose answers the agent of each machine has sent and
                \* its listener has not cut off, in their order
    unread      \* how many of them, the last ones, the listener has not read

wire == <<stream, unread>>
vars == <<area, connected, breaks, broken, errors, host, request, wire>>

Request == 1 .. MaxRequests
NoStatus == <<>>
NewRequest == [pc |-> "new", style |-> "single", op |-> "RunCommand", form |-> "good", calls |-> <<>>,
               todo |-> <<>>, run |-> <<>>, lost |-> FALSE, tried |-> <<>>, saved |-> FALSE,
               rows |-> <<>>, status |-> NoStatus, answers |-> <<>>, alone |-> TRUE]

\* A call: an operation on a machine.  The first two of a chain look, the rest
\* depend on the assignment asked for.
CallsOf(style, op, list, form) ==
    IF style = "chain" THEN [i \in 1 .. IF form = "other" THEN 2 ELSE Len(Chain) |->
                                [on |-> list[1], op |-> Chain[i]]]
    ELSE [i \in 1 .. Len(list) |-> [on |-> list[i], op |-> op]]

Init ==
    /\ area \in DOMAIN Areas
    /\ connected = Machine
    /\ breaks = 0 /\ broken = {} /\ errors = 0
    /\ \E facts \in Areas[area].facts : host = [m \in Machine |-> facts]
    /\ request = [r \in Request |-> NewRequest]
    /\ stream = [m \in Machine |-> <<>>] /\ unread = [m \in Machine |-> 0]

Set(r, q) == request' = [request EXCEPT ![r] = q]
Fail(n) == errors + n <= MaxErrors /\ errors' = errors + n
Open(r) == request[r].pc \notin {"new", "end"}
Call(r) == Head(request[r].todo)
Named == UNION {{r} \X DOMAIN request[r].calls : r \in {q \in Request : ManyMachines(request[q].style)}}
Calling(m) == {r \in Request : request[r].pc \in {"work", "sent"} /\ Call(r).on = m}

------------------------------------------------------------------------------
\* How a handler ends.

Answer(q, answer) == [q EXCEPT !.answers = Append(@, answer), !.pc = "end"]

\* Variant: 500 behind an answer that was given.
PanicAnswers(q) == [q EXCEPT !.answers = Append(@, "panic"), !.pc = "end"]

\* Recover answers 500 when nothing has been answered yet.
Panic(q) == [q EXCEPT !.answers = IF @ = <<>> THEN <<"panic">> ELSE @, !.pc = "end"]

Verdict(ok) == IF ok THEN "ok" ELSE "fail"

\* CompareTimeHandler takes the data for a time, which is empty if there was an
\* error, and compares it with its own clock.
Agrees(c, did, clock) == c.op = "GetTimeInfo" => did /\ clock

\* A call that came back: whether the host function did all it had to, whether
\* the clocks agree, and whether it is good for the handler.  A call on a
\* machine there is no agent for.
Tried(c, did, facts) ==
    LET clock == "inTime" \in facts
    IN  [on |-> c.on, op |-> c.op, did |-> did, clock |-> clock,
         ok |-> Accepted(c.op, did, facts) /\ Agrees(c, did, clock), asked |-> TRUE]
NotAsked(c) ==
    [on |-> c.on, op |-> c.op, did |-> FALSE, clock |-> FALSE, ok |-> FALSE, asked |-> FALSE]

\* Variant: an error of the log is passed over.
PassesOver(q, t) == FALSE

\* When a statement of the log has failed the handler prints err, which is the
\* error of something else: of the parent log where the agent is missing, and
\* of the call after it.  It is nil when that went well, and err.Error()
\* panics.
NilError(q, t) == IF t.asked THEN t.ok ELSE q.saved

BatchActionStatus(tried) ==
    <<Cardinality({i \in DOMAIN tried : tried[i].ok}), Len(tried)>>

\* Variant: it is enough that one machine is done.
AnyActionStatus(tried) == tried = <<>> \/ \E i \in DOMAIN tried : tried[i].ok

ActionStatus(tried) == \A i \in DOMAIN tried : tried[i].ok

\* The parent log gets its status, if it is there.
WithStatus(q, status) == [q EXCEPT !.status = IF q.saved THEN status ELSE NoStatus]

------------------------------------------------------------------------------
\* The handlers.

IsNext(r) == request[r].pc = "new" /\ \A p \in 1 .. r - 1 : request[p].pc # "new"

\* The next request arrives with a form the handler goes on with.
\* ParentAgentLog may fail, which is only printed.
Arrive(r, handler, list, form) ==
    LET calls == CallsOf(handler[1], handler[2], list, form)
    IN  /\ IsNext(r)
        /\ IF ManyMachines(handler[1]) THEN Cardinality(Named) + Len(list) <= MaxNamed
                                       ELSE Len(list) = 1
        /\ \E saved \in IF Logs(handler[1]) THEN BOOLEAN ELSE {FALSE} :
              /\ Fail(IF Logs(handler[1]) /\ ~saved THEN 1 ELSE 0)
              /\ request' = [q \in Request |->
                  IF q = r THEN [NewRequest EXCEPT
                      !.pc = "next", !.style = handler[1], !.op = handler[2], !.form = form,
                      !.calls = calls, !.todo = calls, !.saved = saved,
                      !.alone = \A p \in Request : ~Open(p)]
                  ELSE [request[q] EXCEPT !.alone = FALSE]]
        /\ UNCHANGED <<area, connected, breaks, broken, host, wire>>

\* ... or with one it refuses, before it does anything.
Refuse(r, handler, answer) ==
    /\ IsNext(r)
    /\ Set(r, [NewRequest EXCEPT !.pc = "end", !.style = handler[1], !.op = handler[2],
                                 !.form = "refused", !.answers = <<answer>>, !.alone = FALSE])
    /\ UNCHANGED <<area, connected, breaks, broken, errors, host, wire>>

\* GetAgent finds the agent, and the call is sent.
Ask(r) ==
    /\ request[r].pc = "next" /\ request[r].todo # <<>>
    /\ request[r].style # "package"
    /\ Call(r).on \in connected
    /\ Set(r, [request[r] EXCEPT !.pc = "work", !.run = Commands[Call(r).op]])
    /\ UNCHANGED <<area, connected, breaks, broken, errors, host, wire>>

\* A row in the log of a batch, of a call that was tried, and on to the next
\* machine.
LogAndGoOn(r, q, t) ==
    LET next == [q EXCEPT !.tried = Append(@, t), !.todo = Tail(@), !.pc = "next"]
    IN  \/ Fail(0) /\ Set(r, [next EXCEPT !.rows = Append(@, t.ok)])
        \/ Fail(1) /\ Set(r, IF NilError(q, t) THEN Panic([q EXCEPT !.tried = Append(@, t)]) ELSE next)

\* The row of a logged request, its status and its answer: after the status if
\* it is a success, before it if it is not.
LogAndAnswer(r, q, t) ==
    LET seen == [q EXCEPT !.tried = Append(@, t), !.todo = Tail(@)]
        told == IF t.ok THEN seen ELSE Answer(seen, "fail")
        ends(x) == IF t.ok THEN Answer(x, "ok") ELSE x
    IN  \E logged, updated \in BOOLEAN :
          LET x == IF logged THEN [told EXCEPT !.rows = <<t.ok>>] ELSE told
          IN  /\ Fail(Cardinality({f \in {"row", "status"} : ~(IF f = "row" THEN logged ELSE updated)}))
              /\ Set(r, IF ~logged /\ NilError(q, t) THEN Panic(seen)
                        ELSE IF updated THEN ends(WithStatus(x, BatchActionStatus(<<t>>)))
                        ELSE IF NilError(q, t) THEN Panic(x) ELSE ends(x))

\* GetAgent finds no agent.  A handler for plugins that runs a command goes
\* on, one that installs a package calls a method of nil.
NoAgent(r) ==
    LET q == request[r] IN
    /\ q.pc = "next" /\ q.todo # <<>>
    /\ Call(r).on \notin connected
    /\ CASE q.style = "batch"  -> LogAndGoOn(r, q, NotAsked(Call(r)))
         [] q.style = "logged" -> LogAndAnswer(r, q, NotAsked(Call(r)))
         [] q.style \in {"single", "chain"} ->
              Fail(0) /\ Set(r, Answer([q EXCEPT !.tried = Append(@, NotAsked(Call(r)))], "fail"))
         [] q.style = "command" -> Fail(0) /\ Set(r, [q EXCEPT !.todo = Tail(@)])
         [] q.style = "package" -> Fail(0) /\ Set(r, Panic(q))
    /\ UNCHANGED <<area, connected, breaks, broken, host, wire>>

\* pluginapi.InstallPackage and UninstallPackage pass over the agents they
\* find.
PassOver(r) ==
    LET q == request[r] IN
    /\ q.pc = "next" /\ q.style = "package" /\ q.todo # <<>>
    /\ Call(r).on \in connected
    /\ Set(r, [q EXCEPT !.todo = Tail(@)])
    /\ UNCHANGED <<area, connected, breaks, broken, errors, host, wire>>

\* The answer of the agent is there; its record is the last of tried.
Report(r) ==
    LET q == request[r]
        t == q.tried[Len(q.tried)]
        before == [q EXCEPT !.tried = SubSeq(@, 1, Len(@) - 1)]
    IN
    /\ q.pc = "report"
    /\ CASE q.style = "batch"  -> LogAndGoOn(r, before, t)
         [] q.style = "logged" -> LogAndAnswer(r, before, t)
         [] q.style = "single" -> Fail(0) /\ Set(r, Answer(q, Verdict(t.ok)))
         [] q.style = "chain" ->
              Fail(0) /\ Set(r, IF t.ok THEN [q EXCEPT !.todo = Tail(@), !.pc = "next"]
                                        ELSE Answer(q, "fail"))
         [] q.style = "command" ->
              Fail(0) /\ Set(r, [q EXCEPT !.todo = Tail(@), !.pc = "next",
                                          !.answers = IF t.ok THEN @ ELSE Append(@, "fail")])
    /\ UNCHANGED <<area, connected, breaks, broken, host, wire>>

\* The list is done.  A batch writes the status of its parent log first.  A
\* command without a list is refused, and so is an unknown assignment of
\* addresses.
Conclude(r) ==
    LET q == request[r] IN
    /\ q.pc = "next" /\ q.todo = <<>>
    /\ CASE q.style = "batch" ->
              \E updated \in BOOLEAN :
                 /\ Fail(IF updated THEN 0 ELSE 1)
                 /\ Set(r, IF ~updated /\ q.saved THEN Panic(q)
                           ELSE Answer(IF updated THEN WithStatus(q, BatchActionStatus(q.tried))
                                                  ELSE q,
                                       Verdict(ActionStatus(q.tried))))
         [] q.style = "chain" -> Fail(0) /\ Set(r, Answer(q, Verdict(q.form = "good")))
         [] q.style = "package" -> Fail(0) /\ Set(r, Answer(q, "ok"))
         [] q.style = "command" ->
              \E answer \in IF q.calls = <<>> THEN {"ok", "fail"} ELSE {"ok"} :
                 Fail(0) /\ Set(r, Answer(q, answer))
    /\ UNCHANGED <<area, connected, breaks, broken, host, wire>>

------------------------------------------------------------------------------
\* The agents.

\* The call is done, well or not.
Returned(r, did, facts) ==
    [request[r] EXCEPT !.run = <<>>, !.tried = Append(@, Tried(Call(r), did, facts))]

\* Variant: a host function that fails sends nothing.
ReturnIfDone(r, did, facts) ==
    LET m == Call(r).on IN
    IF request[r].lost \/ ~did
    THEN Set(r, [Returned(r, did, facts) EXCEPT !.pc = "hung"]) /\ UNCHANGED wire
    ELSE /\ Set(r, [Returned(r, did, facts) EXCEPT !.pc = "sent"])
         /\ stream' = [stream EXCEPT ![m] = Append(@, r)]
         /\ unread' = [unread EXCEPT ![m] = @ + 1]

\* The agent sends the answer; if the connection has broken the handler waits
\* for ever.
Return(r, did, facts) ==
    LET m == Call(r).on IN
    IF request[r].lost
    THEN Set(r, [Returned(r, did, facts) EXCEPT !.pc = "hung"]) /\ UNCHANGED wire
    ELSE /\ Set(r, [Returned(r, did, facts) EXCEPT !.pc = "sent"])
         /\ stream' = [stream EXCEPT ![m] = Append(@, r)]
         /\ unread' = [unread EXCEPT ![m] = @ + 1]

\* The agent of m is gone, and with it what it was doing and what was not cut
\* off the stream.
Die(m) ==
    /\ connected' = connected \ {m}
    /\ broken' = broken \cup {m}
    /\ request' = [r \in Request |-> IF r \in Calling(m) THEN [request[r] EXCEPT !.pc = "hung", !.run = <<>>]
                                     ELSE request[r]]
    /\ stream' = [stream EXCEPT ![m] = <<>>]
    /\ unread' = [unread EXCEPT ![m] = 0]

\* A command works.
CommandWorks(r) ==
    LET q == request[r]
        c == Call(r)
        m == c.on
    IN
    /\ q.pc = "work"
    /\ CanWork(Head(q.run), host[m]) /\ ~Kills(c.op, host[m])
    /\ host' = [host EXCEPT ![m] = After(Head(q.run), @)]
    /\ IF Len(q.run) = 1 THEN Return(r, TRUE, host'[m])
                         ELSE Set(r, [q EXCEPT !.run = Tail(@)]) /\ UNCHANGED wire
    /\ UNCHANGED <<area, connected, breaks, broken, errors>>

\* A command is refused or fails, or works and says something the function
\* does not expect.
CommandFails(r) ==
    LET q == request[r]
        c == Call(r)
        m == c.on
    IN
    /\ q.pc = "work" /\ ~Kills(c.op, host[m]) /\ ~Head(q.run).fatal
    /\ \/ UNCHANGED host
       \/ CanWork(Head(q.run), host[m]) /\ host' = [host EXCEPT ![m] = After(Head(q.run), @)]
    /\ Return(r, FALSE, host'[m])
    /\ UNCHANGED <<area, connected, breaks, broken, errors>>

\* A host function panics, and the agent with it.
AgentPanics(r) ==
    LET c == Call(r) IN
    /\ request[r].pc = "work"
    /\ Kills(c.op, host[c.on]) \/ Head(request[r].run).fatal
    /\ Die(c.on)
    /\ UNCHANGED <<area, breaks, errors, host>>

\* The connection breaks, and what was on it is lost.  The agent has died, or
\* goes on with its calls and cannot answer them.
Break(m) ==
    /\ m \in connected /\ breaks < MaxBreaks
    /\ breaks' = breaks + 1
    /\ \/ Die(m)
       \/ /\ connected' = connected \ {m}
          /\ broken' = broken \cup {m}
          /\ request' = [r \in Request |->
                IF r \notin Calling(m) THEN request[r]
                ELSE IF request[r].pc = "work" THEN [request[r] EXCEPT !.lost = TRUE]
                ELSE [request[r] EXCEPT !.pc = "hung"]]
          /\ stream' = [stream EXCEPT ![m] = <<>>]
          /\ unread' = [unread EXCEPT ![m] = 0]
    /\ UNCHANGED <<area, errors, host>>

------------------------------------------------------------------------------
\* The listener of a connection.

\* The first answer in its buffer is cut off, and goes to its handler.
Cut(m) ==
    /\ request' = [request EXCEPT ![Head(stream[m])].pc = "report"]
    /\ stream' = [stream EXCEPT ![m] = Tail(@)]

\* A Read brings some answers; one frame is cut off the buffer: the first of
\* the answers, or a message of another kind that came before it.
ListenerReads(m) ==
    /\ \E n \in 1 .. unread[m] : unread' = [unread EXCEPT ![m] = @ - n]
    /\ Cut(m) \/ UNCHANGED <<request, stream>>
    /\ UNCHANGED <<area, connected, breaks, broken, errors, host>>

\* A Read brings something else (a notice of a file monitor, a part of an
\* answer), and an answer that was held back is cut off.
NoticeArrives(m) ==
    /\ unread[m] < Len(stream[m])
    /\ Cut(m)
    /\ UNCHANGED <<area, connected, breaks, broken, errors, host, unread>>

Step(r) ==
    \/ Ask(r) \/ NoAgent(r) \/ PassOver(r) \/ Report(r) \/ Conclude(r)
    \/ CommandWorks(r) \/ CommandFails(r) \/ AgentPanics(r)

Next ==
    \/ \E r \in Request :
          \/ \E handler \in Areas[area].handlers :
                \/ \E list \in Lists, form \in Forms(handler) : Arrive(r, handler, list, form)
                \/ \E answer \in Refusals(handler) : Refuse(r, handler, answer)
          \/ Step(r)
    \/ \E m \in Machine : ListenerReads(m) \/ NoticeArrives(m) \/ Break(m)

\* Handlers, agents and listeners go on; nobody has to send requests or notices,
\* and no connection has to break.
Spec ==
    /\ Init /\ [][Next]_vars
    /\ \A r \in Request : WF_vars(Step(r))
    /\ \A m \in Machine : WF_vars(ListenerReads(m))
------------------------------------------------------------------------------
(***************************************************************************)
(* Properties.                                                             *)
(***************************************************************************)

Answers == {"ok", "fail", "panic"}

\* The variables hold what the code can put in them.
TypeOK ==
    /\ connected \subseteq Machine /\ broken \subseteq Machine
    /\ breaks \in 0 .. MaxBreaks /\ errors \in 0 .. MaxErrors
    /\ \A m \in Machine : stream[m] \in Seq(Request) /\ unread[m] \in 0 .. Len(stream[m])
    /\ \A r \in Request :
          LET q == request[r] IN
          /\ q.pc \in {"new", "next", "work", "sent", "report", "hung", "end"}
          /\ <<q.style, q.op>> \in Areas[area].handlers \/ q = [NewRequest EXCEPT !.alone = q.alone]
          /\ q.pc = "work" => q.run # <<>>
          /\ Len(q.todo) <= Len(q.calls) /\ Len(q.tried) <= Len(q.calls)
          /\ Len(q.rows) <= Len(q.tried)
          /\ \A i \in DOMAIN q.answers : q.answers[i] \in Answers
          /\ q.pc = "end" => Len(q.answers) = 1

\* A log that has got its status says what its rows say: as many machines done
\* as there are rows that say so, and as many machines as were named, each
\* tried once and in the order of the list; a row is missing only for a
\* machine that was not done.  This is so because a handler that cannot write
\* the row of a success panics.
Count(rows, value) == Cardinality({i \in DOMAIN rows : rows[i] = value})

LogsAgree ==
    \A r \in Request :
       LET q == request[r] IN
       q.status # NoStatus =>
          /\ q.status[1] = Count(q.rows, TRUE)
          /\ q.status[2] = Len(q.calls)
          /\ Count(q.rows, FALSE) <= q.status[2] - q.status[1]
          /\ [i \in DOMAIN q.tried |-> q.tried[i].on] = [i \in DOMAIN q.calls |-> q.calls[i].on]

\* A failure that comes back without an error and is not noticed by the handler
\* either.
Unnoticed(op) == FailureUnseen(op) /\ op # "GetTimeInfo"

\* A success is answered only to a form that was good, if every call that was
\* made did all it had to, unless it is of an operation whose failure is not
\* noticed, and if the clocks that were compared agree.  When a form was good
\* and named machines, a failure is answered only if one of them did not do
\* it, its data were of a shape the method of Agent cannot take, or its clock
\* is off.
AnswerTellsTruth ==
    \A r \in Request :
       LET q == request[r] IN
       /\ q.answers = <<"ok">> =>
             /\ q.form = "good"
             /\ \A i \in DOMAIN q.tried :
                   /\ q.tried[i].did \/ Unnoticed(q.tried[i].op)
                   /\ q.tried[i].op = "GetTimeInfo" => q.tried[i].clock
       /\ q.answers = <<"fail">> /\ q.form = "good" /\ q.calls # <<>> =>
             \E i \in DOMAIN q.tried :
                \/ ~q.tried[i].did
                \/ q.tried[i].op = "GetTimeInfo" /\ ~q.tried[i].clock
                \/ q.tried[i].op \in {"NetTCP", "NetUDP", "NetIOCounter", "NetNICConfig", "DiskInfo",
                                      "RpmSource", "GetNetWorkConnectInfo"}

\* What the message of a success promises of the host: facts that hold, and
\* facts that do not.
Promise(op) ==
    CASE op = "InstallRpm" -> <<{"package"}, {}>>
      [] op = "RemoveRpm" -> <<{}, {"package"}>>
      [] op \in {"ServiceStart", "ServiceRestart"} -> <<{"active"}, {}>>
      [] op = "ServiceStop" -> <<{}, {"active"}>>
      [] op = "ChangeSysctl" -> <<{"parameter"}, {}>>
      [] op = "FirewalldZonePortAdd" -> <<{"savedPort", "port"}, {}>>
      [] op = "FirewalldZonePortDel" -> <<{}, {"savedPort", "port"}>>
      [] op = "FirewalldServiceAdd" -> <<{"savedService", "service"}, {}>>
      [] op = "FirewalldServiceRemove" -> <<{}, {"savedService", "service"}>>
      [] op = "FirewalldSourceAdd" -> <<{"savedSource", "source"}, {}>>
      [] op = "FirewalldSourceRemove" -> <<{}, {"savedSource", "source"}>>
      [] op = "FirewalldSetDefaultZone" -> <<{"zone"}, {}>>
      [] op = "FirewalldRestart" -> <<{"firewalld"}, {}>>
      [] op = "FirewalldStop" -> <<{}, {"firewalld"}>>
      [] op = "AddLinuxUser" -> <<{"user", "password"}, {}>>
      [] op = "DelUser" -> <<{}, {"user"}>>
      [] op = "ChangePermission" -> <<{"mode"}, {}>>
      [] op = "ChangeFileOwner" -> <<{"owner"}, {}>>
      [] op = "DiskMount" -> <<{"mounted"}, {}>>
      [] op = "DiskUMount" -> <<{}, {"mounted"}>>
      [] op = "DiskFormat" -> <<{"formatted"}, {}>>
      [] op = "UpdateFile" -> <<{"file"}, {"old", "cut"}>>
      [] op = "RestartNetWork" -> <<{"network"}, {}>>
      [] op \in {"RunCommand", "RunScript"} -> <<{"run"}, {}>>
      [] OTHER -> <<{}, {}>>

Kept(c) == Promise(c.op)[1] \subseteq host[c.on] /\ Promise(c.op)[2] \cap host[c.on] = {}

Succeeded(r) == request[r].answers = <<"ok">> /\ request[r].alone

\* When a request that was alone with the hosts has been answered a success,
\* every machine it named is as promised.  Not so for the operations whose
\* failure does not come back, and for the packages of plugins.
SuccessKept ==
    \A r \in Request :
       Succeeded(r) /\ request[r].style \notin {"package", "command"} =>
          \A i \in DOMAIN request[r].calls :
             Unnoticed(request[r].calls[i].op) \/ Kept(request[r].calls[i])

\* The same of every handler, the messages of pluginapi/package.go included.
SuccessMeansDone ==
    \A r \in Request :
       Succeeded(r) => \A i \in DOMAIN request[r].calls : Kept(request[r].calls[i])

\* The answer to r is not cut off: it is in the buffer of the listener, and
\* nothing comes that would make it read again.
HeldBack(r) == request[r].pc = "sent" /\ unread[Call(r).on] = 0

\* Every request is answered, be it by a panic, unless the connection of one of
\* its machines has broken, its agent has died, or an answer it waits for came
\* in one Read behind another frame and nothing follows.
AnsweredOrHeldBack ==
    \A r \in Request :
       Open(r) ~>
          \/ request[r].pc = "end" \/ HeldBack(r)
          \/ \E i \in DOMAIN request[r].calls : request[r].calls[i].on \in broken
=============================================================================
