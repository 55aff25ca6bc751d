# Verification of PilotGo

PilotGo manages a fleet of Linux machines: a server (Go, MySQL, Redis, an HTTP
interface for a browser) and one agent process per machine, connected to the
server by TCP. These TLA+ modules model the part of it that is concurrent and
distributed; TLC checks them on small instances and TLAPS proves the
main safety properties for every value of the constants. Paths below are
relative to `src/pkg/`.

## 1. Inventory

### 1.1 Components, their state and operations

| component | state | operations | code |
|---|---|---|---|
| accept loop, handshake | the connection in hand | `Run`, `AddandRunAgent`, `NewAgent`, `Init`, `AddAgents2DB` | `app/server/network/socketserver.go`, `app/server/agentmanager` |
| agent map | `AgentManager.agentMap` (UUID to `Agent`) | `AddAgent`, `GetAgent`, `DeleteAgent` | `app/server/agentmanager/agentmanager.go` |
| listener | the `Agent`, its read buffer | `startListen` | `app/server/agentmanager/agent.go:80` |
| machine table | rows of `machine_node`: UUID, department, state Normal/OffLine/Free | registration, `MachineStatusTo*`, `ModifyMachineDepart`, `ModifyMachineDepart2`, `DeleteMachine` | `app/server/dao/machinemanagerdao.go`, `service/depart`, `service/machine` |
| remote calls | `WaitMap`, two message channels, two streams, read buffers | the methods of `Agent`, `sendMessage`, `ProcessMessage`, `TlvEncode`/`TlvDecode`, `SendBytes` | `agentmanager/agent.go`, `utils/message` |
| agent client | `conn`, `messageChan`, `exitChan`, a sender and a reader per connection | `Run`, `connect`, `Send`, `exitWithError`, the loop of `main` | `app/agent/network/client.go`, `app/agent/main.go` |
| agent handlers, monitors | the host | one handler per message type, `FileMonitor`, `Configfsnotify` | `app/agent/register`, `app/agent/filemonitor`, `app/agent/global` |
| alarm push | websocket clients, `Register`/`Unregister`/`Broadcast`, `WARN_MSG` | `ClientManager.Start`, `Client.Read/Write`, `SendWarnMsgToWeb` | `app/server/network/websocket` |
| scheduled tasks | rows on the server, entries of a cron engine in the agent's memory | create, update, switch, delete | `controller/agentcontroller/cron.go`, `utils/os/common/cron.go` |
| plugins, event bus | list in memory and table; listener list | add, remove, enable | `service/plugin`, `service/eventbus` |
| configuration files | current rows, history rows | save, update, roll back, broadcast | `service/file`, `dao/filedao.go` |
| batches | rows with lists of machine ids | create, update, delete | `service/batch` |
| departments, users, roles | a tree, users in it, roles of users, casbin rows | add, delete, rename, reset | `service/depart`, `service/user`, `dao/roledao.go` |
| sessions | a map with an age and a size limit | set, find, expire | `network/session.go` |
| remote operation controllers | none: one remote call and a log row each | | `controller/agentcontroller` |
| logs, cluster overview, routing, web terminal, database managers, `utils/os` | none of interest, or that of an external tool | | |

### 1.2 How they interact

An agent dials; the kernel completes the connection and queues it; one
goroutine of the server accepts it, starts a listener and a sender goroutine,
asks the agent for its UUID, stores it in the map, asks it for its OS data and
writes its row. The answers to those two requests come through the listener of
the same connection. Later, HTTP handlers call `GetAgent` and the methods of
`Agent`; operators' requests, listeners and handshakes write the same rows of
`machine_node` with no transaction around a read and the write that depends on
it. When a connection ends the listener writes OffLine and deletes the map
entry of its UUID. The agent dials again 5 to 10 seconds later.

Scheduled tasks, configuration files, plugins, batches, departments, users and
roles are rows that handlers read and write one statement at a time: no
transaction, no foreign key, no lock except the one around the list of plugins.
gin runs each request in a goroutine of its own, so statements of several
requests interleave. A scheduled task also exists on the agent, a configuration
file is also written to machines, a batch is a list of ids of machine rows.

### 1.3 What is hard here

- *interleavings*: handshake, listener and operators on one row and one map
  entry; callers, senders, listeners and per-message goroutines on the WaitMap
  and the channels; senders of several connections on one channel;
- *failures*: a connection lost at any point of a handshake or a call, a failing
  SQL statement, an agent that answers an error, a server that stops or panics;
- *ordering*: the end of an old connection seen after the new one is stored; the
  OffLine write before the registration it belongs to; answers out of order,
  two answers in one Read;
- *waiting*: no call has a timeout; the handshake is such a call, and runs in the
  accept loop;
- *partial failure*: a handler of several statements and calls that ends, or goes
  on, after one that failed;
- *stale reads*: an email looked up, a role found unused, a department listed, a
  file read, and the write that depends on it some statements later;
- *results that get lost in layers*: a command of the host fails, the host
  function, the handler of the agent, the method of `Agent` and the handler of
  the server each pass its error on or do not.

`PROJECT.json` lists each hazard at its line. Where the code does go wrong, the
property next to it names the case as an exception, and the hazard says so: the
model has both outcomes, and no property can ask for the better one.

### 1.4 What makes each component correct

| component | properties |
|---|---|
| accept loop, map | one handshake at a time; the map holds the Agent of the live connection and no dead one; every connection is accepted in the end |
| machine table | one row per machine; OffLine exactly for machines that are gone; a registration never changes the department |
| remote calls | at most once; the caller gets the outcome of its own call; every call returns |
| agent client | one connection; only broken connections are closed; a lost one is dialled again |
| alarm push | every alarm reaches every registered page; no send on a closed channel; the manager never blocks |
| scheduled tasks | the row says on exactly when the agent runs the task; a task that runs has a row |
| plugins | list and table agree; one row for a name |
| configuration files | every text a file has had can be gone back to; one version is the latest |
| batches | a batch addresses the machines it was made for, each once |
| departments, users, roles | no reference to a deleted department or role; the tree shows every department; no email twice |
| operations on hosts | an answer is true, a success keeps its promise, a log adds up, every request is answered |

## 2. Modules

| module | what it is |
|---|---|
| `AgentFleet` | the server side of agents: accept loop, listeners, map, `machine_node`, operators, server restarts; its properties |
| `AgentFleetInv` | the inductive invariant of `AgentFleet`, as named conjuncts |
| `AgentFleetProofs` | theorems about `AgentFleet` |
| `RpcContract` | abstract: what a caller of the methods of `Agent` relies on |
| `AgentRpc` | remote calls on one connection; implements `RpcContract` |
| `AgentRpcProofs` | its inductive invariant, theorems, and the proof of that refinement |
| `AgentClient` | the agent's connection, reconnect loop and exit channel; its properties |
| `AgentClientProofs` | the inductive invariant of `AgentClient` and theorems |
| `CronTask` | scheduled tasks: rows on the server, entries of the agent's engine |
| `CronTaskProofs` | its inductive invariant and theorems |
| `ConfigHistory` | configuration files, their versions, update and roll back |
| `PluginManager` | table and list of plugins, and the start that restores the list |
| `PluginManagerProofs` | its inductive invariant and theorems |
| `Batches` | lists of machines made from departments while machines move |
| `Services` | these four side by side |
| `ServicesProofs` | the inductive invariants of the configuration files and of the batches, theorems |
| `Organisation` | departments, the machines and users in them, roles |
| `OrganisationProofs` | its inductive invariant and theorems |
| `HostOperations` | host functions, handlers of the agent and methods of `Agent`, as tables |
| `Operations` | the handlers of the server that use them, their logs and answers |
| `OperationsProofs` | its inductive invariant and theorems |
| `MCAgentFleet`, `MCAgentRpc`, `MCAgentClient`, `MCServices`, `MCOrganisation`, `MCOperations` | instances for TLC |

Operators called *Variant* state a plausible mistake in the code beside the
operator they vary. No specification uses them; putting one in the place of its
original makes a property fail, which is how each property is shown to depend
on the code.

### 2.1 AgentFleet

| variable | code |
|---|---|
| `owner`, `link` | `Agent.conn`: which machine is behind it, and whether TCP still carries it |
| `phase` | the program counter of `AddandRunAgent` for that connection |
| `wire`, `answer` | the answer to the handshake's request, on the stream and read by the listener |
| `listener` | the program counter of `startListen` |
| `agentMap` | `AgentManager.agentMap` |
| `table`, `inserted` | `machine_node` and its key; a deleted row has no machine |
| `request` | an operator's request between its read and its writes |
| `server`, `restarts` | the process |

A connection is numbered in the order in which it is dialled; the kernel queues
connections in that order. Steps are cut where another goroutine, the agent or
MySQL can come between: `Accept`, `Named`, `StoreAgent`, `LookUp`, `CheckRow`,
`ReadDepart`, then `MarkOnline` or `AddRow` are one run of `AddandRunAgent`.
`Uuid(c)` is what `Agent.UUID` holds when the listener reads it: the placeholder
`"agent"` until `Init` has written it. The listener ends at the send to
`WARN_MSG`: that channel is nil, so it blocks there.

The listener cuts one frame per Read. An agent that has just connected may
already have sent a notice of its file monitor; when that and the answer of
the handshake come in one Read (`ReadsBehind`), the notice is cut and the answer
stays in the buffer until another frame arrives (`NoticeArrives`), which nothing
forces. The handshake, and with it the accept loop, waits meanwhile
(`HeldBack`).

`LateDetection` says whether a machine may be back before the server has seen
the end of its previous connection. The code excludes neither: an agent that
is restarted by an init system or loses its route dials before the server's
Read fails; an agent that was stopped in order is seen at once. Properties that
need the end to be seen first say so, and the run in which it is not seen first
shows that they do need it.

Abstractions: addresses, versions and hardware data of a row are left out (no
guard reads them); a SQL statement is atomic, and can fail when `DbErrors`;
reading a row and updating it are separate steps; the department tree is a set
with a root. The race on `Agent.UUID` between `Init` and the listener is
resolved to either the old or the new string.

### 2.2 AgentRpc and RpcContract

A call is one invocation of a method of `Agent` with a fresh UUID, so the call
stands for its UUID. `Ask` is `sendMessage` (store the waiter, then queue, which
blocks on a full channel), `Forward` and `AgentSends` are the two sender
goroutines, `AgentReads` is the agent's reader, `Handle` and `Reply` the
goroutine of a request, `Notify` the file monitors, `ListenerReads(n)` one Read
of the server's listener that brings `n` frames, `Deliver` the goroutine of
`ProcessMessage`. Calls in `Watch` are `ConfigfileInfo`: the agent's handler
watches a file for as long as the agent lives and does not answer.

`RpcContract` has two variables, what the agent did and what the caller got. The
refinement maps them to `outcome` and `result`: a call is carried out at most
once, and a caller gets the outcome of its own call after it was carried out.

Abstractions: a frame arrives whole (a frame of more than 1024 bytes takes
several Reads; those add Reads that bring no new frame, which the model leaves
out, so an answer that was held back may in the code be cut off somewhat
earlier); when the connection is lost everything on it is, and answers that the
agent still holds are not carried over to its next connection.

### 2.3 AgentClient

`run` is the goroutine of the loop in `main`: dialling (with its delay),
waiting on `exitChan`, or about to close. `net` is the TCP state of each
connection; `sender` and `reader` are the two goroutines `connect` started for
it. Senders are never stopped: sender 1 still takes messages when connection 3
is current, and writes to `c.conn`, which is connection 3. `spurious` records the
connections that `Run` closed while they worked.

Abstractions: a reader fails only because its own connection ended (it is
blocked in a Read of that connection; the next one comes at least five
seconds later); a Write to a connection the other side has left may succeed or
fail; failing dials change nothing.

### 2.4 The services: CronTask, ConfigHistory, PluginManager, Batches

In each, a request occupies a slot; its record holds what the handler has read
and which statement or call comes next. A statement is a step. The variables
`excused`, `overlapped`, `early`, `undead`, `raced` and the fields `clear`,
`stayed`, `seen`, `nested` are not in the code: they remember what has happened
to a task, a file, a plugin or a batch that its property makes an exception for.

- `CronTask`: `row` is `crontab_list`, `job` the engine's map of entries. The
  handlers write the row and call `StopAndDel` and `CronStart` in steps of their
  own; a call can be refused, or be carried out and its answer lost. `CronInit`
  is a restart of the agent, which begins with an empty engine. `FlipStatus` is
  what `dao.CronTaskStatus` does: it stores the opposite of what the page shows.
  A work is an expression and a command, each possibly empty. `CreatCron` checks
  them, `UpdateCron` does not; gorm's `Updates` skips the empty fields of the form
  (`Merged`), and the agent is started with the form as it came.
- `ConfigHistory`: `files` and `history` are the two tables, with the names cut
  down to what the code looks for in them: `strings.Contains(name, "latest")` and
  the part before the first dash, which is empty for some: gorm's `Updates` then
  leaves the mark on the row. `past` holds the texts a file has had.
- `PluginManager`: `rows` is the table, `loaded` the map `loadedPlugin`. `main`
  starts the HTTP server before it restores the map, so requests come in
  between `QueryPlugins` and `RestorePluginInfo`. Under the lock a request is one
  step; `Remove` and `UpdatePlugin` write the table before they take it.
- `Batches`: `row` has the id and department of each machine, `batches` how often a
  batch names an id. `MachineList` reads one department; machines move, go and
  come between two of them. `Found` is `ReturnSpecifiedDepart`, which logs an error
  of `SubDepartId` and goes on without the departments below; `Addressed` is
  `BatchIds2UUIDs`, which logs a failed SELECT and appends an empty UUID.
- `Services`: the four share no table, so a property of one holds of all side by
  side, and a behaviour is one of a single service, chosen by `part`.

### 2.5 Organisation

`depart`, `place`, `user`, `role` are the tables; `spent` are the role ids given
so far. `Arrive` takes a request into a slot with its first statement;
`StatementFails` ends any handler between two; `Restart` ends all, and runs
`CreateOrganization`; `CreateAdministratorUser` is the rest of the start.
`IsUserBindingRole` is `strings.Contains` on the digits of ids, so role 1 counts
as bound by role 12. `loose` and `stranded` name the rows for which a property
makes an exception, with the reason.

### 2.6 HostOperations and Operations

A host is a set of facts. `HostOperations` has a table for each of the three
layers: the commands of a host function (what each needs, adds, drops); the shape
in which the agent's handler sends the result, and whether it drops the error;
the shape for which the method of `Agent` takes it. `Fits` is
`mapstructure.Decode`: a list is no record. `Accepted` puts the layers together.

A command is `fatal` when the host function uses its result whatever its error
was: a failure then ends the agent (`GetHostInfo`, `GetDiskUsageInfo`,
`GetCurrentUserInfo`, and the lines `GetRpmSource` and `GetAllUserInfo` take apart).

`Operations` has the handlers of the server in six styles (batch, logged,
single, chain, package, command), that is, by what they do between two calls: look for
the agent, write the parent log, a row for each machine, the status, the answer.
`Panic` is a panic that gin's `Recover` catches. A command of a host is a step and
can fail; requests of any two handlers of one area work on the same host.
`Break` ends a connection; the agent may have died or go on.

The form of a request is good, is refused before anything is done (`Refuse`: an
empty field that is checked, a body that does not parse, a plugin's form without
a batch, which panics), or, of the network, asks for an assignment of addresses
that is neither static nor dhcp: two calls are made and a failure is answered.
`CompareTimeHandler` takes what came back for a time and compares it with the
server's clock (`Agrees`); whether a host's clock is right is one of its facts.

An answer goes into the `stream` of its machine's connection. The listener's Read
brings some of them, and cuts off one frame: the first answer in its buffer, or
a frame of another kind before it. The others wait for the next Read
(`ListenerReads`), which only comes when there is something `unread`, or for
traffic of another kind (`NoticeArrives`). Two requests to one agent are enough for
an answer to be held back.

Abstractions: what a command prints is left out, up to whether the function
accepts it; only the facts an operation is about are kept, and operations of
different areas are about different ones. Handlers that ignore the error of
`c.Bind` and check no field go on with what was parsed, so their forms are good.
Agent handlers that cut a text at its commas (users, disks, the firewall) get
fields without one.


## 3. Runs

| run | instance | shows |
|---|---|---|
| `fleet_late` | 1 machine, 3 connections, 2 departments, 1 operator, 3 rows, 1 restart, late detection, SQL errors | `TypeOK`, `UniqueUuid`, `DeadEntryOnlyInHandshake`, `LostOnlyToOlderListener`, `RegistrationKeepsDepart` |
| `fleet_prompt` | 2 machines, no symmetry (liveness is checked), 3 connections, 3 rows, 1 restart, no operator | `LiveAgentReachable`, `AcceptProgress`, `DeadAgentDropped` |
| `fleet_operator` | 2 machines, 3 connections, 2 departments, 1 operator, 2 rows, 1 restart, SQL errors | `RegisteredNotOffline` |
| `fleet_late_reachable` | 2 machines, 3 connections, late detection | `LiveAgentReachable` is violated |
| `fleet_gone` | 2 machines, 3 connections | `GoneIsOffline` is violated |
| `rpc` | 3 calls (1 watch), 1 notice, channels of 1, up to 2 frames a Read, the link may break | `TypeOK`, `AnswerFindsItsWaiter`, `OneMessagePerCall`, `ImplementsContract`, `AnsweredOrHeldBack` |
| `rpc_coalesced` | 2 calls, link never breaks | `Answered` is violated |
| `client` | 4 connections, 3 messages, channel of 2 | `TypeOK`, `OneConnection`, `ReadErrorsMatchRuns`, `LeftoverExits`, `Reconnects` |
| `services` | two requests at a time. Tasks: 1, of 1 expression and 2 commands or empty, 6 requests, 1 restart. Files: 1, of 3 texts, 3 versions, 5 requests. Plugins: 2, of 2 names, 2 starts, 1 request half way. Batches: 1, of 1 or 2 of 3 departments, 2 machines, 3 rows, any SubDepartId or SELECT failing | `TypeOK`, `NoOrphanJob`, `Agreement`; `NoVersionLost`, `AtMostOneLatest`; `OneRowPerName`, `ListedIsRecorded`; `ReachesItsMachines`; `ServicesTypeOK` |
| `organisation` | a chain of 3 departments and 1 to come, 1 machine, the administrator and 2 users to come, 2 emails, roles 1 and 12, 3 requests, 2 at a time | `TypeOK`, `MachinePlaced`, `UserPlaced`, `ParentNamed`, `EveryDepartShown`, `UniqueEmail`, `BoundRoleStays` |
| `operations` | 2 machines, any 2 handlers of an area, lists of up to 2 machines, 1 broken connection, 1 failing statement | `TypeOK`, `LogsAgree`, `AnswerTellsTruth`, `SuccessKept`, `AnsweredOrHeldBack` |
| `success_means_done` | the same | `SuccessMeansDone` is violated |

*Bounds of the fleet.* `MaxConns = 3` lets one machine be connected, lost and back
twice, so an old listener can meet a newer connection that itself was replaced;
with two machines one waits in the queue behind the other's handshake. Rows are
inserted once per machine and again after a deletion: 3 rows are as many as 3
handshakes can insert. One restart suffices to find rows of the life before.
Channels of one message are full as soon as two goroutines send, which is the
case the capacities 50 and 100 are about. A fourth connection of the client
lets exits of two earlier ones be left over.

*Bounds of the services.* Every exception a property names comes of two requests
that meet, one failure or one restart, and the instances hold one more than
that. Tasks do not touch one another, so one will do; six requests: create,
pause, resume, an update that leaves a field empty, one that is whole again, and a
delete that meets another.
Five on a file: save, two updates, two roll backs, with three texts, so
that a text can be lost that is neither the first nor the last. A plugin of each
name, two starts. Two chosen departments can lie in one another or not; the
third row of a machine is one that was deleted and registered again.

*Bounds of the organisation.* A deleted department has a child and a grandchild
in a chain of 3; the fourth is one added meanwhile. Roles 1 and 12 share a digit.

*Bounds of the operations.* Two requests on one host are enough for one to undo
what the other does between two of its commands. A batch of two machines has
a first one that is done and a second that is not.

What depends on these bounds and is proved without them is in section 5.

*Fairness.* Go schedules every goroutine that can run: weak fairness of the
accept loop, each listener, the senders, readers and handlers, and in
`Operations` of each request's next step, its handler's or its agent's, and of
each listener that has something to read. A goroutine
blocked on a full channel is queued in order of arrival by the runtime: strong
fairness of the two sends that can block in the RPC model. An agent answers
the handshake while it is connected. Nothing forces an agent to dial or to send a notice, a
connection to break, an operator to act, a server to stop or start, a caller to
call, a page to send a request. `AcceptProgress` is therefore conditional: the
accept loop stops for good when an agent is lost inside its handshake (`Hung`),
and until further traffic when the answer is held back (`HeldBack`), which is how
the code is; and `AnsweredOrHeldBack` (of remote calls, and of `Operations`) is
about connections that hold and answers that are not held back. It speaks
of every state in which a request waits, so an answer that is released later
does not end the obligation: a request can go without an answer only if it
is held back for good. `CHECK_DEADLOCK FALSE` is set in every run because the bounds end every
behaviour, and a fleet or a server with nothing to do has nothing to do.

## 4. Where the code and its descriptions part

1. `fleet_late_reachable`. `DeleteAgent` takes a UUID, so the listener of an old
   connection removes the Agent of the new one: the machine is connected, its
   row may be OffLine, and no operation reaches it until it reconnects. The
   manager is described as managing the agents connected to the server
   (`agentmanager.go:26`).
2. `fleet_gone`. A connection that ends while its handshake has its last answer
   is marked OffLine by the listener and then Normal or Free by the handshake,
   against `docs/protocol.md:1540` and `machinemanagerdao.go:74`.
   `ModifyMachineDepart` and `ModifyMachineDepart2` have the same effect: they
   write a state that depends on an older read, or Free in any case.
3. `rpc_coalesced`. The server's listener cuts one frame per Read where the
   agent's reader cuts all: two answers that arrive together leave one caller
   waiting on a connection that works (`agent.go:105`, `agent.go:224`).
4. `success_means_done`. The package handlers for plugins test `agent != nil`
   where they mean its opposite (`pluginapi/package.go:27`, and the message on the
   next line): machines that are connected are passed over, and the answer says
   that the installation is complete (`package.go:38`). A machine that is not
   connected makes them panic.

Observed while modelling, with no statement in the repository that says
otherwise.

- *Fleet and client*: an agent that answers `AgentInfo` with status -1 makes the
  server panic (`agent.go:149`); an agent lost in its handshake stops the accept
  loop, and so does a notice of its file monitor that shares a Read with its answer; a write error beside a read error makes the agent's next `Run` close a
  connection that works (the condition in `ReadErrorsMatchRuns`); a server that
  starts again leaves the rows of machines that do not return as they were.
- *Services*: each exception a property names is a case in which the code does
  leave the two sides apart. Worth naming: a task saved switched off goes on
  running (`cron.go:139`); a restart of the agent empties its engine; an update with an empty command keeps the command of the row and gives the agent
  the empty one (`crondao.go:87`); a comma in
  a command cuts it; a plugin removed while the server starts comes back in the
  list; `UpdatePlugin` looks at one plugin of the list only (`plugin.go:206`); a
  new plugin is enabled in its row and not in the list; a roll back takes the id
  of any row of history (`file.go:177`); a file whose name contains "latest"
  loses versions; one whose name begins with a dash keeps two latest
  (`filedao.go:140`); a batch lacks the departments below one whose query failed
  (`common.go:60`), and a broadcast the machines whose query failed
  (`batchmanagerdao.go:86`), and neither is told; a machine below two chosen departments is in a batch twice.
- *Organisation*: the root can be deleted; departments two levels below a
  deleted one stay, and are shown nowhere; users of a child department stay when
  its parent is deleted; a role of one digit cannot be deleted while a role
  with that digit is used; `UserType` sizes its array by the length of the
  string, so a user with several roles gets type -1 (`user.go:48-50`); an
  imported user has an unhashed password (`user.go:104`); three error branches
  of `rolehandler.go` go on after their answer (121, 143, 165, 187).
- *Operations*: `FirewalldConfig` without a network card ends the agent, and so
  does a failure inside `CurrentUser`, `GetOSInfo` (`system.go:16-23`) and `DiskUsage`
  (`disk.go:28`); the agent's time handler drops its error (`machine.go:172`) and
  `CompareTimeHandler` then fails to parse an empty text; the other assignments of
  addresses are refused after two calls (`network.go:208`); a row of a success that cannot be written makes a batch
  panic half way (`rpm.go:147`); `NetTCP`, `NetUDP`, `NetIOCounter`,
  `NetNICConfig`, `DiskInfo`, `RpmSource` and, if the card has settings,
  `GetNetWorkConnectInfo` never succeed, because the agent sends a list and the
  method takes something else; sysctl and service queries drop their errors, and
  `RunCommand` and `RunScript` do not look at the status.

## 5. Proofs

The theorems hold for any sets and bounds and rest only on the assumption
named in each component's module (distinct placeholder values, bounds that are
naturals).

`AgentFleetProofs`, from `FleetAssumption`:

| theorem | property |
|---|---|
| `TypeCorrect` | `TypeOK` |
| `OneRowPerMachine` | `UniqueUuid` |
| `DeadEntriesAreTransient` | `DeadEntryOnlyInHandshake` |
| `EntriesAreLostToOlderListeners` | `LostOnlyToOlderListener` |
| `PromptDetectionKeepsAgentsReachable` | `LiveAgentReachable`, if `~LateDetection` |
| `PromptDetectionKeepsMachinesShown` | `RegisteredNotOffline`, if `~LateDetection` |
| `DepartmentsChangeByRequestOnly` | `RegistrationKeepsDepart` |

None of the safety properties is inductive. The inductive invariant
(`AgentFleetInv!Inductive`) adds what the argument uses:

- `Dialled`: a connection that is up is the newest of its machine. Without it a
  step of an old handshake could not be told from one of the current;
- `AcceptOrder`: handshakes are done one at a time and in order, because `OnAccept`
  is called in the loop. This is the only thing that keeps two handshakes of
  one machine apart, since `machine_uuid` has no unique key;
- `StillAbsent`: so, between `IsUUIDExist` and `AddNewMachine`, nobody else inserts
  the machine; with `FreshRows` (rows above the key are empty) `UniqueUuid` follows;
- `Answers`: an answer exists only while the handshake waits for it, and a
  listener past its last Read left nothing behind. So a handshake that goes on
  after the listener's end has its answer already, and a listener that
  ended before `Init` (and deleted the placeholder) leaves a handshake that
  never stores its Agent: `DeadEntryOnlyInHandshake`;
- `Entries`: an entry is a stored connection of that machine;
- `OlderSilenced`: without late detection, every older connection of a machine has
  either ended its listener or can no longer learn its UUID: so it cannot touch
  the entry of the newer one, and `ReachableIfPrompt` follows; nor can it write
  OffLine to the row of a machine that is registered again (`ShownIfPrompt`).

Each conjunct has a step lemma with one case per action; `InductiveStep` puts
them together and `InductiveHolds` is the temporal conclusion.

`AgentClientProofs` proves `TypeCorrect`, `AtMostOneConnection`,
`ReadersAloneNeverMislead` and `LeftoversAreFew` (`LeftoverExits`) from
`ClientAssumption`. Its invariant says which connection `Run` is busy with in each
of its three places (`Held`), and that without a failed write the readers that
have exited are exactly those of connections that broke, one for each `Run`
(`Matched`). For `LeftoverExits` goroutines are counted: those whose exit `Run` has taken
are as many as the connections it has left (`Counted`), and a reader has an exit
only if its connection was lost; so the exits that are blocked beyond one come of
writes that failed.

`CronTaskProofs` proves `TypeCorrect` (`TypeOK`) and `OrphanFree` (`NoOrphanJob`)
from `CronAssumption`. The invariant follows a handler between its steps: a
request that is alone with its task (`Alone`) and about to erase the row has
stopped the task (`Erasing`); one about to start a task has read a row that is
still there (`Starting`); a task that was not created yet has neither (`Fresh`).
Only a second request on the same task can come between, which is the exception.
`RowsTellTheTruth` (`Agreement`) needs what holds between the two sides of one
handler (`AgreeInv`): the row is written first and says already what the call
will make true, if the form was whole (`RowFirst`), and the tasks on which nothing is open, or nothing but deletes
that have not stopped them, agree (`Settled`).

`ServicesProofs` proves `VersionsAreKept` (`NoVersionLost`) and `LatestIsOne`
(`AtMostOneLatest`) from `FilesAssumption`. Of a file that is not excused every text
is its own or a version's, one version at most is the latest, and where there is
one the current text is a version as well (`FileKept`); that last part is what
makes it safe to write over the file. `Relies` says for each place in the two
handlers what was read and holds still: an update may write only once the
current text is kept, and it has taken the mark off the former latest before it
sets the new one. Two requests on a file excuse it (`Sole`), so nobody else
writes between. `Worn` is what any other step may do to a file without harm.

Of the batches it proves `BatchesReachTheirs` (`ReachesItsMachines`) from
`BatchesAssumption`: `Below`, which stands for the departments under one as
`ReturnSpecifiedDepart` finds them when nothing fails, lists each once and not the
one itself, as in any tree; what is found when statements fail is part of it
(`Found`), and each department of it is still found once. While `MachineList` reads one department after another, machines move.
Of each machine that has been in one of the departments all the time, `Owed` says
that it was read or is in a department still to be read, and not both unless some
of the departments were chosen twice; `Reading` says that what was read was there at
some time and that ids are those of one machine. When no department is left this
is what a batch has to be (`Complete`), and its rows do not change. What a request
still has to read is a list made of lists, and what a broadcast addresses is a sum: `Flattened`
and `SumOverOne` are what the proof needs of these two recursive definitions.
`TypesAreKept` (`ServicesTypeOK`) puts the types of files, plugins and batches
together.

`OrganisationProofs` proves from `OrganisationAssumption`

| theorem | property |
|---|---|
| `TypeCorrect` | `TypeOK` |
| `MachinesArePlaced` | `MachinePlaced` |
| `UsersArePlaced` | `UserPlaced` |
| `ParentsAreNamed` | `ParentNamed` |
| `EmailsAreUnique` | `UniqueEmail` |
| `BoundRolesStay` | `BoundRoleStays` |
| `DepartsAreShown` | `EveryDepartShown` |

The invariant has one conjunct for each pair of a statement that reads and a later
one that relies on it. Between the statements of `DeleteDepart` each machine of
the department is moved, still on the list, or has been moved by somebody else
(`Cleared`); what a rename will copy is the name the parent has (`Copied`); the
email a handler has looked up is in no row, and no other handler has looked it up
(`Unheard`); the role that is about to be deleted is nobody's (`Unbound`); each
unless the row is one of the exceptions. The conjuncts are independent of one
another but for types and ids (`Base`), so each has its own step lemmas.

For the tree, `Hung` says of each department by itself that it is the last root, hangs
on an older one that is in the table, or was left behind. Every step but those
that leave a department behind keeps this, since a new department has the
greatest id, and deleting one deletes its children and leaves behind what is below
them. That each department is then shown
follows up the tree: `Shown` and `Orphaned` are recursive functions, and the proof
takes the least department that is neither (`Least`); that the functions exist at all
and satisfy their equations (`ClimbsExist`, `ShownUnfolds`, `OrphanedUnfolds`) is
shown in the same way, by the least bound up to which there is none.

`OperationsProofs`, from `OperationsAssumption`:

| theorem | property |
|---|---|
| `TypeCorrect` | `TypeOK` |
| `LogsAreRight` | `LogsAgree` |
| `AnswersAreTrue` | `AnswerTellsTruth` |
| `SuccessIsKept` | `SuccessKept` |

`AnswersAreTrue` says of a success that the form was good, that every call
did all it had to, but for the operations whose failure nobody notices
(`Unnoticed`: sysctl and service queries, `RunCommand`, `RunScript`), and that the
clocks compared agree; of a failure to a good form with machines that a call did
not do all, a clock is off or a shape does not fit. It says nothing of
a refused form but that its answer is no success.

The invariant is `Handling` and `Wired`. `Wired` is about the streams: an answer on
a stream is one that a request waits for, from that machine, and it is there
once; so what the listener cuts off moves on a request that waits, and a break
leaves no answer behind for a request that no longer does.
In `Handling`, the first three properties are about one request at a time: `Sound` says where it is in its
list of calls, that it has a result for each call made so far, in order, and that
its rows count those results (`Going`); when it has ended, the log and the answer
follow (`Finished`). A step that makes a call appends to a list, so the counts
change by one (`OksAppend`, `CountAppend`) and no induction is needed.
`SuccessKept` is about hosts. While a request is alone (`Alone`) only its own commands
change them. `Held` says that the promise of every call that did what it had to is
still kept by its host, and that the commands of the call being made have left
what the rest of them build on (`Due`: a rule is in the saved configuration
before the reload makes it current; a file is copied before it is replaced).
For each operation a lemma shows that its commands lead to its promise (`Keeps`). A
request calls one operation on its machines, or the chain of the network card on
one machine, where the restart keeps what the rewrite of the file has promised
(`ChainStays`).

`PluginManagerProofs` proves `OneRow` (`OneRowPerName`) and `Recorded`
(`ListedIsRecorded`) from `PluginAssumption`. What `AddPlugin` looks at is the
map, not the table; so the invariant says when the map knows every row: once the
start is done, and before that what was queried does (`Known`), which is itself
free of double names and newer than nothing but removals (`Snapshot`); the row of
a plugin being removed is gone or counted among those that could not be deleted
(`Removed`).

`AgentRpcProofs`, from `RpcAssumption`, and from `Spec`, so without fairness:

| theorem | property |
|---|---|
| `TypeCorrect` | `TypeOK` |
| `NeverLostNorRepeated` | `OneMessagePerCall` |
| `AnswersAreAwaited` | `AnswerFindsItsWaiter` |
| `CallsKeepTheContract` | `ImplementsContract`, which is `RpcContract!Spec` |

The messages of a call are counted in every place that can hold one: two
channels, two streams, a buffer and three sets of goroutines. `Sent` and `Back`
add the places up for each direction (`CopiesAreSentAndBack`), and the invariant
relates the sums to the call. They are 1 together while it waits on a connection
that stands, at most 1 when it broke, 0 when the caller does not wait
(`Single`); the handler has not run while a request is under way and has while an
answer is (`Carried`); a call that is under way is in the WaitMap and has no
result (`Awaited`). Most steps take a frame out of one place and put it into the
next: the `Count` lemmas say what that does to the sums, `FlowKept` and `MovedOn`
that the invariant is kept by it, so that a step lemma is about its two places.
The refinement then follows step by step (`StepImplements`): `Handle` is `Serve`, which
may happen once because of `Carried`; `Deliver` is `Return`, with the outcome of
its own call because an answer that is delivered has one; everything else
stutters.

*Only model-checked.*

Every invariant and every action property of the passing runs is the property of a
theorem, and so is the refinement. What is left to TLC is liveness, which is
beyond the prover with fairness and `ENABLED`: `AcceptProgress`, `DeadAgentDropped`,
`Reconnects` and the two `AnsweredOrHeldBack`, of `AgentRpc` and of `Operations`.
The library's induction
theorems take an operator as a parameter and cannot be used; where a definition
recurses (the tree, the lists and sums of a batch) the proof takes the least element
of a set for which the claim fails.

## 6. Plan

1. Composition of `AgentClient` and `AgentFleet`: how late the end of a connection
   is seen would follow from the client's delay and from the network, where it is
   a constant now.
2. Proofs: the composition's safety properties, from those of its two parts.

## 7. Not modelled

- *Alarm push* (`websocket`, `SendWarnMsgToWeb`). `WARN_MSG` is declared and never
  made (`agentmanager/agent.go:35`), and `Broadcast` is fed from it alone: nothing is ever
  pushed. What remains of it, a sender that blocks for good, is in the fleet
  (the listener's end) and in the hazards.
- *Event bus*. Its `Init` has no caller, so there is no bus.
- *HTTP session manager*. It is a local variable of a function that returns; `Set`
  and `FindAndFlush` have no caller. `PluginGatewayHandler` gets nil from
  `GetPlugin` for every name; `IsPluginEnabled` and `Check` have no caller.
- *Authentication, authorisation*: evaluation of JWT and casbin rules is library
  code; of users and roles the rows are modelled, not passwords, buttons or the
  rules that go with a role.
- *Machine queries* of the handlers in `agent.go`, logs, cluster overview,
  routing: they read, or write one row that nothing else reads. *Web terminal*:
  copies bytes. *Database managers*, *agent storage and configuration*: start-up
  code that ends the process when it fails. *Frontend*.
- *Host commands*: what they print and how it is parsed, beyond whether it is accepted.
- *Frames*: longer than one Read; unknown tags (both ends send known ones
  only); a short write (`net.Conn.Write` returns one only with an error).
- *Files, batches, scripts*: two requests that create a file of one name at once
  (`file.go:74`), rows of `configfiledao.go`, the name in `UpdateBatch`, the deletion of
  a log during a batch, rows of scripts.
