--------------------------- MODULE OperationsProofs ---------------------------
(***************************************************************************)
(* Proofs about Operations, for every number of machines and requests and  *)
(* all lists of machines: what the logs say and what the answers promise.  *)
(***************************************************************************)
EXTENDS Operations, FiniteSetTheorems, SequenceTheorems, TLAPS

------------------------------------------------------------------------------
(***************************************************************************)
(* The inductive invariant.  Sound says of one request, whatever the hosts *)
(* are like, how far it is in its list of calls and what its log and its   *)
(* answer say; Alone and Held relate a request to the others and to the    *)
(* hosts.                                                                  *)
(***************************************************************************)

Style == {"batch", "logged", "single", "chain", "package", "command"}
PC == {"new", "next", "work", "sent", "report", "hung", "end"}
Calls == [on : Machine, op : Op]
Results == [on : Machine, op : Op, did : BOOLEAN, clock : BOOLEAN, ok : BOOLEAN, asked : BOOLEAN]
CommandSet == UNION {{Commands[op][i] : i \in DOMAIN Commands[op]} : op \in Op}
FormsOf == {"good", "other", "refused"}
Requests == [pc : PC, style : Style, op : Op, form : FormsOf, calls : Seq(Calls), todo : Seq(Calls),
             run : Seq(CommandSet), lost : BOOLEAN, tried : Seq(Results), saved : BOOLEAN,
             rows : Seq(BOOLEAN), status : {NoStatus} \cup (Nat \X Nat),
             answers : Seq(Answers), alone : BOOLEAN]

\* The operations whose data do not fit.
Misfits == {"NetTCP", "NetUDP", "NetIOCounter", "NetNICConfig", "DiskInfo", "RpmSource",
            "GetNetWorkConnectInfo"}

\* Styles that call every machine in turn and keep the result.
Regular(q) == q.style \notin {"package", "command"}

\* The calls a handler is to make.
Planned(q) ==
    /\ q.style \in {"logged", "single"} => Len(q.calls) = 1
    /\ q.style = "chain" =>
          /\ Len(q.calls) <= Len(Chain)
          /\ \A i \in DOMAIN q.calls : q.calls[i].op = Chain[i] /\ q.calls[i].on = q.calls[1].on
    /\ q.style # "chain" => \A i \in DOMAIN q.calls : q.calls[i].op = q.op
    /\ q.style = "command" => q.op \in IgnoresStatus
    /\ q.form = "other" => q.style = "chain"

\* A result that may stand behind a success, and one behind a failure.
Well(t) ==
    /\ t.did \/ Unnoticed(t.op)
    /\ t.op = "GetTimeInfo" => t.clock
Off(t) ==
    \/ ~t.did
    \/ t.op = "GetTimeInfo" /\ ~t.clock
    \/ t.op \in Misfits

\* What a result tells.
Told(t) == IF t.ok THEN t.asked /\ Well(t) ELSE Off(t)

\* The results of the first calls.
Tallied(q, tried) ==
    /\ Len(tried) <= Len(q.calls)
    /\ \A i \in DOMAIN tried : Told(tried[i])
    /\ Regular(q) => \A i \in DOMAIN tried : tried[i].on = q.calls[i].on /\ tried[i].op = q.calls[i].op
    /\ q.style = "package" => tried = <<>>
    /\ q.style = "command" => \A i \in DOMAIN tried : tried[i].ok

Oks(tried) == Cardinality({i \in DOMAIN tried : tried[i].ok})

\* The rows that say so, and those that do not.
Dones(rows)   == Count(rows, TRUE)
Undones(rows) == Count(rows, FALSE)

\* A request on its way, that has these results.
Going(q, tried) ==
    /\ Tallied(q, tried) /\ q.form # "refused"
    /\ Len(tried) + Len(q.todo) <= Len(q.calls)
    /\ Regular(q) =>
          /\ Len(tried) + Len(q.todo) = Len(q.calls)
          /\ \A i \in DOMAIN q.todo : q.todo[i] = q.calls[Len(tried) + i]
    /\ ~Regular(q) => \A i \in DOMAIN q.todo : q.todo[i].op = q.op
    /\ q.answers = <<>> /\ q.status = NoStatus
    /\ q.style \in {"logged", "single"} => tried = <<>>
    /\ q.style = "chain" => \A i \in DOMAIN tried : tried[i].ok
    /\ q.style = "batch" =>
          /\ Dones(q.rows) = Oks(tried) /\ Undones(q.rows) + Oks(tried) <= Len(tried)
          /\ Len(q.rows) <= Len(tried)
    /\ q.style # "batch" => q.rows = <<>>

\* The rest of the commands of the call being made.
Running(q) ==
    LET all == Commands[Head(q.todo).op]
    IN  /\ q.run # <<>> /\ Len(q.run) <= Len(all)
        /\ \A i \in DOMAIN q.run : q.run[i] = all[Len(all) - Len(q.run) + i]

\* The last result is the one of the call being made.
Reported(q, t) ==
    /\ t.on = Head(q.todo).on /\ t.op = Head(q.todo).op /\ Told(t)
    /\ q.style = "command" => t.ok

Front(tried) == SubSeq(tried, 1, Len(tried) - 1)
Final(tried) == tried[Len(tried)]

LogAgrees(q) ==
    q.status # NoStatus =>
       /\ q.status[1] = Dones(q.rows)
       /\ q.status[2] = Len(q.calls)
       /\ Undones(q.rows) <= q.status[2] - q.status[1]
       /\ [i \in DOMAIN q.tried |-> q.tried[i].on] = [i \in DOMAIN q.calls |-> q.calls[i].on]

Truthful(q) ==
    /\ q.answers = <<"ok">> => q.form = "good" /\ \A i \in DOMAIN q.tried : Well(q.tried[i])
    /\ q.answers = <<"fail">> /\ q.form = "good" /\ q.calls # <<>> =>
          \E i \in DOMAIN q.tried : Off(q.tried[i])

Finished(q) ==
    /\ Len(q.answers) = 1 /\ LogAgrees(q) /\ Truthful(q)
    /\ q.answers = <<"ok">> /\ Regular(q) => Len(q.tried) = Len(q.calls)

Sound(q) ==
    /\ q \in Requests /\ Len(q.todo) <= Len(q.calls)
    /\ q.pc # "new" => Planned(q) /\ Tallied(q, q.tried) /\ Len(q.rows) <= Len(q.tried)
    /\ q.pc \in {"next", "work"} => Going(q, q.tried)
    /\ q.pc \in {"work", "sent", "report"} => q.todo # <<>> /\ q.style # "package"
    /\ q.pc = "work" => Running(q)
    /\ q.pc \in {"sent", "report"} => q.tried # <<>> /\ Going(q, Front(q.tried)) /\ Reported(q, Final(q.tried))
    /\ q.pc = "hung" => q.answers = <<>> /\ q.status = NoStatus
    /\ q.pc = "end" => Finished(q)

Handled(q) ==
    IF q.pc = "new" THEN q = [NewRequest EXCEPT !.alone = q.alone]
    ELSE <<q.style, q.op>> \in Areas[area].handlers

Bounded ==
    /\ area \in DOMAIN Areas
    /\ connected \subseteq Machine /\ broken \subseteq Machine
    /\ breaks \in 0 .. MaxBreaks /\ errors \in 0 .. MaxErrors
    /\ DOMAIN host = Machine
    /\ DOMAIN request = Request

RecordsInv == Bounded /\ \A r \in Request : Sound(request[r]) /\ Handled(request[r])

\* While a request is alone no other is at work.
Alone ==
    \A r, p \in Request :
       request[r].alone /\ request[r].pc # "new" /\ p # r => ~Open(p)

\* A host is as an operation promises.
KeptOn(facts, op) == Promise(op)[1] \subseteq facts /\ Promise(op)[2] \cap facts = {}

\* What the commands done so far leave to those to come.
Due(op, n, facts) ==
    /\ op = "FirewalldZonePortAdd" /\ n = 1 => "savedPort" \in facts
    /\ op = "FirewalldServiceAdd" /\ n = 1 => "savedService" \in facts
    /\ op = "FirewalldSourceAdd" /\ n = 1 => "savedSource" \in facts
    /\ op = "FirewalldZonePortDel" /\ n = 1 => "savedPort" \notin facts
    /\ op = "FirewalldServiceRemove" /\ n = 1 => "savedService" \notin facts
    /\ op = "FirewalldSourceRemove" /\ n = 1 => "savedSource" \notin facts
    /\ op = "UpdateFile" /\ n \in 1 .. 3 => "file" \in facts
    /\ op = "UpdateFile" /\ n = 1 => "old" \notin facts

AllDid(tried) == \A i \in DOMAIN tried : tried[i].did \/ Unnoticed(tried[i].op)
KeptIn(c, hosts) == Unnoticed(c.op) \/ KeptOn(hosts[c.on], c.op)
AllKept(tried, hosts) == AllDid(tried) => \A i \in DOMAIN tried : KeptIn(tried[i], hosts)

\* The same while a call is being made, which may repeat one of the list.
Begun(q, hosts) ==
    AllDid(q.tried) =>
       \A i \in DOMAIN q.tried :
          \/ KeptIn(q.tried[i], hosts)
          \/ q.tried[i].on = Head(q.todo).on /\ q.tried[i].op = Head(q.todo).op

\* What a request that is alone has made of the hosts.
HeldWith(q, hosts) ==
    q.alone /\ Regular(q) =>
       /\ q.pc \in {"next", "sent", "report"} => AllKept(q.tried, hosts)
       /\ q.pc = "work" =>
             /\ Begun(q, hosts)
             /\ Due(Head(q.todo).op, Len(q.run), hosts[Head(q.todo).on])
       /\ q.pc = "end" /\ q.answers = <<"ok">> =>
             \A i \in DOMAIN q.calls : KeptIn(q.calls[i], hosts)

Held == \A r \in Request : HeldWith(request[r], host)

Handling == RecordsInv /\ Alone /\ Held

\* The answers on a stream are of calls to that machine that wait for them,
\* and each is there once.
OnStream(requests, m, answers) ==
    /\ answers \in Seq(Request)
    /\ \A i \in DOMAIN answers :
          requests[answers[i]].pc = "sent" /\ Head(requests[answers[i]].todo).on = m
    /\ \A i, j \in DOMAIN answers : answers[i] = answers[j] => i = j

Wired ==
    /\ DOMAIN stream = Machine /\ DOMAIN unread = Machine
    /\ \A m \in Machine : OnStream(request, m, stream[m]) /\ unread[m] \in 0 .. Len(stream[m])

Inductive == Handling /\ Wired

------------------------------------------------------------------------------
(***************************************************************************)
(* The tables of HostOperations.                                           *)
(***************************************************************************)

\* Every operation has commands: one to four.
LEMMA CommandsType ==
    \A op \in Op : Commands[op] \in Seq(CommandSet) /\ Len(Commands[op]) \in 1 .. 4
<1> DEFINE Good(s) == \/ \E a : s = <<a>>
                      \/ \E a, b : s = <<a, b>>
                      \/ \E a, b, c : s = <<a, b, c>>
                      \/ \E a, b, c, d : s = <<a, b, c, d>>
<1>1. \A a, b, c, d : Good(<<a>>) /\ Good(<<a, b>>) /\ Good(<<a, b, c>>) /\ Good(<<a, b, c, d>>)
  OBVIOUS
<1>2. ASSUME NEW s, NEW T, Good(s), \A i \in DOMAIN s : s[i] \in T
      PROVE  s \in Seq(T) /\ Len(s) \in 1 .. 4
  <2>1. ASSUME NEW a, s = <<a>> PROVE s \in Seq(T) /\ Len(s) = 1
    BY <1>2, <2>1
  <2>2. ASSUME NEW a, NEW b, s = <<a, b>> PROVE s \in Seq(T) /\ Len(s) = 2
    BY <1>2, <2>2
  <2>3. ASSUME NEW a, NEW b, NEW c, s = <<a, b, c>> PROVE s \in Seq(T) /\ Len(s) = 3
    BY <1>2, <2>3
  <2>4. ASSUME NEW a, NEW b, NEW c, NEW d, s = <<a, b, c, d>> PROVE s \in Seq(T) /\ Len(s) = 4
    BY <1>2, <2>4
  <2> QED
    BY <1>2, <2>1, <2>2, <2>3, <2>4
<1> HIDE DEF Good
<1>3. \A rule : Good(AddRule(rule)) /\ Good(DropRule(rule))
  BY <1>1 DEF AddRule, DropRule
<1>4. /\ Good(InstallRpm) /\ Good(RemoveRpm) /\ Good(GetAllRpm) /\ Good(GetRpmSource)
      /\ Good(GetRpmInfo) /\ Good(GetRepoSource)
      /\ Good(GetServiceList) /\ Good(GetServiceStatus) /\ Good(StartService)
      /\ Good(StopService) /\ Good(RestartService)
      /\ Good(GetSysctlConfig) /\ Good(TempModifyPar) /\ Good(GetVarNameValue)
  BY <1>1 DEF InstallRpm, RemoveRpm, GetAllRpm, GetRpmSource, GetRpmInfo, GetRepoSource,
     GetServiceList, GetServiceStatus, StartService, StopService, RestartService,
     GetSysctlConfig, TempModifyPar, GetVarNameValue
<1>5. /\ Good(AddZonePort) /\ Good(DelZonePort) /\ Good(FirewalldServiceAdd)
      /\ Good(FirewalldServiceRemove) /\ Good(FirewalldSourceAdd) /\ Good(FirewalldSourceRemove)
      /\ Good(FirewalldSetDefaultZone) /\ Good(FirewalldZoneConfig) /\ Good(Restart) /\ Good(Stop)
      /\ Good(Config)
  BY <1>1, <1>3 DEF AddZonePort, DelZonePort, FirewalldServiceAdd, FirewalldServiceRemove,
     FirewalldSourceAdd, FirewalldSourceRemove, FirewalldSetDefaultZone, FirewalldZoneConfig,
     Restart, Stop, Config
<1>6. /\ Good(AddLinuxUser) /\ Good(DelUser) /\ Good(GetAllUserInfo) /\ Good(GetCurrentUserInfo) /\ Good(ChangePermission)
      /\ Good(ChangeFileOwner) /\ Good(DiskMount) /\ Good(DiskUMount) /\ Good(DiskFormat)
      /\ Good(GetDiskUsageInfo) /\ Good(GetDiskInfo) /\ Good(UpdateFile) /\ Good(FileReadString)
  BY <1>1 DEF AddLinuxUser, DelUser, GetAllUserInfo, GetCurrentUserInfo, ChangePermission, ChangeFileOwner,
     DiskMount, DiskUMount, DiskFormat, GetDiskUsageInfo, GetDiskInfo, UpdateFile, FileReadString
<1>7. /\ Good(GetNICName) /\ Good(ConfigNetworkConnect) /\ Good(GetNetworkConnInfo)
      /\ Good(RestartNetwork) /\ Good(GetTCP) /\ Good(GetUDP) /\ Good(GetIOCounter)
      /\ Good(GetNICConfig) /\ Good(GetHostInfo) /\ Good(GetCPUInfo) /\ Good(GetMemoryConfig)
      /\ Good(GetTime) /\ Good(RunCommand) /\ Good(RunScript) /\ Good(<<Look>>)
  BY <1>1 DEF GetNICName, ConfigNetworkConnect, GetNetworkConnInfo, RestartNetwork, GetTCP,
     GetUDP, GetIOCounter, GetNICConfig, GetHostInfo, GetCPUInfo, GetMemoryConfig, GetTime,
     RunCommand, RunScript
<1>8. \A op \in Op : Good(Commands[op])
  BY <1>4, <1>5, <1>6, <1>7 DEF Op, Commands
<1>9. ASSUME NEW op \in Op
      PROVE  Commands[op] \in Seq(CommandSet) /\ Len(Commands[op]) \in 1 .. 4
  <2>1. \A i \in DOMAIN Commands[op] : Commands[op][i] \in CommandSet
    BY DEF CommandSet
  <2> QED
    BY <1>2, <1>8, <2>1
<1> QED
  BY <1>9

\* Where the data of a call that was done do not fit, the tables disagree.
LEMMA TablesFit == \A op \in Op \ Misfits : Sends[op] = Takes[op] \/ Takes[op] = "nothing"
BY DEF Op, Commands, Misfits,
   Sends, RpmSends, ServiceSends, SysctlSends, FirewallSends, UserSends, DiskSends, FileSends,
   NetworkSends, MachineSends, CommandSends,
   Takes, RpmTakes, RepoTakes, ServiceTakes, SysctlTakes, FirewallTakes, UserTakes, DiskTakes,
   FileTakes, NetReadTakes, NetworkTakes, MachineTakes, TimeTakes, CommandTakes

\* A result is one.
LEMMA ResultIsOne ==
    ASSUME NEW m \in Machine, NEW op \in Op, NEW did \in BOOLEAN, NEW clock \in BOOLEAN,
           NEW ok \in BOOLEAN, NEW asked \in BOOLEAN
    PROVE  [on |-> m, op |-> op, did |-> did, clock |-> clock, ok |-> ok, asked |-> asked] \in Results
BY DEF Results

\* So a call that comes back tells whether it did what it had to, except where
\* a failure is not noticed, and whether the clocks agree.
LEMMA ReturnTells ==
    ASSUME NEW m \in Machine, NEW op \in Op, NEW did \in BOOLEAN, NEW facts,
           NEW t, t = Tried([on |-> m, op |-> op], did, facts)
    PROVE  /\ t \in Results /\ t.on = m /\ t.op = op /\ t.did = did /\ Told(t)
           /\ op \in IgnoresStatus => t.ok
<1>1. Accepted(op, did, facts) \in BOOLEAN
  <2>1. \A x, y : Fits(x, y) \in BOOLEAN
    BY SMT DEF Fits
  <2>2. FailureUnseen(op) \in BOOLEAN
    BY SMT DEF FailureUnseen
  <2> QED
    BY <2>1, <2>2, Zenon DEF Accepted
<1>2. did /\ op \notin Misfits => Accepted(op, did, facts)
  <2>1. did /\ op \notin Misfits => Shape(op, facts) = Sends[op]
    BY DEF Shape, Misfits
  <2> QED
    BY <2>1, TablesFit DEF Accepted, Fits
<1>3. ~did => Accepted(op, did, facts) = FailureUnseen(op)
  BY DEF Accepted
<1>4. op \in IgnoresStatus => op \notin Misfits /\ FailureUnseen(op) /\ op # "GetTimeInfo"
  BY DEF IgnoresStatus, Misfits, FailureUnseen
<1>5. PICK clock \in BOOLEAN, ok \in BOOLEAN :
         /\ t = [on |-> m, op |-> op, did |-> did, clock |-> clock, ok |-> ok, asked |-> TRUE]
         /\ ok <=> Accepted(op, did, facts) /\ (op = "GetTimeInfo" => did /\ clock)
  <2>1. PICK clock \in BOOLEAN : clock = ("inTime" \in facts)
    <3>1. CASE "inTime" \in facts
      <4>1. ("inTime" \in facts) = TRUE
        BY <3>1
      <4> QED
        BY <4>1, Zenon
    <3>2. CASE "inTime" \notin facts
      <4>1. ("inTime" \in facts) = FALSE
        BY <3>2
      <4> QED
        BY <4>1, Zenon
    <3> QED
      BY <3>1, <3>2
  <2>4. (Accepted(op, did, facts) /\ (op = "GetTimeInfo" => did /\ clock)) \in BOOLEAN
    <3>1. PICK acc \in BOOLEAN : acc = Accepted(op, did, facts)
      BY <1>1
    <3>2. (acc /\ (op = "GetTimeInfo" => did /\ clock)) \in BOOLEAN
      OBVIOUS
    <3> QED
      BY <3>1, <3>2, Zenon
  <2>2. PICK ok \in BOOLEAN : ok = (Accepted(op, did, facts) /\ (op = "GetTimeInfo" => did /\ clock))
    BY <2>4, Zenon
  <2>3. t = [on |-> m, op |-> op, did |-> did, clock |-> clock, ok |-> ok, asked |-> TRUE]
    BY <2>1, <2>2, Zenon DEF Tried, Agrees
  <2> QED
    BY <2>2, <2>3
<1>6. t.on = m /\ t.op = op /\ t.did = did /\ t.clock = clock /\ t.ok = ok /\ t.asked
  BY <1>5
<1>7. t \in Results
  <2>1. PICK asked \in BOOLEAN : asked = TRUE
    OBVIOUS
  <2>2. t = [on |-> m, op |-> op, did |-> did, clock |-> clock, ok |-> ok, asked |-> asked]
    BY <1>5, <2>1
  <2> QED
    BY <2>2, ResultIsOne
<1>8. ASSUME ok PROVE Well(t)
  BY <1>3, <1>5, <1>6, <1>8 DEF Well, Unnoticed
<1>9. ASSUME ~ok PROVE Off(t)
  BY <1>2, <1>5, <1>6, <1>9 DEF Off
<1>10. op \in IgnoresStatus => ok
  BY <1>2, <1>3, <1>4, <1>5
<1> QED
  BY <1>5, <1>6, <1>7, <1>8, <1>9, <1>10 DEF Told

\* A handler has a style and an operation.
LEMMA HandlersAre ==
    ASSUME NEW a \in DOMAIN Areas, NEW handler \in Areas[a].handlers
    PROVE  /\ handler = <<handler[1], handler[2]>> /\ handler[1] \in Style /\ handler[2] \in Op
           /\ handler[1] = "command" => handler[2] \in IgnoresStatus
<1> DEFINE Good(S) == \A h \in S : /\ h = <<h[1], h[2]>> /\ h[1] \in Style /\ h[2] \in Op
                                   /\ h[1] = "command" => h[2] \in IgnoresStatus
<1>1. /\ Good(RpmBatches) /\ Good(RpmReads) /\ Good(RpmOfPackage) /\ Good(PluginPackages)
      /\ Good(ServiceReads)
  BY DEF RpmBatches, RpmReads, RpmOfPackage, PluginPackages, ServiceReads, Style, Op, Commands
<1>2. /\ Good(ServiceChanges) /\ Good(PluginServices) /\ Good(SysctlChange) /\ Good(SysctlReads)
  BY DEF ServiceChanges, PluginServices, SysctlChange, SysctlReads, Style, Op, Commands
<1>3. /\ Good(FirewallReads) /\ Good(FirewallPorts) /\ Good(FirewallRules)
      /\ Good(FirewallStates) /\ Good(FirewallZones)
  BY DEF FirewallReads, FirewallPorts, FirewallRules, FirewallStates, FirewallZones, Style, Op,
     Commands
<1>4. /\ Good(UserReads) /\ Good(UserChanges) /\ Good(DiskReads) /\ Good(DiskChanges)
      /\ Good(FileBroadcast) /\ Good(FileReads) /\ Good(RepoReads)
  BY DEF UserReads, UserChanges, DiskReads, DiskChanges, FileBroadcast, FileReads, RepoReads,
     Style, Op, Commands
<1>5. /\ Good(NetworkReads) /\ Good(NetworkConnection) /\ Good(NetworkConfig)
      /\ Good(MachineReads) /\ Good(SingleCommand)
  BY DEF NetworkReads, NetworkConnection, NetworkConfig, MachineReads, SingleCommand, Style, Op,
     Commands
<1>6. Good(PluginCommands)
  BY DEF PluginCommands, Style, Op, Commands, IgnoresStatus
<1> HIDE DEF Good
<1>7. \A S, T : Good(S) /\ Good(T) => Good(S \cup T)
  BY DEF Good
<1>8. /\ Good(RpmBatches \cup RpmOfPackage \cup PluginPackages)
      /\ Good(ServiceChanges \cup PluginServices) /\ Good(SysctlChange \cup SysctlReads)
      /\ Good(FirewallPorts \cup FirewallStates) /\ Good(FirewallReads \cup FirewallZones)
      /\ Good(UserReads \cup UserChanges) /\ Good(FileBroadcast \cup FileReads)
      /\ Good(NetworkConnection \cup NetworkConfig) /\ Good(PluginCommands \cup SingleCommand)
  BY <1>1, <1>2, <1>3, <1>4, <1>5, <1>6, <1>7
<1>9. /\ Good(RpmReads \cup RepoReads \cup ServiceReads) /\ Good(DiskReads \cup NetworkReads)
      /\ Good(MachineReads)
  BY <1>1, <1>4, <1>5, <1>7
<1>10. Good(Areas[a].handlers)
  <2>1. /\ Areas.package.handlers = RpmBatches \cup RpmOfPackage \cup PluginPackages
        /\ Areas.service.handlers = ServiceChanges \cup PluginServices
        /\ Areas.kernel.handlers = SysctlChange \cup SysctlReads
        /\ Areas.port.handlers = FirewallPorts \cup FirewallStates
        /\ Areas.rule.handlers = FirewallRules
        /\ Areas.zone.handlers = FirewallReads \cup FirewallZones
        /\ Areas.user.handlers = UserReads \cup UserChanges
        /\ Areas.disk.handlers = DiskChanges
        /\ Areas.file.handlers = FileBroadcast \cup FileReads
        /\ Areas.network.handlers = NetworkConnection \cup NetworkConfig
        /\ Areas.command.handlers = PluginCommands \cup SingleCommand
        /\ Areas.software.handlers = RpmReads \cup RepoReads \cup ServiceReads
        /\ Areas.devices.handlers = DiskReads \cup NetworkReads
        /\ Areas.machine.handlers = MachineReads
    BY DEF Areas
  <2>2. a \in {"package", "service", "kernel", "port", "rule", "zone", "user", "disk", "file",
               "network", "command", "software", "devices", "machine"}
    BY DEF Areas
  <2> QED
    BY <1>3, <1>4, <1>8, <1>9, <2>1, <2>2
<1> QED
  BY <1>10 DEF Good

------------------------------------------------------------------------------
(***************************************************************************)
(* What the commands of an operation make of a host.                       *)
(***************************************************************************)

\* What is promised.
LEMMA Promises ==
    /\ Promise("InstallRpm") = <<{"package"}, {}>> /\ Promise("RemoveRpm") = <<{}, {"package"}>>
    /\ Promise("ServiceStart") = <<{"active"}, {}>>
    /\ Promise("ServiceRestart") = <<{"active"}, {}>>
    /\ Promise("ServiceStop") = <<{}, {"active"}>>
    /\ Promise("FirewalldZonePortAdd") = <<{"savedPort", "port"}, {}>>
    /\ Promise("FirewalldZonePortDel") = <<{}, {"savedPort", "port"}>>
    /\ Promise("FirewalldServiceAdd") = <<{"savedService", "service"}, {}>>
    /\ Promise("FirewalldServiceRemove") = <<{}, {"savedService", "service"}>>
    /\ Promise("FirewalldSourceAdd") = <<{"savedSource", "source"}, {}>>
    /\ Promise("FirewalldSourceRemove") = <<{}, {"savedSource", "source"}>>
    /\ Promise("FirewalldSetDefaultZone") = <<{"zone"}, {}>>
    /\ Promise("FirewalldRestart") = <<{"firewalld"}, {}>>
    /\ Promise("FirewalldStop") = <<{}, {"firewalld"}>>
    /\ Promise("AddLinuxUser") = <<{"user", "password"}, {}>> /\ Promise("DelUser") = <<{}, {"user"}>>
    /\ Promise("ChangePermission") = <<{"mode"}, {}>>
    /\ Promise("ChangeFileOwner") = <<{"owner"}, {}>>
    /\ Promise("DiskMount") = <<{"mounted"}, {}>> /\ Promise("DiskUMount") = <<{}, {"mounted"}>>
    /\ Promise("DiskFormat") = <<{"formatted"}, {}>>
    /\ Promise("UpdateFile") = <<{"file"}, {"old", "cut"}>>
    /\ Promise("RestartNetWork") = <<{"network"}, {}>>
BY DEF Promise

Promising ==
    {"InstallRpm", "RemoveRpm", "ServiceStart", "ServiceRestart", "ServiceStop",
     "FirewalldZonePortAdd", "FirewalldZonePortDel", "FirewalldServiceAdd",
     "FirewalldServiceRemove", "FirewalldSourceAdd", "FirewalldSourceRemove",
     "FirewalldSetDefaultZone", "FirewalldRestart", "FirewalldStop", "AddLinuxUser", "DelUser",
     "ChangePermission", "ChangeFileOwner", "DiskMount", "DiskUMount", "DiskFormat",
     "UpdateFile", "RestartNetWork"}

\* The others promise nothing, those aside whose failure is not noticed.
LEMMA NoPromises ==
    \A op \in Op : op \notin Promising /\ ~Unnoticed(op) => Promise(op) = <<{}, {}>>
BY DEF Promise, Promising, Unnoticed, FailureUnseen, DropsError, ServiceDrops, SysctlDrops,
   TimeDrops, IgnoresStatus

\* The commands of the operations that promise something.
LEMMA PromisingCommands ==
    /\ Commands["InstallRpm"] = InstallRpm /\ Commands["RemoveRpm"] = RemoveRpm
    /\ Commands["ServiceStart"] = StartService /\ Commands["ServiceRestart"] = RestartService
    /\ Commands["ServiceStop"] = StopService
    /\ Commands["FirewalldZonePortAdd"] = AddRule("savedPort")
    /\ Commands["FirewalldZonePortDel"] = DropRule("savedPort")
    /\ Commands["FirewalldServiceAdd"] = AddRule("savedService")
    /\ Commands["FirewalldServiceRemove"] = DropRule("savedService")
    /\ Commands["FirewalldSourceAdd"] = AddRule("savedSource")
    /\ Commands["FirewalldSourceRemove"] = DropRule("savedSource")
    /\ Commands["FirewalldSetDefaultZone"] = FirewalldSetDefaultZone
    /\ Commands["FirewalldRestart"] = Restart /\ Commands["FirewalldStop"] = Stop
    /\ Commands["AddLinuxUser"] = AddLinuxUser /\ Commands["DelUser"] = DelUser
    /\ Commands["ChangePermission"] = ChangePermission
    /\ Commands["ChangeFileOwner"] = ChangeFileOwner
    /\ Commands["DiskMount"] = DiskMount /\ Commands["DiskUMount"] = DiskUMount
    /\ Commands["DiskFormat"] = DiskFormat
    /\ Commands["UpdateFile"] = UpdateFile /\ Commands["RestartNetWork"] = RestartNetwork
    /\ Commands["GetNICName"] = GetNICName
    /\ Commands["GetNetWorkConnectInfo"] = ConfigNetworkConnect
BY DEF Commands, AddZonePort, DelZonePort, FirewalldServiceAdd, FirewalldServiceRemove,
   FirewalldSourceAdd, FirewalldSourceRemove

\* A command without loads.
LEMMA AfterCommand ==
    \A needs, lacks, adds, drops, facts :
       /\ After(Command(needs, lacks, adds, drops), facts) = (facts \ drops) \cup adds
       /\ CanWork(Command(needs, lacks, adds, drops), facts) =>
             needs \subseteq facts /\ lacks \cap facts = {}
BY DEF After, Command, CanWork

\* A reload.
LEMMA AfterReload ==
    ASSUME NEW facts
    PROVE  /\ "savedPort" \in After(Reload, facts) <=> "savedPort" \in facts
           /\ "port" \in After(Reload, facts) <=> "savedPort" \in facts
           /\ "savedService" \in After(Reload, facts) <=> "savedService" \in facts
           /\ "service" \in After(Reload, facts) <=> "savedService" \in facts
           /\ "savedSource" \in After(Reload, facts) <=> "savedSource" \in facts
           /\ "source" \in After(Reload, facts) <=> "savedSource" \in facts
<1> DEFINE L == {<<"savedPort", "port">>, <<"savedService", "service">>, <<"savedSource", "source">>}
<1>1. After(Reload, facts) = (facts \ {l[2] : l \in L}) \cup {l[2] : l \in {k \in L : k[1] \in facts}}
  <2>1. Reload.loads = L /\ Reload.adds = {} /\ Reload.drops = {}
    BY DEF Reload, Command
  <2>2. (facts \ Reload.drops) \cup Reload.adds = facts
    BY <2>1
  <2> QED
    BY <2>1, <2>2 DEF After
<1> DEFINE p == <<"savedPort", "port">>
           s == <<"savedService", "service">>
           o == <<"savedSource", "source">>
<1>2. /\ p[1] = "savedPort" /\ p[2] = "port" /\ s[1] = "savedService" /\ s[2] = "service"
      /\ o[1] = "savedSource" /\ o[2] = "source"
  OBVIOUS
<1>3. L = {p, s, o}
  OBVIOUS
<1> HIDE DEF L, p, s, o
<1>4. \A x : x \in {l[2] : l \in L} <=> x \in {"port", "service", "source"}
  BY <1>2, <1>3
<1>5. \A x : x \in {l[2] : l \in {k \in L : k[1] \in facts}} <=>
         \/ x = "port" /\ "savedPort" \in facts
         \/ x = "service" /\ "savedService" \in facts
         \/ x = "source" /\ "savedSource" \in facts
  BY <1>2, <1>3
<1> QED
  BY <1>1, <1>4, <1>5

\* The command that is next of those left.
NextOf(op, n) == Commands[op][Len(Commands[op]) - n + 1]

\* A step of an operation that promises something: if it works, and what those
\* before it leave is there, it leaves what those after it need, and the last
\* one makes the promise true.
Keeps(op) ==
    \A n, facts :
       /\ n \in 1 .. Len(Commands[op]) /\ Due(op, n, facts) /\ CanWork(NextOf(op, n), facts)
       => /\ n = 1 => KeptOn(After(NextOf(op, n), facts), op)
          /\ n # 1 => Due(op, n - 1, After(NextOf(op, n), facts))

\* Operations of one command.
LEMMA OneCommand ==
    ASSUME NEW op, NEW needs, NEW lacks, NEW adds, NEW drops, NEW yes, NEW no,
           Commands[op] = <<Command(needs, lacks, adds, drops)>>,
           Promise(op) = <<yes, no>>, yes \subseteq adds, no \subseteq drops, no \cap adds = {}
    PROVE  Keeps(op)
<1> DEFINE c == Command(needs, lacks, adds, drops)
<1>1. \A facts : After(c, facts) = (facts \ drops) \cup adds
  BY AfterCommand
<1> HIDE DEF c
<1>2. Promise(op)[1] = yes /\ Promise(op)[2] = no
  OBVIOUS
<1>3. \A facts : KeptOn(After(c, facts), op)
  BY <1>1, <1>2 DEF KeptOn
<1>4. Len(Commands[op]) = 1 /\ NextOf(op, 1) = c
  BY DEF NextOf, c
<1>5. 1 .. Len(Commands[op]) = {1}
  BY <1>4
<1> QED
  BY <1>3, <1>4, <1>5 DEF Keeps

\* They keep what they promise.
LEMMA OneCommandKeeps ==
    /\ Keeps("InstallRpm") /\ Keeps("RemoveRpm") /\ Keeps("FirewalldSetDefaultZone")
    /\ Keeps("FirewalldStop") /\ Keeps("DelUser") /\ Keeps("ChangePermission")
    /\ Keeps("ChangeFileOwner") /\ Keeps("DiskUMount") /\ Keeps("DiskFormat")
<1>1. Keeps("InstallRpm")
  <2>1. Commands["InstallRpm"] = <<Command({}, {"package"}, {"package"}, {})>>
    BY PromisingCommands DEF InstallRpm
  <2>2. Promise("InstallRpm") = <<{"package"}, {}>>
    BY Promises
  <2> QED
    BY <2>1, <2>2, OneCommand
<1>2. Keeps("RemoveRpm")
  <2>1. Commands["RemoveRpm"] = <<Command({"package"}, {}, {}, {"package"})>>
    BY PromisingCommands DEF RemoveRpm
  <2>2. Promise("RemoveRpm") = <<{}, {"package"}>>
    BY Promises
  <2> QED
    BY <2>1, <2>2, OneCommand
<1>3. Keeps("FirewalldSetDefaultZone")
  <2>1. Commands["FirewalldSetDefaultZone"] = <<Command({"firewalld"}, {"zone"}, {"zone"}, {})>>
    BY PromisingCommands DEF FirewalldSetDefaultZone
  <2>2. Promise("FirewalldSetDefaultZone") = <<{"zone"}, {}>>
    BY Promises
  <2> QED
    BY <2>1, <2>2, OneCommand
<1>4. Keeps("FirewalldStop")
  <2>1. Commands["FirewalldStop"] = <<Command({}, {}, {}, {"firewalld", "port", "service", "source"})>>
    BY PromisingCommands DEF Stop
  <2>2. Promise("FirewalldStop") = <<{}, {"firewalld"}>>
    BY Promises
  <2> QED
    BY <2>1, <2>2, OneCommand
<1>5. Keeps("DelUser")
  <2>1. Commands["DelUser"] = <<Command({"user"}, {}, {}, {"user", "password"})>>
    BY PromisingCommands DEF DelUser
  <2>2. Promise("DelUser") = <<{}, {"user"}>>
    BY Promises
  <2> QED
    BY <2>1, <2>2, OneCommand
<1>6. Keeps("ChangePermission")
  <2>1. Commands["ChangePermission"] = <<Command({}, {}, {"mode"}, {})>>
    BY PromisingCommands DEF ChangePermission
  <2>2. Promise("ChangePermission") = <<{"mode"}, {}>>
    BY Promises
  <2> QED
    BY <2>1, <2>2, OneCommand
<1>7. Keeps("ChangeFileOwner")
  <2>1. Commands["ChangeFileOwner"] = <<Command({"user"}, {}, {"owner"}, {})>>
    BY PromisingCommands DEF ChangeFileOwner
  <2>2. Promise("ChangeFileOwner") = <<{"owner"}, {}>>
    BY Promises
  <2> QED
    BY <2>1, <2>2, OneCommand
<1>8. Keeps("DiskUMount")
  <2>1. Commands["DiskUMount"] = <<Command({"mounted"}, {}, {}, {"mounted"})>>
    BY PromisingCommands DEF DiskUMount
  <2>2. Promise("DiskUMount") = <<{}, {"mounted"}>>
    BY Promises
  <2> QED
    BY <2>1, <2>2, OneCommand
<1>9. Keeps("DiskFormat")
  <2>1. Commands["DiskFormat"] = <<Command({}, {"mounted"}, {"formatted"}, {})>>
    BY PromisingCommands DEF DiskFormat
  <2>2. Promise("DiskFormat") = <<{"formatted"}, {}>>
    BY Promises
  <2> QED
    BY <2>1, <2>2, OneCommand
<1> QED
  BY <1>1, <1>2, <1>3, <1>4, <1>5, <1>6, <1>7, <1>8, <1>9

\* Operations of two.
LEMMA TwoCommands ==
    ASSUME NEW op, NEW c, NEW d, Commands[op] = <<c, d>>,
           \A facts : Due(op, 1, After(c, facts)),
           \A facts : CanWork(d, facts) /\ Due(op, 1, facts) => KeptOn(After(d, facts), op)
    PROVE  Keeps(op)
<1>1. Len(Commands[op]) = 2 /\ NextOf(op, 2) = c /\ NextOf(op, 1) = d
  BY DEF NextOf
<1>2. 1 .. Len(Commands[op]) = {1, 2} /\ 2 - 1 = 1
  BY <1>1
<1> QED
  BY <1>1, <1>2 DEF Keeps

\* StartService, RestartService and StopService look what they have done; the
\* second command of the others does what is promised, or all of it but what
\* the first one has to leave.
LEMMA TwoCommandsKeep ==
    /\ Keeps("ServiceStart") /\ Keeps("ServiceRestart") /\ Keeps("ServiceStop")
    /\ Keeps("AddLinuxUser") /\ Keeps("DiskMount") /\ Keeps("RestartNetWork")
<1>1. Keeps("ServiceStart")
  <2> DEFINE d == Command({"active"}, {}, {}, {})
  <2>1. Commands["ServiceStart"] = <<Command({"unit"}, {}, {"active"}, {}), d>>
    BY PromisingCommands DEF StartService, VerifyActive
  <2>2. Promise("ServiceStart") = <<{"active"}, {}>>
    BY Promises
  <2>3. \A facts : CanWork(d, facts) => KeptOn(After(d, facts), "ServiceStart")
    BY <2>2, AfterCommand DEF KeptOn
  <2>4. \A facts : Due("ServiceStart", 1, facts)
    BY DEF Due
  <2> HIDE DEF d
  <2> QED
    BY <2>1, <2>3, <2>4, TwoCommands
<1>2. Keeps("ServiceRestart")
  <2> DEFINE d == Command({"active"}, {}, {}, {})
  <2>1. Commands["ServiceRestart"] = <<Command({"unit"}, {}, {"active"}, {}), d>>
    BY PromisingCommands DEF RestartService, VerifyActive
  <2>2. Promise("ServiceRestart") = <<{"active"}, {}>>
    BY Promises
  <2>3. \A facts : CanWork(d, facts) => KeptOn(After(d, facts), "ServiceRestart")
    BY <2>2, AfterCommand DEF KeptOn
  <2>4. \A facts : Due("ServiceRestart", 1, facts)
    BY DEF Due
  <2> HIDE DEF d
  <2> QED
    BY <2>1, <2>3, <2>4, TwoCommands
<1>3. Keeps("ServiceStop")
  <2> DEFINE d == Command({}, {"active"}, {}, {})
  <2>1. Commands["ServiceStop"] = <<Command({"unit"}, {}, {}, {"active"}), d>>
    BY PromisingCommands DEF StopService, VerifyInactive
  <2>2. Promise("ServiceStop") = <<{}, {"active"}>>
    BY Promises
  <2>3. \A facts : CanWork(d, facts) => KeptOn(After(d, facts), "ServiceStop")
    BY <2>2, AfterCommand DEF KeptOn
  <2>4. \A facts : Due("ServiceStop", 1, facts)
    BY DEF Due
  <2> HIDE DEF d
  <2> QED
    BY <2>1, <2>3, <2>4, TwoCommands
<1>4. Keeps("AddLinuxUser")
  <2> DEFINE d == Command({"user"}, {}, {"password"}, {})
  <2>1. Commands["AddLinuxUser"] = <<Command({}, {"user"}, {"user"}, {}), d>>
    BY PromisingCommands DEF AddLinuxUser
  <2>2. Promise("AddLinuxUser") = <<{"user", "password"}, {}>>
    BY Promises
  <2>3. \A facts : CanWork(d, facts) => KeptOn(After(d, facts), "AddLinuxUser")
    BY <2>2, AfterCommand DEF KeptOn
  <2>4. \A facts : Due("AddLinuxUser", 1, facts)
    BY DEF Due
  <2> HIDE DEF d
  <2> QED
    BY <2>1, <2>3, <2>4, TwoCommands
<1>5. Keeps("DiskMount")
  <2> DEFINE d == Command({"directory"}, {}, {"mounted"}, {})
  <2>1. Commands["DiskMount"] = <<Command({}, {}, {"directory"}, {}), d>>
    BY PromisingCommands DEF DiskMount
  <2>2. Promise("DiskMount") = <<{"mounted"}, {}>>
    BY Promises
  <2>3. \A facts : CanWork(d, facts) => KeptOn(After(d, facts), "DiskMount")
    BY <2>2, AfterCommand DEF KeptOn
  <2>4. \A facts : Due("DiskMount", 1, facts)
    BY DEF Due
  <2> HIDE DEF d
  <2> QED
    BY <2>1, <2>3, <2>4, TwoCommands
<1>6. Keeps("RestartNetWork")
  <2> DEFINE d == Command({"card"}, {}, {"network"}, {})
  <2>1. Commands["RestartNetWork"] = <<Look, d>>
    BY PromisingCommands DEF RestartNetwork
  <2>2. Promise("RestartNetWork") = <<{"network"}, {}>>
    BY Promises
  <2>3. \A facts : CanWork(d, facts) => KeptOn(After(d, facts), "RestartNetWork")
    BY <2>2, AfterCommand DEF KeptOn
  <2>4. \A facts : Due("RestartNetWork", 1, facts)
    BY DEF Due
  <2> HIDE DEF d
  <2> QED
    BY <2>1, <2>3, <2>4, TwoCommands
<1> QED
  BY <1>1, <1>2, <1>3, <1>4, <1>5, <1>6

\* A rule of the firewall is saved, and loaded by the reload.
LEMMA RulesKeep ==
    /\ Keeps("FirewalldZonePortAdd") /\ Keeps("FirewalldZonePortDel")
    /\ Keeps("FirewalldServiceAdd") /\ Keeps("FirewalldServiceRemove")
    /\ Keeps("FirewalldSourceAdd") /\ Keeps("FirewalldSourceRemove")
<1>1. Keeps("FirewalldZonePortAdd")
  <2> DEFINE c == Command({"firewalld"}, {"savedPort"}, {"savedPort"}, {})
  <2>1. Commands["FirewalldZonePortAdd"] = <<c, Reload>>
    BY PromisingCommands DEF AddRule
  <2>2. \A facts : Due("FirewalldZonePortAdd", 1, facts) <=> "savedPort" \in facts
    BY DEF Due
  <2>3. \A facts : "savedPort" \in After(c, facts)
    BY AfterCommand
  <2>4. Promise("FirewalldZonePortAdd") = <<{"savedPort", "port"}, {}>>
    BY Promises
  <2>5. \A facts : "savedPort" \in facts => KeptOn(After(Reload, facts), "FirewalldZonePortAdd")
    BY <2>4, AfterReload DEF KeptOn
  <2> HIDE DEF c
  <2> QED
    BY <2>1, <2>2, <2>3, <2>5, TwoCommands
<1>2. Keeps("FirewalldZonePortDel")
  <2> DEFINE c == Command({"firewalld", "savedPort"}, {}, {}, {"savedPort"})
  <2>1. Commands["FirewalldZonePortDel"] = <<c, Reload>>
    BY PromisingCommands DEF DropRule
  <2>2. \A facts : Due("FirewalldZonePortDel", 1, facts) <=> "savedPort" \notin facts
    BY DEF Due
  <2>3. \A facts : "savedPort" \notin After(c, facts)
    BY AfterCommand
  <2>4. Promise("FirewalldZonePortDel") = <<{}, {"savedPort", "port"}>>
    BY Promises
  <2>5. \A facts : "savedPort" \notin facts => KeptOn(After(Reload, facts), "FirewalldZonePortDel")
    BY <2>4, AfterReload DEF KeptOn
  <2> HIDE DEF c
  <2> QED
    BY <2>1, <2>2, <2>3, <2>5, TwoCommands
<1>3. Keeps("FirewalldServiceAdd")
  <2> DEFINE c == Command({"firewalld"}, {"savedService"}, {"savedService"}, {})
  <2>1. Commands["FirewalldServiceAdd"] = <<c, Reload>>
    BY PromisingCommands DEF AddRule
  <2>2. \A facts : Due("FirewalldServiceAdd", 1, facts) <=> "savedService" \in facts
    BY DEF Due
  <2>3. \A facts : "savedService" \in After(c, facts)
    BY AfterCommand
  <2>4. Promise("FirewalldServiceAdd") = <<{"savedService", "service"}, {}>>
    BY Promises
  <2>5. \A facts : "savedService" \in facts => KeptOn(After(Reload, facts), "FirewalldServiceAdd")
    BY <2>4, AfterReload DEF KeptOn
  <2> HIDE DEF c
  <2> QED
    BY <2>1, <2>2, <2>3, <2>5, TwoCommands
<1>4. Keeps("FirewalldServiceRemove")
  <2> DEFINE c == Command({"firewalld", "savedService"}, {}, {}, {"savedService"})
  <2>1. Commands["FirewalldServiceRemove"] = <<c, Reload>>
    BY PromisingCommands DEF DropRule
  <2>2. \A facts : Due("FirewalldServiceRemove", 1, facts) <=> "savedService" \notin facts
    BY DEF Due
  <2>3. \A facts : "savedService" \notin After(c, facts)
    BY AfterCommand
  <2>4. Promise("FirewalldServiceRemove") = <<{}, {"savedService", "service"}>>
    BY Promises
  <2>5. \A facts : "savedService" \notin facts => KeptOn(After(Reload, facts), "FirewalldServiceRemove")
    BY <2>4, AfterReload DEF KeptOn
  <2> HIDE DEF c
  <2> QED
    BY <2>1, <2>2, <2>3, <2>5, TwoCommands
<1>5. Keeps("FirewalldSourceAdd")
  <2> DEFINE c == Command({"firewalld"}, {"savedSource"}, {"savedSource"}, {})
  <2>1. Commands["FirewalldSourceAdd"] = <<c, Reload>>
    BY PromisingCommands DEF AddRule
  <2>2. \A facts : Due("FirewalldSourceAdd", 1, facts) <=> "savedSource" \in facts
    BY DEF Due
  <2>3. \A facts : "savedSource" \in After(c, facts)
    BY AfterCommand
  <2>4. Promise("FirewalldSourceAdd") = <<{"savedSource", "source"}, {}>>
    BY Promises
  <2>5. \A facts : "savedSource" \in facts => KeptOn(After(Reload, facts), "FirewalldSourceAdd")
    BY <2>4, AfterReload DEF KeptOn
  <2> HIDE DEF c
  <2> QED
    BY <2>1, <2>2, <2>3, <2>5, TwoCommands
<1>6. Keeps("FirewalldSourceRemove")
  <2> DEFINE c == Command({"firewalld", "savedSource"}, {}, {}, {"savedSource"})
  <2>1. Commands["FirewalldSourceRemove"] = <<c, Reload>>
    BY PromisingCommands DEF DropRule
  <2>2. \A facts : Due("FirewalldSourceRemove", 1, facts) <=> "savedSource" \notin facts
    BY DEF Due
  <2>3. \A facts : "savedSource" \notin After(c, facts)
    BY AfterCommand
  <2>4. Promise("FirewalldSourceRemove") = <<{}, {"savedSource", "source"}>>
    BY Promises
  <2>5. \A facts : "savedSource" \notin facts => KeptOn(After(Reload, facts), "FirewalldSourceRemove")
    BY <2>4, AfterReload DEF KeptOn
  <2> HIDE DEF c
  <2> QED
    BY <2>1, <2>2, <2>3, <2>5, TwoCommands
<1> QED
  BY <1>1, <1>2, <1>3, <1>4, <1>5, <1>6

\* Restart loads what is saved.
LEMMA RestartKeeps == Keeps("FirewalldRestart")
<1> DEFINE c == [Reload EXCEPT !.needs = {}, !.adds = {"firewalld"}]
<1>1. Commands["FirewalldRestart"] = <<c>>
  BY PromisingCommands DEF Restart
<1>2. c.adds = {"firewalld"} /\ c.loads = Reload.loads
  BY DEF Reload
<1>3. \A l \in Reload.loads : l[2] # "firewalld"
  <2>1. Reload.loads = {<<"savedPort", "port">>, <<"savedService", "service">>,
                       <<"savedSource", "source">>}
    BY DEF Reload
  <2>2. /\ <<"savedPort", "port">>[2] = "port" /\ <<"savedService", "service">>[2] = "service"
        /\ <<"savedSource", "source">>[2] = "source"
    OBVIOUS
  <2> QED
    BY <2>1, <2>2
<1> HIDE DEF c
<1>4. \A facts : "firewalld" \in After(c, facts)
  BY <1>2, <1>3 DEF After
<1>5. \A facts : KeptOn(After(c, facts), "FirewalldRestart")
  <2>1. Promise("FirewalldRestart") = <<{"firewalld"}, {}>>
    BY Promises
  <2> QED
    BY <1>4, <2>1 DEF KeptOn
<1>6. Len(Commands["FirewalldRestart"]) = 1 /\ NextOf("FirewalldRestart", 1) = c
  BY <1>1 DEF NextOf
<1>7. 1 .. Len(Commands["FirewalldRestart"]) = {1}
  BY <1>6
<1> QED
  BY <1>5, <1>6, <1>7 DEF Keeps

\* A file is there from the first command on, without its old text from the
\* third, and with the new one after the fourth.
LEMMA UpdateFileKeeps == Keeps("UpdateFile")
<1> DEFINE op == "UpdateFile"
           a == Command({}, {}, {"file"}, {})
           b == Command({}, {}, {"cut"}, {"old"})
           d == Command({}, {}, {}, {"cut"})
<1>1. Commands[op] = <<a, Look, b, d>>
  BY PromisingCommands DEF UpdateFile
<1>2. /\ Len(Commands[op]) = 4 /\ NextOf(op, 4) = a /\ NextOf(op, 3) = Look
      /\ NextOf(op, 2) = b /\ NextOf(op, 1) = d
  BY <1>1 DEF NextOf
<1>3. ASSUME NEW facts
      PROVE  /\ After(a, facts) = facts \cup {"file"} /\ After(Look, facts) = facts
             /\ After(b, facts) = (facts \ {"old"}) \cup {"cut"}
             /\ After(d, facts) = facts \ {"cut"}
  <2>1. After(a, facts) = facts \cup {"file"}
    <3>1. After(a, facts) = (facts \ {}) \cup {"file"}
      BY AfterCommand
    <3>2. facts \ {} = facts
      OBVIOUS
    <3> QED
      BY <3>1, <3>2
  <2>2. After(Look, facts) = facts
    <3>1. Look.loads = {} /\ Look.adds = {} /\ Look.drops = {}
      BY DEF Look, Command
    <3> QED
      BY <3>1 DEF After
  <2>3. After(b, facts) = (facts \ {"old"}) \cup {"cut"}
    BY AfterCommand
  <2>4. After(d, facts) = facts \ {"cut"}
    <3>1. After(d, facts) = (facts \ {"cut"}) \cup {}
      BY AfterCommand
    <3>2. (facts \ {"cut"}) \cup {} = facts \ {"cut"}
      OBVIOUS
    <3> QED
      BY <3>1, <3>2
  <2> QED
    BY <2>1, <2>2, <2>3, <2>4
<1> HIDE DEF a, b, d
<1>4. \A facts : /\ Due(op, 1, facts) <=> "file" \in facts /\ "old" \notin facts
                 /\ Due(op, 2, facts) <=> "file" \in facts
                 /\ Due(op, 3, facts) <=> "file" \in facts
                 /\ KeptOn(facts, op) <=> "file" \in facts /\ "old" \notin facts /\ "cut" \notin facts
  <2>1. \A facts : KeptOn(facts, op) <=> "file" \in facts /\ "old" \notin facts /\ "cut" \notin facts
    <3>1. Promise(op) = <<{"file"}, {"old", "cut"}>>
      BY Promises
    <3> QED
      BY <3>1 DEF KeptOn
  <2>2. \A facts : /\ Due(op, 1, facts) <=> "file" \in facts /\ "old" \notin facts
                   /\ Due(op, 2, facts) <=> "file" \in facts
                   /\ Due(op, 3, facts) <=> "file" \in facts
    BY DEF Due
  <2> QED
    BY <2>1, <2>2
<1>5. 1 .. Len(Commands[op]) = {1, 2, 3, 4}
  BY <1>2
<1> HIDE DEF op
<1>6. ASSUME NEW facts, NEW n \in {1, 2, 3, 4}, Due(op, n, facts)
      PROVE  /\ n = 1 => KeptOn(After(NextOf(op, n), facts), op)
             /\ n # 1 => Due(op, n - 1, After(NextOf(op, n), facts))
  <2>1. CASE n = 1
    BY <1>2, <1>3, <1>4, <1>6, <2>1
  <2>2. CASE n = 2
    <3>1. Due(op, 1, After(b, facts))
      BY <1>3, <1>4, <1>6, <2>2
    <3> QED
      BY <1>2, <2>2, <3>1
  <2>3. CASE n = 3
    <3>1. Due(op, 2, After(Look, facts))
      BY <1>3, <1>4, <1>6, <2>3
    <3> QED
      BY <1>2, <2>3, <3>1
  <2>4. CASE n = 4
    <3>1. Due(op, 3, After(a, facts))
      BY <1>3, <1>4
    <3> QED
      BY <1>2, <2>4, <3>1
  <2> QED
    BY <2>1, <2>2, <2>3, <2>4
<1> QED
  BY <1>5, <1>6 DEF Keeps, op

\* All of them, and those that promise nothing.
LEMMA AllKeep == \A op \in Op : ~Unnoticed(op) => Keeps(op)
<1> SUFFICES ASSUME NEW op \in Op, ~Unnoticed(op) PROVE Keeps(op)
  OBVIOUS
<1>1. CASE op \in Promising
  BY <1>1, OneCommandKeeps, TwoCommandsKeep, RulesKeep, RestartKeeps, UpdateFileKeeps DEF Promising
<1>2. CASE op \notin Promising
  <2>1. \A facts : KeptOn(facts, op)
    BY <1>2, NoPromises DEF KeptOn
  <2>2. \A n, facts : Due(op, n, facts)
    BY <1>2 DEF Due, Promising
  <2> QED
    BY <2>1, <2>2 DEF Keeps
<1> QED
  BY <1>1, <1>2

\* At first nothing is left to do by commands before.
LEMMA DueBegins == \A op \in Op : \A facts : Due(op, Len(Commands[op]), facts)
<1>1. \A op \in Op : op \in {"FirewalldZonePortAdd", "FirewalldServiceAdd", "FirewalldSourceAdd",
                             "FirewalldZonePortDel", "FirewalldServiceRemove",
                             "FirewalldSourceRemove"} => Len(Commands[op]) = 2
  <2>1. \A rule : Len(AddRule(rule)) = 2 /\ Len(DropRule(rule)) = 2
    BY DEF AddRule, DropRule
  <2> QED
    BY <2>1, PromisingCommands
<1>2. Len(Commands["UpdateFile"]) = 4
  BY PromisingCommands DEF UpdateFile
<1> QED
  BY <1>1, <1>2 DEF Due

------------------------------------------------------------------------------
(***************************************************************************)
(* One request: the results it adds, and the rows.                         *)
(***************************************************************************)

\* The counts are numbers, at most the length.
LEMMA OksType ==
    ASSUME NEW tried \in Seq(Results)
    PROVE  Oks(tried) \in 0 .. Len(tried)
<1> DEFINE S == {i \in DOMAIN tried : tried[i].ok}
<1>1. S \subseteq 1 .. Len(tried) /\ Len(tried) \in Nat
  OBVIOUS
<1>2. IsFiniteSet(1 .. Len(tried)) /\ Cardinality(1 .. Len(tried)) = Len(tried)
  <2>1. 1 \in Int /\ Len(tried) \in Int
    BY <1>1
  <2>2. Cardinality(1 .. Len(tried)) = IF 1 > Len(tried) THEN 0 ELSE Len(tried) - 1 + 1
    BY <2>1, FS_Interval
  <2> QED
    BY <1>1, <2>1, <2>2, FS_Interval
<1>3. IsFiniteSet(S) /\ Cardinality(S) <= Len(tried)
  BY <1>1, <1>2, FS_Subset
<1>4. Cardinality(S) \in Nat
  BY <1>3, FS_CardinalityType
<1> QED
  BY <1>1, <1>3, <1>4 DEF Oks

\* So are the counts of rows.
LEMMA CountType ==
    ASSUME NEW rows \in Seq(BOOLEAN)
    PROVE  Dones(rows) \in 0 .. Len(rows) /\ Undones(rows) \in 0 .. Len(rows)
<1>1. ASSUME NEW S, S \subseteq 1 .. Len(rows) PROVE Cardinality(S) \in 0 .. Len(rows)
  <2>1. Len(rows) \in Nat
    OBVIOUS
  <2>2. IsFiniteSet(1 .. Len(rows)) /\ Cardinality(1 .. Len(rows)) = Len(rows)
    <3>1. 1 \in Int /\ Len(rows) \in Int
      BY <2>1
    <3>2. Cardinality(1 .. Len(rows)) = IF 1 > Len(rows) THEN 0 ELSE Len(rows) - 1 + 1
      BY <3>1, FS_Interval
    <3> QED
      BY <2>1, <3>1, <3>2, FS_Interval
  <2>3. IsFiniteSet(S) /\ Cardinality(S) <= Len(rows)
    BY <1>1, <2>2, FS_Subset
  <2>4. Cardinality(S) \in Nat
    BY <2>3, FS_CardinalityType
  <2> QED
    BY <2>1, <2>3, <2>4
<1>2. /\ {i \in DOMAIN rows : rows[i] = TRUE} \subseteq 1 .. Len(rows)
      /\ {i \in DOMAIN rows : rows[i] = FALSE} \subseteq 1 .. Len(rows)
  OBVIOUS
<1> QED
  BY <1>1, <1>2, Zenon DEF Dones, Undones, Count

\* One more result, and one more row.
LEMMA OksAppend ==
    ASSUME NEW tried \in Seq(Results), NEW t \in Results
    PROVE  Oks(Append(tried, t)) = Oks(tried) + IF t.ok THEN 1 ELSE 0
<1> DEFINE n == Len(tried) + 1
           S == {i \in DOMAIN tried : tried[i].ok}
           more == Append(tried, t)
           M == {i \in DOMAIN more : more[i].ok}
<1>1. /\ DOMAIN tried = 1 .. Len(tried) /\ DOMAIN more = 1 .. n /\ more[n] = t
      /\ \A i \in DOMAIN tried : more[i] = tried[i]
  OBVIOUS
<1>2. S \subseteq 1 .. Len(tried) /\ n \notin S
  BY <1>1
<1>3. IsFiniteSet(S)
  <2>1. IsFiniteSet(1 .. Len(tried))
    BY FS_Interval
  <2> QED
    BY <1>2, <2>1, FS_Subset
<1> HIDE DEF more
<1>4. M = IF t.ok THEN S \cup {n} ELSE S
  <2>1. \A i : i \in DOMAIN more <=> i \in DOMAIN tried \/ i = n
    BY <1>1
  <2> HIDE DEF n
  <2>2. \A i : i \in M <=> i \in S \/ (i = n /\ t.ok)
    BY <1>1, <2>1
  <2> HIDE DEF M, S
  <2> QED
    BY <2>2
<1>5. Cardinality(S \cup {n}) = Cardinality(S) + 1
  BY <1>2, <1>3, FS_AddElement
<1>6. Cardinality(S) \in Nat
  BY <1>3, FS_CardinalityType
<1>7. Oks(more) = Cardinality(M) /\ Oks(tried) = Cardinality(S)
  BY DEF Oks
<1> HIDE DEF M, S
<1> QED
  BY <1>4, <1>5, <1>6, <1>7 DEF more

\* A row more counts for its value.
LEMMA CountAppendValue ==
    ASSUME NEW rows \in Seq(BOOLEAN), NEW row \in BOOLEAN, NEW value
    PROVE  Count(Append(rows, row), value) = Count(rows, value) + IF row = value THEN 1 ELSE 0
<1> DEFINE n == Len(rows) + 1
           S == {i \in DOMAIN rows : rows[i] = value}
           more == Append(rows, row)
           M == {i \in DOMAIN more : more[i] = value}
<1>1. /\ DOMAIN rows = 1 .. Len(rows) /\ DOMAIN more = 1 .. n /\ more[n] = row
      /\ \A i \in DOMAIN rows : more[i] = rows[i]
  OBVIOUS
<1>2. S \subseteq 1 .. Len(rows) /\ n \notin S
  BY <1>1
<1>3. IsFiniteSet(S)
  <2>1. IsFiniteSet(1 .. Len(rows))
    BY FS_Interval
  <2> QED
    BY <1>2, <2>1, FS_Subset
<1> HIDE DEF more
<1>4. M = IF row = value THEN S \cup {n} ELSE S
  <2>1. \A i : i \in DOMAIN more <=> i \in DOMAIN rows \/ i = n
    BY <1>1
  <2> HIDE DEF n
  <2>2. \A i : i \in M <=> i \in S \/ (i = n /\ row = value)
    BY <1>1, <2>1
  <2> HIDE DEF M, S
  <2> QED
    BY <2>2
<1>5. Cardinality(S \cup {n}) = Cardinality(S) + 1
  BY <1>2, <1>3, FS_AddElement
<1>6. Cardinality(S) \in Nat
  BY <1>3, FS_CardinalityType
<1>7. Count(more, value) = Cardinality(M) /\ Count(rows, value) = Cardinality(S)
  BY DEF Count
<1> HIDE DEF M, S
<1> QED
  BY <1>4, <1>5, <1>6, <1>7 DEF more

\* It is one that says done, or one that does not.
LEMMA CountAppend ==
    ASSUME NEW rows \in Seq(BOOLEAN), NEW row \in BOOLEAN
    PROVE  /\ Dones(Append(rows, row)) = Dones(rows) + IF row THEN 1 ELSE 0
           /\ Undones(Append(rows, row)) = Undones(rows) + IF row THEN 0 ELSE 1
<1>1. CASE row = TRUE
  <2>1. Dones(Append(rows, row)) = Dones(rows) + 1
    BY <1>1, CountAppendValue, Zenon DEF Dones
  <2>2. Undones(Append(rows, row)) = Undones(rows) + 0
    BY <1>1, CountAppendValue, Zenon DEF Undones
  <2> QED
    BY <1>1, <2>1, <2>2
<1>2. CASE row = FALSE
  <2>1. Dones(Append(rows, row)) = Dones(rows) + 0
    BY <1>2, CountAppendValue, Zenon DEF Dones
  <2>2. Undones(Append(rows, row)) = Undones(rows) + 1
    BY <1>2, CountAppendValue, Zenon DEF Undones
  <2> QED
    BY <1>2, <2>1, <2>2
<1> QED
  BY <1>1, <1>2

\* Of nothing nothing is counted.
LEMMA CountNothing == Oks(<<>>) = 0 /\ Dones(<<>>) = 0 /\ Undones(<<>>) = 0
BY FS_EmptySet DEF Oks, Dones, Undones, Count

\* What is planned and tallied depends on the calls, the style and the
\* operation only.
LEMMA SamePlan ==
    ASSUME NEW q, NEW p, p.style = q.style, p.op = q.op, p.form = q.form, p.calls = q.calls
    PROVE  /\ Planned(q) => Planned(p) /\ \A tried : Tallied(q, tried) => Tallied(p, tried)
           /\ Regular(q) <=> Regular(p)
BY DEF Planned, Tallied, Regular

\* The result of the call being made is the next one of the calls.
LEMMA OneMoreTallied ==
    ASSUME NEW q \in Requests, NEW tried \in Seq(Results), NEW t \in Results,
           Going(q, tried), q.todo # <<>>, Reported(q, t), q.style # "package"
    PROVE  /\ Tallied(q, Append(tried, t))
           /\ Append(tried, t) \in Seq(Results) /\ Len(Append(tried, t)) = Len(tried) + 1
<1> DEFINE more == Append(tried, t)
<1>1. /\ more \in Seq(Results) /\ Len(more) = Len(tried) + 1 /\ Len(tried) \in Nat
      /\ DOMAIN more = 1 .. Len(tried) + 1 /\ DOMAIN tried = 1 .. Len(tried)
      /\ more[Len(tried) + 1] = t /\ \A i \in DOMAIN tried : more[i] = tried[i]
  OBVIOUS
<1>2. q.todo \in Seq(Calls) /\ q.calls \in Seq(Calls) /\ Len(q.todo) \in Nat /\ Len(q.todo) > 0
  BY DEF Requests
<1>3. Len(more) <= Len(q.calls)
  <2>1. Len(tried) + Len(q.todo) <= Len(q.calls)
    BY DEF Going
  <2> QED
    BY <1>1, <1>2, <2>1
<1>4. Tallied(q, tried) /\ Told(t)
  BY DEF Going, Reported
<1>5. \A i \in DOMAIN more : i \in DOMAIN tried \/ i = Len(tried) + 1
  BY <1>1
<1>6. \A i \in DOMAIN more : Told(more[i])
  BY <1>1, <1>4, <1>5 DEF Tallied
<1>7. ASSUME Regular(q), NEW i \in DOMAIN more
      PROVE  more[i].on = q.calls[i].on /\ more[i].op = q.calls[i].op
  <2>1. CASE i \in DOMAIN tried
    BY <1>1, <1>4, <1>7, <2>1 DEF Tallied
  <2>2. CASE i = Len(tried) + 1
    <3>1. Head(q.todo) = q.todo[1] /\ 1 \in DOMAIN q.todo
      BY <1>2
    <3>2. q.todo[1] = q.calls[Len(tried) + 1]
      BY <1>7, <3>1 DEF Going
    <3> QED
      BY <1>1, <2>2, <3>1, <3>2 DEF Reported
  <2> QED
    BY <1>5, <2>1, <2>2
<1>8. q.style = "command" => \A i \in DOMAIN more : more[i].ok
  BY <1>1, <1>4, <1>5 DEF Tallied, Reported
<1> HIDE DEF more
<1>9. Tallied(q, more)
  BY <1>3, <1>6, <1>7, <1>8 DEF Tallied
<1> QED
  BY <1>1, <1>9 DEF more

\* A call that has come back, or that could not be made: q had the results
\* tried, and t is the one of the call.
Reporting(q, tried, t) ==
    /\ q \in Requests /\ tried \in Seq(Results) /\ t \in Results
    /\ Planned(q) /\ Going(q, tried) /\ q.todo # <<>> /\ Reported(q, t) /\ q.style # "package"

\* p is q some steps later.
Later(q, p) ==
    /\ p.style = q.style /\ p.op = q.op /\ p.form = q.form /\ p.calls = q.calls
    /\ p.alone = q.alone

\* A list without its first member.
LEMMA TailOf ==
    ASSUME NEW S, NEW s \in Seq(S), s # <<>>
    PROVE  /\ Tail(s) \in Seq(S) /\ Len(Tail(s)) = Len(s) - 1 /\ Len(s) \in Nat /\ Len(s) > 0
           /\ Head(s) \in S /\ Head(s) = s[1]
           /\ DOMAIN Tail(s) = 1 .. Len(s) - 1
           /\ \A i \in DOMAIN Tail(s) : Tail(s)[i] = s[i + 1] /\ i + 1 \in DOMAIN s
OBVIOUS

\* p is q gone on to its next machine.
Continues(q, tried, t, p) ==
    /\ p \in Requests /\ Later(q, p)
    /\ q.style \notin {"logged", "single"} /\ (q.style = "chain" => t.ok)
    /\ p.pc = "next" /\ p.todo = Tail(q.todo) /\ p.tried = Append(tried, t)
    /\ p.answers = q.answers /\ p.status = q.status
    /\ \/ p.rows = q.rows /\ (q.style = "batch" => ~t.ok)
       \/ q.style = "batch" /\ p.rows = Append(q.rows, t.ok)

\* What is left to do, and the rows, are not too many.
LEMMA StillFits ==
    ASSUME NEW q \in Requests, NEW tried \in Seq(Results), Going(q, tried)
    PROVE  Len(q.todo) <= Len(q.calls) /\ Len(tried) <= Len(q.calls)
<1> DEFINE done == Len(tried)
           left == Len(q.todo)
           all == Len(q.calls)
<1>1. q.todo \in Seq(Calls) /\ q.calls \in Seq(Calls)
  BY DEF Requests
<1>2. done \in Nat /\ left \in Nat /\ all \in Nat
  BY <1>1
<1>3. done + left <= all
  BY DEF Going
<1> HIDE DEF done, left, all
<1>4. left <= all /\ done <= all
  BY <1>2, <1>3
<1> QED
  BY <1>4 DEF done, left, all

\* There are no more rows than results.
LEMMA RowsFit ==
    ASSUME NEW q \in Requests, NEW tried \in Seq(Results), Going(q, tried)
    PROVE  Len(q.rows) \in Nat /\ Len(q.rows) <= Len(tried)
<1>1. q.rows \in Seq(BOOLEAN)
  BY DEF Requests
<1>2. Len(q.rows) \in Nat /\ Len(tried) \in Nat
  BY <1>1
<1>3. q.style = "batch" => Len(q.rows) <= Len(tried)
  BY DEF Going
<1>4. q.style # "batch" => q.rows = <<>>
  BY DEF Going
<1>5. q.rows = <<>> => Len(q.rows) = 0
  OBVIOUS
<1> QED
  BY <1>2, <1>3, <1>4, <1>5

\* A request that goes on to its next machine is sound.
LEMMA GoesOn ==
    ASSUME NEW q, NEW tried, NEW t, NEW p, Reporting(q, tried, t), Continues(q, tried, t, p)
    PROVE  Sound(p)
<1>1. /\ q \in Requests /\ tried \in Seq(Results) /\ t \in Results /\ Planned(q)
      /\ Going(q, tried) /\ q.todo # <<>> /\ Reported(q, t) /\ q.style # "package"
  BY DEF Reporting
<1>2. /\ Tallied(q, p.tried) /\ p.tried \in Seq(Results) /\ Len(p.tried) = Len(tried) + 1
  BY <1>1, OneMoreTallied DEF Continues
<1>3. /\ q.todo \in Seq(Calls) /\ q.calls \in Seq(Calls) /\ q.rows \in Seq(BOOLEAN)
      /\ t.ok \in BOOLEAN /\ p.rows \in Seq(BOOLEAN)
  BY <1>1 DEF Requests, Results, Continues
<1>4. /\ Len(tried) \in Nat /\ Len(q.todo) \in Nat /\ Len(q.calls) \in Nat /\ Len(q.rows) \in Nat
      /\ Len(p.tried) \in Nat /\ Len(p.rows) \in Nat
  BY <1>1, <1>2, <1>3
<1>5. /\ Len(p.todo) = Len(q.todo) - 1 /\ Len(q.todo) > 0 /\ Len(p.todo) \in Nat
      /\ \A i \in DOMAIN p.todo : p.todo[i] = q.todo[i + 1] /\ i + 1 \in DOMAIN q.todo /\ i \in Nat
  <2>1. /\ Len(Tail(q.todo)) = Len(q.todo) - 1 /\ Len(q.todo) > 0
        /\ DOMAIN Tail(q.todo) = 1 .. Len(q.todo) - 1
        /\ \A i \in DOMAIN Tail(q.todo) : Tail(q.todo)[i] = q.todo[i + 1] /\ i + 1 \in DOMAIN q.todo
    BY <1>1, <1>3, TailOf
  <2> QED
    BY <2>1, <1>4 DEF Continues
<1>17. Len(p.todo) = Len(q.todo) - 1 /\ Len(q.todo) > 0 /\ Len(p.todo) \in Nat
  BY <1>5
<1>18. \A i \in DOMAIN p.todo : p.todo[i] = q.todo[i + 1] /\ i + 1 \in DOMAIN q.todo /\ i \in Nat
  BY <1>5
<1>19. Len(p.tried) = Len(tried) + 1
  BY <1>2
<1>6. Planned(p) /\ Tallied(p, p.tried) /\ (Regular(q) <=> Regular(p))
  BY <1>1, <1>2, SamePlan DEF Later, Continues
<1>21. p.form # "refused"
  BY <1>1 DEF Going, Later, Continues
<1>7. p.style = q.style /\ p.calls = q.calls /\ p.op = q.op
  BY DEF Later, Continues
<1>8. Len(p.rows) <= Len(p.tried) /\ (p.style # "batch" => p.rows = <<>>)
  <2>1. q.style # "batch" => q.rows = <<>>
    BY <1>1 DEF Going
  <2>2. q.style = "batch" => Len(q.rows) <= Len(tried)
    BY <1>1 DEF Going
  <2>3. p.rows = q.rows \/ Len(p.rows) = Len(q.rows) + 1
    BY <1>3 DEF Continues
  <2>4. q.rows = <<>> => Len(q.rows) = 0
    OBVIOUS
  <2>5. q.style # "batch" => p.rows = q.rows
    BY DEF Continues
  <2>6. Len(p.rows) <= Len(p.tried)
    BY <1>4, <1>19, <1>7, <2>1, <2>2, <2>3, <2>4
  <2> QED
    BY <1>7, <2>1, <2>5, <2>6
<1>9. p.style = "batch" =>
         /\ Dones(p.rows) = Oks(p.tried)
         /\ Undones(p.rows) + Oks(p.tried) <= Len(p.tried)
  <2> SUFFICES ASSUME q.style = "batch"
               PROVE  /\ Dones(p.rows) = Oks(p.tried)
                      /\ Undones(p.rows) + Oks(p.tried) <= Len(p.tried)
    BY <1>7
  <2>1. Dones(q.rows) = Oks(tried) /\ Undones(q.rows) + Oks(tried) <= Len(tried)
    BY <1>1 DEF Going
  <2>2. Oks(p.tried) = Oks(tried) + IF t.ok THEN 1 ELSE 0
    BY <1>1, OksAppend DEF Continues
  <2>3. Oks(tried) \in Nat /\ Undones(q.rows) \in Nat /\ Dones(q.rows) \in Nat
    <3>1. Oks(tried) \in 0 .. Len(tried) /\ Undones(q.rows) \in 0 .. Len(q.rows)
          /\ Dones(q.rows) \in 0 .. Len(q.rows)
      BY <1>1, <1>3, OksType, CountType
    <3> QED
      BY <1>4, <3>1
  <2>4. (p.rows = q.rows /\ ~t.ok) \/ p.rows = Append(q.rows, t.ok)
    BY DEF Continues
  <2>5. CASE p.rows = q.rows /\ ~t.ok
    BY <1>2, <1>4, <2>1, <2>2, <2>3, <2>5
  <2>6. CASE p.rows = Append(q.rows, t.ok)
    <3>1. /\ Dones(p.rows) = Dones(q.rows) + IF t.ok THEN 1 ELSE 0
          /\ Undones(p.rows) = Undones(q.rows) + IF t.ok THEN 0 ELSE 1
      BY <1>3, <2>6, CountAppend
    <3>2. CASE t.ok = TRUE
      BY <1>2, <1>4, <2>1, <2>2, <2>3, <3>1, <3>2
    <3>3. CASE t.ok = FALSE
      BY <1>2, <1>4, <2>1, <2>2, <2>3, <3>1, <3>3
    <3> QED
      BY <1>3, <3>2, <3>3
  <2> QED
    BY <2>4, <2>5, <2>6
<1>10. /\ Len(p.tried) + Len(p.todo) <= Len(p.calls)
       /\ Regular(p) => Len(p.tried) + Len(p.todo) = Len(p.calls)
  <2>1. Len(tried) + Len(q.todo) <= Len(q.calls)
    BY <1>1 DEF Going
  <2>2. Len(p.tried) + Len(p.todo) = Len(tried) + Len(q.todo)
    <3> DEFINE done == Len(tried)
               left == Len(q.todo)
               doneNow == Len(p.tried)
               leftNow == Len(p.todo)
    <3>1. done \in Nat /\ left \in Nat /\ doneNow = done + 1 /\ leftNow = left - 1
      BY <1>4, <1>17, <1>19
    <3> HIDE DEF done, left, doneNow, leftNow
    <3>2. doneNow + leftNow = done + left
      BY <3>1
    <3> QED
      BY <3>2 DEF done, left, doneNow, leftNow
  <2>3. ASSUME Regular(p) PROVE Len(tried) + Len(q.todo) = Len(q.calls)
    BY <1>1, <1>6, <2>3 DEF Going
  <2> QED
    BY <1>7, <2>1, <2>2, <2>3
<1>11. ASSUME Regular(p), NEW i \in DOMAIN p.todo
       PROVE  p.todo[i] = p.calls[Len(p.tried) + i]
  <2>1. \A j \in DOMAIN q.todo : q.todo[j] = q.calls[Len(tried) + j]
    BY <1>1, <1>6, <1>11 DEF Going
  <2>2. q.todo[i + 1] = q.calls[Len(tried) + (i + 1)]
    BY <1>18, <2>1
  <2>3. Len(tried) + (i + 1) = Len(p.tried) + i
    <3>1. i \in Nat
      BY <1>18
    <3> QED
      BY <1>4, <1>19, <3>1
  <2> QED
    BY <1>18, <1>7, <2>2, <2>3
<1>12. ASSUME ~Regular(p), NEW i \in DOMAIN p.todo
       PROVE  p.todo[i].op = p.op
  <2>1. \A j \in DOMAIN q.todo : q.todo[j].op = q.op
    BY <1>1, <1>6, <1>12 DEF Going
  <2> QED
    BY <1>18, <1>7, <2>1
<1>13. p.style = "chain" => \A i \in DOMAIN p.tried : p.tried[i].ok
  <2>1. q.style = "chain" => \A i \in DOMAIN tried : tried[i].ok
    BY <1>1 DEF Going
  <2>2. \A i \in DOMAIN p.tried : p.tried[i] = t \/ (i \in DOMAIN tried /\ p.tried[i] = tried[i])
    BY <1>1 DEF Continues
  <2> QED
    BY <1>7, <2>1, <2>2 DEF Continues
<1>14. p.answers = <<>> /\ p.status = NoStatus
  BY <1>1 DEF Going, Continues
<1>20. p.style \notin {"logged", "single"}
  BY <1>7 DEF Continues
<1>15. Going(p, p.tried)
  <2>1. Regular(p) => \A i \in DOMAIN p.todo : p.todo[i] = p.calls[Len(p.tried) + i]
    BY <1>11
  <2>2. ~Regular(p) => \A i \in DOMAIN p.todo : p.todo[i].op = p.op
    BY <1>12
  <2>3. p.style = "batch" => Len(p.rows) <= Len(p.tried)
    BY <1>8
  <2> QED
    BY <1>6, <1>8, <1>9, <1>10, <1>13, <1>14, <1>20, <1>21, <2>1, <2>2, <2>3 DEF Going
<1>16. Len(p.todo) <= Len(p.calls)
  <2> DEFINE done == Len(p.tried)
             left == Len(p.todo)
             all == Len(p.calls)
  <2>1. done \in Nat /\ left \in Nat /\ all \in Nat /\ done + left <= all
    BY <1>4, <1>7, <1>10, <1>17
  <2> HIDE DEF done, left, all
  <2>2. left <= all
    BY <2>1
  <2> QED
    BY <2>2 DEF left, all
<1> QED
  BY <1>6, <1>8, <1>15, <1>16 DEF Sound, Continues

\* One that has ended is sound if it is finished.
LEMMA Ends ==
    ASSUME NEW q \in Requests, Planned(q), NEW p \in Requests, Later(q, p), p.pc = "end",
           Tallied(q, p.tried), Len(p.todo) <= Len(p.calls), Len(p.rows) <= Len(p.tried),
           Finished(p)
    PROVE  Sound(p)
BY SamePlan DEF Sound, Later

\* One that has ended in a panic is finished.
LEMMA PanicFinishes ==
    ASSUME NEW p, p.answers = <<"panic">>, p.status = NoStatus
    PROVE  Finished(p)
<1>1. Len(p.answers) = 1 /\ p.answers # <<"ok">> /\ p.answers # <<"fail">>
  BY <<"panic">>[1] = "panic"
<1> QED
  BY <1>1 DEF Finished, LogAgrees, Truthful

------------------------------------------------------------------------------
(***************************************************************************)
(* How a handler goes on, or ends, with a result.                          *)
(***************************************************************************)

\* What the handler of q makes of the result t.
Outcome(q, t, p) ==
    Sound(p) /\ Later(q, p) /\ p.pc \in {"next", "end"} /\ p.tried = Append(q.tried, t)

\* A request with other fields is one.
LEMMA RequestUpdates ==
    ASSUME NEW q \in Requests
    PROVE  /\ \A tried \in Seq(Results) : [q EXCEPT !.tried = tried] \in Requests
           /\ \A todo \in Seq(Calls) : [q EXCEPT !.todo = todo] \in Requests
           /\ \A pc \in PC : [q EXCEPT !.pc = pc] \in Requests
           /\ \A rows \in Seq(BOOLEAN) : [q EXCEPT !.rows = rows] \in Requests
           /\ \A answers \in Seq(Answers) : [q EXCEPT !.answers = answers] \in Requests
           /\ \A status \in {NoStatus} \cup (Nat \X Nat) : [q EXCEPT !.status = status] \in Requests
           /\ \A run \in Seq(CommandSet) : [q EXCEPT !.run = run] \in Requests
           /\ \A lost \in BOOLEAN : [q EXCEPT !.lost = lost] \in Requests
           /\ \A alone \in BOOLEAN : [q EXCEPT !.alone = alone] \in Requests
BY DEF Requests

\* An answer.
LEMMA AnswerIs ==
    ASSUME NEW q \in Requests, NEW answer \in Answers
    PROVE  LET p == Answer(q, answer) IN
           /\ p \in Requests /\ Later(q, p) /\ p.pc = "end"
           /\ p.answers = Append(q.answers, answer) /\ p.tried = q.tried /\ p.todo = q.todo
           /\ p.rows = q.rows /\ p.status = q.status /\ p.saved = q.saved
<1>1. q.answers \in Seq(Answers)
  BY DEF Requests
<1>2. Append(q.answers, answer) \in Seq(Answers)
  BY <1>1
<1> QED
  BY <1>2 DEF Answer, Requests, Later, PC

\* A panic.
LEMMA PanicIs ==
    ASSUME NEW q \in Requests
    PROVE  LET p == Panic(q) IN
           /\ p \in Requests /\ Later(q, p) /\ p.pc = "end"
           /\ p.answers = IF q.answers = <<>> THEN <<"panic">> ELSE q.answers
           /\ p.tried = q.tried /\ p.todo = q.todo
           /\ p.rows = q.rows /\ p.status = q.status /\ p.saved = q.saved
<1>1. <<"panic">> \in Seq(Answers)
  BY DEF Answers
<1> QED
  BY <1>1 DEF Panic, Requests, Later, PC

\* A row that is missing is of a machine that was not done.
LEMMA NilErrorOr ==
    ASSUME NEW q, NEW t \in Results, Told(t), ~NilError(q, t)
    PROVE  ~t.ok
BY DEF NilError, Told, Results

\* The handler of a list goes on, or panics.
LEMMA LogAndGoOnSound ==
    ASSUME NEW r \in Request, NEW q, NEW t, Reporting(q, q.tried, t), q.style = "batch",
           LogAndGoOn(r, q, t), errors \in Nat
    PROVE  /\ \E p : Outcome(q, t, p) /\ Set(r, p)
           /\ errors' \in 0 .. MaxErrors
<1> DEFINE more == Append(q.tried, t)
           next == [q EXCEPT !.tried = more, !.todo = Tail(@), !.pc = "next"]
           logged == [next EXCEPT !.rows = Append(@, t.ok)]
           seen == [q EXCEPT !.tried = more]
<1>1. /\ q \in Requests /\ q.tried \in Seq(Results) /\ t \in Results /\ Planned(q)
      /\ Going(q, q.tried) /\ q.todo # <<>> /\ Told(t)
  BY DEF Reporting, Reported
<1>2. /\ q.todo \in Seq(Calls) /\ q.rows \in Seq(BOOLEAN) /\ t.ok \in BOOLEAN /\ more \in Seq(Results)
  BY <1>1 DEF Requests, Results
<1>3. Tail(q.todo) \in Seq(Calls) /\ Append(q.rows, t.ok) \in Seq(BOOLEAN)
  BY <1>1, <1>2
<1>4. Tallied(q, more) /\ Len(more) = Len(q.tried) + 1
  BY <1>1, OneMoreTallied DEF Reporting
<1> HIDE DEF more
<1>5. /\ next \in Requests /\ Later(q, next) /\ next.pc = "next" /\ next.todo = Tail(q.todo)
      /\ next.tried = more /\ next.answers = q.answers /\ next.status = q.status
      /\ next.rows = q.rows
  BY <1>1, <1>2, <1>3 DEF Requests, Later, PC
<1>6. /\ logged \in Requests /\ Later(q, logged) /\ logged.pc = "next"
      /\ logged.todo = Tail(q.todo) /\ logged.tried = more /\ logged.answers = q.answers
      /\ logged.status = q.status /\ logged.rows = Append(q.rows, t.ok)
  BY <1>1, <1>2, <1>3 DEF Requests, Later, PC
<1>7. /\ seen \in Requests /\ Later(q, seen) /\ seen.todo = q.todo /\ seen.tried = more
      /\ seen.answers = q.answers /\ seen.status = q.status /\ seen.rows = q.rows
  BY <1>1, <1>2 DEF Requests, Later
<1> HIDE DEF next, logged, seen
<1>8. LogAndGoOn(r, q, t) =>
        \/ Fail(0) /\ Set(r, logged)
        \/ Fail(1) /\ Set(r, IF NilError(q, t) THEN Panic(seen) ELSE next)
  BY DEF LogAndGoOn, next, logged, seen, more
<1>9. errors' \in 0 .. MaxErrors
  <2>1. Fail(0) \/ Fail(1)
    BY <1>8
  <2> QED
    BY <2>1, OperationsAssumption DEF Fail
<1>10. Outcome(q, t, logged)
  <2>1. Continues(q, q.tried, t, logged)
    BY <1>6 DEF Continues, more
  <2>2. Sound(logged)
    BY <2>1, GoesOn
  <2> QED
    BY <1>6, <2>2 DEF Outcome, more
<1>11. ASSUME ~NilError(q, t) PROVE Outcome(q, t, next)
  <2>1. ~t.ok
    BY <1>1, <1>11, NilErrorOr
  <2>2. Continues(q, q.tried, t, next)
    BY <1>5, <2>1 DEF Continues, more
  <2>3. Sound(next)
    BY <2>2, GoesOn
  <2> QED
    BY <1>5, <2>3 DEF Outcome, more
<1>12. Outcome(q, t, Panic(seen))
  <2> DEFINE p == Panic(seen)
  <2>1. /\ p \in Requests /\ Later(seen, p) /\ p.pc = "end"
        /\ p.answers = IF seen.answers = <<>> THEN <<"panic">> ELSE seen.answers
        /\ p.tried = seen.tried /\ p.todo = seen.todo /\ p.rows = seen.rows
        /\ p.status = seen.status
    BY <1>7, PanicIs
  <2> HIDE DEF p
  <2>2. p.answers = <<"panic">> /\ p.status = NoStatus
    BY <1>1, <1>7, <2>1 DEF Going
  <2>3. Later(q, p) /\ p.tried = more /\ p.rows = q.rows /\ p.todo = q.todo
    BY <1>7, <2>1 DEF Later
  <2>4. Tallied(q, p.tried)
    BY <1>4, <2>3
  <2>5. Len(p.todo) <= Len(p.calls)
    BY <1>1, <2>3, StillFits DEF Later
  <2>6. Len(p.rows) <= Len(p.tried)
    <3>1. Len(q.rows) \in Nat /\ Len(q.rows) <= Len(q.tried) /\ Len(q.tried) \in Nat
      BY <1>1, RowsFit
    <3>2. Len(p.tried) = Len(q.tried) + 1 /\ Len(p.rows) = Len(q.rows)
      BY <1>4, <2>3
    <3> QED
      BY <3>1, <3>2
  <2>7. Finished(p)
    BY <2>2, PanicFinishes
  <2>8. Sound(p)
    BY <1>1, <2>1, <2>3, <2>4, <2>5, <2>6, <2>7, Ends
  <2> QED
    BY <2>1, <2>3, <2>8 DEF Outcome, p, more
<1> QED
  <2>1. CASE Set(r, logged)
    BY <1>9, <1>10, <2>1
  <2>2. CASE NilError(q, t) /\ Set(r, Panic(seen))
    BY <1>9, <1>12, <2>2
  <2>3. CASE ~NilError(q, t) /\ Set(r, next)
    BY <1>9, <1>11, <2>3
  <2> QED
    BY <1>8, <2>1, <2>2, <2>3

\* When every call has its result, they are about the machines called.
LEMMA SameMachines ==
    ASSUME NEW q \in Requests, NEW tried \in Seq(Results), Tallied(q, tried), Regular(q),
           Len(tried) = Len(q.calls)
    PROVE  [i \in DOMAIN tried |-> tried[i].on] = [i \in DOMAIN q.calls |-> q.calls[i].on]
<1>1. q.calls \in Seq(Calls)
  BY DEF Requests
<1>2. DOMAIN tried = DOMAIN q.calls
  BY <1>1
<1>3. \A i \in DOMAIN tried : tried[i].on = q.calls[i].on
  BY DEF Tallied
<1> QED
  BY <1>2, <1>3

\* Only a chain goes on with a form that is not good.
LEMMA FormGood ==
    ASSUME NEW q \in Requests, NEW tried, Planned(q), Going(q, tried), q.style # "chain"
    PROVE  q.form = "good"
<1>1. q.form \in FormsOf
  BY DEF Requests
<1> QED
  BY <1>1 DEF Planned, Going, FormsOf

\* p is q, logged and answered.
AnsweredOnce(q, t, p) ==
    /\ p \in Requests /\ Later(q, p) /\ p.pc = "end"
    /\ p.tried = Append(q.tried, t) /\ p.todo = Tail(q.todo)
    /\ p.rows = <<>> \/ p.rows = <<t.ok>>
    /\ \/ p.status = NoStatus
       \/ p.status = BatchActionStatus(<<t>>) /\ (p.rows = <<t.ok>> \/ ~t.ok)
    /\ p.answers = <<"panic">> \/ p.answers = <<Verdict(t.ok)>>

\* What one result says.
LEMMA OneResult ==
    ASSUME NEW t \in Results
    PROVE  /\ BatchActionStatus(<<t>>) = <<IF t.ok THEN 1 ELSE 0, 1>>
           /\ Dones(<<t.ok>>) = (IF t.ok THEN 1 ELSE 0) /\ Undones(<<t.ok>>) = (IF t.ok THEN 0 ELSE 1)
           /\ <<t>> \in Seq(Results) /\ <<t.ok>> \in Seq(BOOLEAN)
<1>1. t.ok \in BOOLEAN
  BY DEF Results
<1>2. Append(<<>>, t) = <<t>> /\ Append(<<>>, t.ok) = <<t.ok>>
  OBVIOUS
<1>3. <<>> \in Seq(Results) /\ <<>> \in Seq(BOOLEAN)
  OBVIOUS
<1>4. <<t>> \in Seq(Results) /\ <<t.ok>> \in Seq(BOOLEAN)
  BY <1>1
<1>5. Oks(<<t>>) = Oks(<<>>) + IF t.ok THEN 1 ELSE 0
  BY <1>2, <1>3, OksAppend
<1>6. /\ Dones(<<t.ok>>) = Dones(<<>>) + IF t.ok THEN 1 ELSE 0
      /\ Undones(<<t.ok>>) = Undones(<<>>) + IF t.ok THEN 0 ELSE 1
  BY <1>1, <1>2, <1>3, CountAppend
<1>7. Oks(<<t>>) = IF t.ok THEN 1 ELSE 0
  BY <1>5, CountNothing
<1>8. BatchActionStatus(<<t>>) = <<Oks(<<t>>), 1>>
  <2>1. Len(<<t>>) = 1
    OBVIOUS
  <2> QED
    BY <2>1, Zenon DEF BatchActionStatus, Oks
<1>9. BatchActionStatus(<<t>>) = <<IF t.ok THEN 1 ELSE 0, 1>>
  BY <1>7, <1>8, Zenon
<1> QED
  BY <1>4, <1>6, <1>9, CountNothing

\* A logged request that has answered is sound.
LEMMA AnsweredSound ==
    ASSUME NEW q, NEW t, NEW p, Reporting(q, q.tried, t), q.style = "logged", AnsweredOnce(q, t, p)
    PROVE  Sound(p)
<1>1. /\ q \in Requests /\ q.tried \in Seq(Results) /\ t \in Results /\ Planned(q)
      /\ Going(q, q.tried) /\ q.todo # <<>> /\ Told(t)
  BY DEF Reporting, Reported
<1>2. q.tried = <<>> /\ q.rows = <<>> /\ Len(q.calls) = 1
  BY <1>1 DEF Going, Planned
<1>3. p.tried = <<t>> /\ Tallied(q, p.tried)
  <2>1. Append(q.tried, t) = <<t>>
    BY <1>2
  <2> QED
    BY <1>1, <2>1, OneMoreTallied DEF Reporting, AnsweredOnce
<1>4. Planned(p) /\ Tallied(p, p.tried) /\ Regular(p) /\ p.calls = q.calls
  <2>1. p.style = q.style /\ p.calls = q.calls /\ p.op = q.op /\ p.form = q.form
    BY DEF AnsweredOnce, Later
  <2> QED
    BY <1>1, <1>3, <2>1, SamePlan DEF Regular
<1>5. Len(p.todo) <= Len(p.calls)
  <2>1. q.todo \in Seq(Calls)
    BY <1>1 DEF Requests
  <2>2. Len(q.todo) <= 1 /\ Len(q.todo) \in Nat
    <3>1. Len(q.todo) <= Len(q.calls)
      BY <1>1, StillFits
    <3> QED
      BY <1>2, <2>1, <3>1
  <2>3. Len(Tail(q.todo)) = Len(q.todo) - 1
    BY <1>1, <2>1, TailOf
  <2>4. Len(Tail(q.todo)) <= 1
    BY <2>2, <2>3
  <2> QED
    BY <1>2, <1>4, <2>4 DEF AnsweredOnce
<1>6. Len(p.rows) <= Len(p.tried) /\ Len(p.tried) = 1
  <2>1. Len(<<t>>) = 1 /\ Len(<<t.ok>>) = 1 /\ Len(<<>>) = 0
    OBVIOUS
  <2>2. p.rows = <<>> \/ p.rows = <<t.ok>>
    BY DEF AnsweredOnce
  <2>3. Len(p.tried) = 1
    BY <1>3, <2>1
  <2>4. CASE p.rows = <<>>
    BY <2>1, <2>3, <2>4
  <2>5. CASE p.rows = <<t.ok>>
    BY <2>1, <2>3, <2>5
  <2> QED
    BY <2>2, <2>3, <2>4, <2>5
<1>7. Len(p.answers) = 1
  BY DEF AnsweredOnce
<1>8. LogAgrees(p)
  <2> SUFFICES ASSUME p.status # NoStatus PROVE LogAgrees(p)
    BY DEF LogAgrees
  <2>1. p.status = BatchActionStatus(<<t>>) /\ (p.rows = <<t.ok>> \/ (p.rows = <<>> /\ ~t.ok))
    BY DEF AnsweredOnce
  <2>2. /\ BatchActionStatus(<<t>>) = <<IF t.ok THEN 1 ELSE 0, 1>>
        /\ Dones(<<t.ok>>) = (IF t.ok THEN 1 ELSE 0) /\ Undones(<<t.ok>>) = (IF t.ok THEN 0 ELSE 1)
    BY <1>1, OneResult
  <2>3. p.status[1] = (IF t.ok THEN 1 ELSE 0) /\ p.status[2] = 1
    BY <2>1, <2>2
  <2>4. Dones(p.rows) = p.status[1] /\ Undones(p.rows) <= p.status[2] - p.status[1]
    <3>1. CASE t.ok
      <4>1. Dones(p.rows) = Dones(<<t.ok>>) /\ Undones(p.rows) = Undones(<<t.ok>>)
        BY <2>1, <3>1, Zenon
      <4>2. Dones(p.rows) = 1 /\ Undones(p.rows) = 0
        BY <2>2, <3>1, <4>1
      <4>3. p.status[1] = 1 /\ p.status[2] = 1
        BY <2>3, <3>1
      <4> QED
        BY <4>2, <4>3
    <3>2. CASE ~t.ok
      <4>1. Dones(p.rows) = 0 /\ (Undones(p.rows) = 0 \/ Undones(p.rows) = 1)
        BY <2>1, <2>2, <3>2, CountNothing
      <4>2. p.status[1] = 0 /\ p.status[2] = 1
        BY <2>3, <3>2
      <4> QED
        BY <4>1, <4>2
    <3> QED
      BY <3>1, <3>2
  <2>5. [i \in DOMAIN p.tried |-> p.tried[i].on] = [i \in DOMAIN p.calls |-> p.calls[i].on]
    <3>1. p \in Requests /\ p.tried \in Seq(Results)
      BY DEF AnsweredOnce, Requests
    <3>2. Len(p.tried) = Len(p.calls)
      BY <1>2, <1>4, <1>6
    <3> QED
      BY <1>4, <3>1, <3>2, SameMachines
  <2> QED
    BY <1>2, <1>4, <2>3, <2>4, <2>5 DEF LogAgrees
<1>9. Truthful(p)
  <2>1. p.tried[1] = t /\ DOMAIN p.tried = {1}
    BY <1>3
  <2>2. <<"ok">> # <<"fail">> /\ <<"panic">> # <<"ok">> /\ <<"panic">> # <<"fail">>
    BY <<"ok">>[1] = "ok", <<"fail">>[1] = "fail", <<"panic">>[1] = "panic"
  <2>3. p.answers = <<"ok">> => t.ok
    BY <2>2 DEF AnsweredOnce, Verdict
  <2>4. p.answers = <<"fail">> => ~t.ok
    BY <2>2 DEF AnsweredOnce, Verdict
  <2>5. q.form = "good" /\ p.form = q.form
    BY <1>1, FormGood DEF AnsweredOnce, Later
  <2> QED
    BY <1>1, <2>1, <2>3, <2>4, <2>5 DEF Truthful, Told
<1>10. Finished(p)
  BY <1>2, <1>4, <1>6, <1>7, <1>8, <1>9 DEF Finished
<1> QED
  BY <1>1, <1>3, <1>5, <1>6, <1>10, Ends DEF AnsweredOnce

\* The handler of one machine logs and answers, or panics on its way.
LEMMA LogAndAnswerSound ==
    ASSUME NEW r \in Request, NEW q, NEW t, Reporting(q, q.tried, t), q.style = "logged",
           LogAndAnswer(r, q, t), errors \in Nat
    PROVE  /\ \E p : Outcome(q, t, p) /\ Set(r, p)
           /\ errors' \in 0 .. MaxErrors
<1> DEFINE seen == [q EXCEPT !.tried = Append(@, t), !.todo = Tail(@)]
           told == IF t.ok THEN seen ELSE Answer(seen, "fail")
           ends(x) == IF t.ok THEN Answer(x, "ok") ELSE x
           row(x) == [x EXCEPT !.rows = <<t.ok>>]
           said == BatchActionStatus(<<t>>)
<1>1. /\ q \in Requests /\ q.tried \in Seq(Results) /\ t \in Results /\ Planned(q)
      /\ Going(q, q.tried) /\ q.todo # <<>> /\ Told(t)
  BY DEF Reporting, Reported
<1>2. /\ q.todo \in Seq(Calls) /\ t.ok \in BOOLEAN /\ q.saved \in BOOLEAN
      /\ q.answers = <<>> /\ q.status = NoStatus /\ q.rows = <<>>
  BY <1>1 DEF Requests, Results, Going
<1>3. Tail(q.todo) \in Seq(Calls) /\ Append(q.tried, t) \in Seq(Results)
  BY <1>1, <1>2
<1>4. <<t.ok>> \in Seq(BOOLEAN) /\ said \in Nat \X Nat
  <2>1. <<t.ok>> \in Seq(BOOLEAN) /\ said = <<IF t.ok THEN 1 ELSE 0, 1>>
    BY <1>1, OneResult
  <2>2. (IF t.ok THEN 1 ELSE 0) \in Nat
    BY <1>2
  <2> HIDE DEF said
  <2> QED
    BY <2>1, <2>2
\* What stays the same from seen on.
<1> DEFINE Kin(p) == /\ p \in Requests /\ Later(q, p) /\ p.tried = Append(q.tried, t)
                     /\ p.todo = Tail(q.todo)
           Fine(p) == /\ Kin(p) /\ p.status = NoStatus /\ (p.rows = <<>> \/ p.rows = <<t.ok>>)
                      /\ IF t.ok THEN p.answers = <<>> ELSE p.pc = "end" /\ p.answers = <<"fail">>
<1>5. Kin(seen) /\ seen.status = NoStatus /\ seen.rows = <<>> /\ seen.answers = <<>>
  BY <1>1, <1>2, <1>3 DEF Requests, Later
<1> HIDE DEF seen
<1>6. Fine(told) /\ told.rows = <<>>
  <2>1. CASE t.ok
    BY <1>5, <2>1
  <2>2. CASE ~t.ok
    <3>1. "fail" \in Answers
      BY DEF Answers
    <3> DEFINE a == Answer(seen, "fail")
    <3>2. /\ a \in Requests /\ Later(seen, a) /\ a.pc = "end" /\ a.answers = Append(<<>>, "fail")
          /\ a.tried = seen.tried /\ a.todo = seen.todo /\ a.rows = <<>> /\ a.status = NoStatus
      BY <1>5, <3>1, AnswerIs
    <3> HIDE DEF a
    <3>3. a.answers = <<"fail">>
      BY <3>2
    <3>4. Fine(a) /\ a.rows = <<>>
      BY <1>5, <2>2, <3>2, <3>3 DEF Later
    <3> QED
      BY <2>2, <3>4 DEF a
  <2> QED
    BY <2>1, <2>2
<1> HIDE DEF told
<1>7. Fine(row(told)) /\ row(told).rows = <<t.ok>>
  BY <1>4, <1>6 DEF Requests, Later
<1> HIDE DEF row
\* What follows the row.
<1>8. ASSUME NEW x, Fine(x)
      PROVE  /\ AnsweredOnce(q, t, ends(x)) /\ AnsweredOnce(q, t, Panic(x))
             /\ x.rows = <<t.ok>> \/ ~t.ok => AnsweredOnce(q, t, ends(WithStatus(x, said)))
  <2>1. ASSUME NEW y, Kin(y), y.answers = x.answers, ~t.ok => y.pc = "end",
               y.rows = x.rows,
               \/ y.status = NoStatus
               \/ y.status = said /\ (y.rows = <<t.ok>> \/ ~t.ok)
        PROVE  AnsweredOnce(q, t, ends(y))
    <3>1. CASE t.ok
      <4>1. "ok" \in Answers
        BY DEF Answers
      <4> DEFINE a == Answer(y, "ok")
      <4>3. y \in Requests
        BY <2>1
      <4>2. /\ a \in Requests /\ Later(y, a) /\ a.pc = "end" /\ a.answers = Append(y.answers, "ok")
            /\ a.tried = y.tried /\ a.todo = y.todo /\ a.rows = y.rows /\ a.status = y.status
        BY <4>1, <4>3, AnswerIs
      <4> HIDE DEF a
      <4>4. a.answers = <<"ok">>
        <5>1. y.answers = <<>>
          BY <1>8, <2>1, <3>1
        <5> QED
          BY <4>2, <5>1
      <4>5. AnsweredOnce(q, t, a)
        BY <1>8, <2>1, <3>1, <4>2, <4>4 DEF AnsweredOnce, Later, Verdict
      <4> QED
        BY <3>1, <4>5 DEF a
    <3>2. CASE ~t.ok
      BY <1>8, <2>1, <3>2 DEF AnsweredOnce, Verdict
    <3> QED
      BY <3>1, <3>2
  <2>2. AnsweredOnce(q, t, ends(x))
    BY <1>8, <2>1
  <2>3. AnsweredOnce(q, t, Panic(x))
    <3> DEFINE a == Panic(x)
    <3>1. /\ a \in Requests /\ Later(x, a) /\ a.pc = "end"
          /\ a.answers = IF x.answers = <<>> THEN <<"panic">> ELSE x.answers
          /\ a.tried = x.tried /\ a.todo = x.todo /\ a.rows = x.rows /\ a.status = x.status
      BY <1>8, PanicIs
    <3> HIDE DEF a
    <3>2. a.answers = <<"panic">> \/ a.answers = <<Verdict(t.ok)>>
      BY <1>8, <3>1 DEF Verdict
    <3>3. AnsweredOnce(q, t, a)
      BY <1>8, <3>1, <3>2 DEF AnsweredOnce, Later
    <3> QED
      BY <3>3 DEF a
  <2>4. ASSUME x.rows = <<t.ok>> \/ ~t.ok
        PROVE  AnsweredOnce(q, t, ends(WithStatus(x, said)))
    <3> DEFINE y == WithStatus(x, said)
    <3>1. /\ y \in Requests /\ Later(x, y) /\ y.pc = x.pc /\ y.answers = x.answers
          /\ y.tried = x.tried /\ y.todo = x.todo /\ y.rows = x.rows
          /\ y.status = said \/ y.status = NoStatus
      <4>1. x \in Requests
        BY <1>8
      <4>2. PICK z \in {NoStatus} \cup (Nat \X Nat) : (z = said \/ z = NoStatus) /\ y = [x EXCEPT !.status = z]
        BY <1>4 DEF WithStatus
      <4> HIDE DEF y, said
      <4> QED
        BY <4>1, <4>2 DEF Requests, Later
    <3> HIDE DEF y
    <3>2. Kin(y)
      BY <1>8, <3>1 DEF Later
    <3>3. AnsweredOnce(q, t, ends(y))
      BY <1>8, <2>1, <2>4, <3>1, <3>2
    <3> QED
      BY <3>3 DEF y
  <2> QED
    BY <2>2, <2>3, <2>4
<1>9. AnsweredOnce(q, t, Panic(seen))
  <2> DEFINE a == Panic(seen)
  <2>1. /\ a \in Requests /\ Later(seen, a) /\ a.pc = "end" /\ a.answers = <<"panic">>
        /\ a.tried = seen.tried /\ a.todo = seen.todo /\ a.rows = seen.rows /\ a.status = seen.status
    BY <1>5, PanicIs
  <2> HIDE DEF a
  <2>2. AnsweredOnce(q, t, a)
    BY <1>5, <2>1 DEF AnsweredOnce, Later
  <2> QED
    BY <2>2 DEF a
<1> HIDE DEF Kin, Fine, ends, said
<1>10. ASSUME NEW p, AnsweredOnce(q, t, p) PROVE Outcome(q, t, p)
  <2>1. Sound(p)
    BY <1>10, AnsweredSound
  <2> QED
    BY <1>10, <2>1 DEF AnsweredOnce, Outcome
<1>11. PICK logged \in BOOLEAN, updated \in BOOLEAN :
          LET x == IF logged THEN row(told) ELSE told
          IN  /\ Fail(Cardinality({f \in {"row", "status"} : ~(IF f = "row" THEN logged ELSE updated)}))
              /\ Set(r, IF ~logged /\ NilError(q, t) THEN Panic(seen)
                        ELSE IF updated THEN ends(WithStatus(x, said))
                        ELSE IF NilError(q, t) THEN Panic(x) ELSE ends(x))
  BY DEF LogAndAnswer, told, row, seen, ends, said
<1>12. errors' \in 0 .. MaxErrors
  <2> DEFINE F == {f \in {"row", "status"} : ~(IF f = "row" THEN logged ELSE updated)}
  <2>1. IsFiniteSet({"row", "status"})
    <3>1. IsFiniteSet({}) /\ IsFiniteSet({} \cup {"row"})
      BY FS_EmptySet, FS_AddElement
    <3>2. IsFiniteSet(({} \cup {"row"}) \cup {"status"})
      BY <3>1, FS_AddElement
    <3>3. ({} \cup {"row"}) \cup {"status"} = {"row", "status"}
      OBVIOUS
    <3> QED
      BY <3>2, <3>3
  <2>2. F \subseteq {"row", "status"}
    OBVIOUS
  <2>3. Cardinality(F) \in Nat
    BY <2>1, <2>2, FS_Subset, FS_CardinalityType
  <2>4. Fail(Cardinality(F))
    BY <1>11
  <2> HIDE DEF F
  <2> QED
    BY <2>3, <2>4, OperationsAssumption DEF Fail
<1>13. ~NilError(q, t) => ~t.ok
  BY <1>1, NilErrorOr
<1>14. Fine(told) /\ Fine(row(told)) /\ row(told).rows = <<t.ok>>
  BY <1>6, <1>7 DEF Fine, Kin
<1>15. CASE ~logged /\ NilError(q, t)
  BY <1>9, <1>10, <1>11, <1>12, <1>15
<1>16. CASE logged
  <2>1. Set(r, IF updated THEN ends(WithStatus(row(told), said))
               ELSE IF NilError(q, t) THEN Panic(row(told)) ELSE ends(row(told)))
    BY <1>11, <1>16
  <2> QED
    BY <1>8, <1>10, <1>12, <1>14, <2>1
<1>17. CASE ~logged /\ ~NilError(q, t)
  <2>1. Set(r, IF updated THEN ends(WithStatus(told, said)) ELSE ends(told))
    BY <1>11, <1>17
  <2> QED
    BY <1>8, <1>10, <1>12, <1>13, <1>14, <1>17, <2>1
<1> QED
  BY <1>15, <1>16, <1>17

\* A plain answer: a success if everything was done, a failure if not.
LEMMA AnswerSound ==
    ASSUME NEW q \in Requests, NEW answer \in {"ok", "fail"}, Planned(q), Tallied(q, q.tried),
           q.answers = <<>>, Len(q.todo) <= Len(q.calls), Len(q.rows) <= Len(q.tried),
           LogAgrees(q),
           answer = "ok" =>
              /\ q.form = "good" /\ \A i \in DOMAIN q.tried : Well(q.tried[i])
              /\ Regular(q) => Len(q.tried) = Len(q.calls),
           answer = "fail" /\ q.form = "good" /\ q.calls # <<>> =>
              \E i \in DOMAIN q.tried : Off(q.tried[i])
    PROVE  LET p == Answer(q, answer) IN
           Sound(p) /\ Later(q, p) /\ p.pc = "end" /\ p.tried = q.tried
<1> DEFINE p == Answer(q, answer)
<1>1. answer \in Answers
  BY DEF Answers
<1>2. /\ p \in Requests /\ Later(q, p) /\ p.pc = "end" /\ p.answers = Append(q.answers, answer)
      /\ p.tried = q.tried /\ p.todo = q.todo /\ p.rows = q.rows /\ p.status = q.status
  BY <1>1, AnswerIs
<1> HIDE DEF p
<1>3. /\ p.answers = <<answer>> /\ Len(p.answers) = 1 /\ p.calls = q.calls /\ p.form = q.form
      /\ Regular(p) <=> Regular(q)
  <2>1. p.answers = <<answer>>
    BY <1>2
  <2> QED
    BY <1>2, <2>1, SamePlan DEF Later
<1>4. <<answer>> = <<"ok">> => answer = "ok"
  BY <<answer>>[1] = answer, <<"ok">>[1] = "ok"
<1>5. <<answer>> = <<"fail">> => answer = "fail"
  BY <<answer>>[1] = answer, <<"fail">>[1] = "fail"
<1>6. LogAgrees(p)
  BY <1>2, <1>3 DEF LogAgrees
<1>7. Truthful(p)
  BY <1>2, <1>3, <1>4, <1>5 DEF Truthful
<1>8. Finished(p)
  BY <1>2, <1>3, <1>4, <1>6, <1>7 DEF Finished
<1>9. Tallied(q, p.tried) /\ Len(p.todo) <= Len(p.calls) /\ Len(p.rows) <= Len(p.tried)
  BY <1>2, <1>3
<1>10. Sound(p)
  BY <1>2, <1>8, <1>9, Ends
<1> QED
  BY <1>2, <1>10 DEF p

\* No status says nothing.
LEMMA NoStatusAgrees == ASSUME NEW q, q.status = NoStatus PROVE LogAgrees(q)
BY DEF LogAgrees

\* Being on the way depends on these fields only.
LEMMA GoingSame ==
    ASSUME NEW q, NEW p, NEW tried, Later(q, p), Going(q, tried), p.todo = q.todo,
           p.rows = q.rows, p.answers = q.answers, p.status = q.status
    PROVE  Going(p, tried)
<1>1. p.style = q.style /\ p.op = q.op /\ p.calls = q.calls /\ p.form = q.form
  BY DEF Later
<1>2. Tallied(q, tried)
  BY DEF Going
<1>3. Tallied(p, tried) /\ (Regular(p) <=> Regular(q))
  BY <1>1, <1>2 DEF Tallied, Regular
<1> QED
  BY <1>1, <1>3 DEF Going

\* If all results are kept, so is the answer.
LEMMA EndHeld ==
    ASSUME NEW p, Sound(p), NEW hosts, p.pc \in {"next", "end"}, AllKept(p.tried, hosts)
    PROVE  HeldWith(p, hosts)
<1>1. CASE p.pc = "next"
  BY <1>1 DEF HeldWith
<1>2. CASE p.pc = "end"
  <2> SUFFICES ASSUME Regular(p), p.answers = <<"ok">>, NEW i \in DOMAIN p.calls
               PROVE  KeptIn(p.calls[i], hosts)
    BY <1>2 DEF HeldWith
  <2>1. p \in Requests /\ Finished(p) /\ Tallied(p, p.tried)
    BY <1>2 DEF Sound
  <2>2. AllDid(p.tried) /\ Len(p.tried) = Len(p.calls)
    BY <2>1 DEF Finished, Truthful, AllDid, Well
  <2>3. i \in DOMAIN p.tried
    <3>1. p.tried \in Seq(Results) /\ p.calls \in Seq(Calls)
      BY <2>1 DEF Requests
    <3> QED
      BY <2>2, <3>1
  <2>4. p.tried[i].on = p.calls[i].on /\ p.tried[i].op = p.calls[i].op
    BY <2>1, <2>3 DEF Tallied
  <2>5. KeptIn(p.tried[i], hosts)
    BY <2>2, <2>3 DEF AllKept
  <2> QED
    BY <2>4, <2>5 DEF KeptIn
<1> QED
  BY <1>1, <1>2

\* A result more.
LEMMA AllKeptAppend ==
    ASSUME NEW tried \in Seq(Results), NEW t \in Results, NEW hosts, AllKept(tried, hosts),
           t.did \/ Unnoticed(t.op) => KeptIn(t, hosts)
    PROVE  AllKept(Append(tried, t), hosts)
<1> DEFINE more == Append(tried, t)
<1>1. /\ \A i \in DOMAIN more : (i \in DOMAIN tried /\ more[i] = tried[i]) \/ more[i] = t
      /\ \A i \in DOMAIN tried : i \in DOMAIN more /\ more[i] = tried[i]
      /\ \E i \in DOMAIN more : more[i] = t
  OBVIOUS
<1> HIDE DEF more
<1>2. AllDid(more) => AllDid(tried) /\ (t.did \/ Unnoticed(t.op))
  BY <1>1 DEF AllDid
<1>3. AllKept(more, hosts)
  BY <1>1, <1>2 DEF AllKept
<1> QED
  BY <1>3 DEF more

------------------------------------------------------------------------------
(***************************************************************************)
(* The steps.  All but those that break a connection change one request.   *)
(***************************************************************************)

\* The request r becomes p, and nobody else is alone meanwhile.
LEMMA OneChanges ==
    ASSUME Handling, NEW r \in Request, Open(r), NEW p, Set(r, p), Sound(p),
           Later(request[r], p), p.pc # "new", area' = area,
           connected' \subseteq Machine /\ broken' \subseteq Machine,
           breaks' \in 0 .. MaxBreaks, errors' \in 0 .. MaxErrors, DOMAIN host' = Machine,
           HeldWith(p, host')
    PROVE  Handling'
<1>1. /\ DOMAIN request = Request /\ area \in DOMAIN Areas
      /\ \A s \in Request : Sound(request[s]) /\ Handled(request[s])
  BY DEF Handling, RecordsInv, Bounded
<1>2. /\ DOMAIN request' = Request /\ request'[r] = p
      /\ \A s \in Request \ {r} : request'[s] = request[s]
  BY <1>1 DEF Set
<1>3. request[r].pc # "new" /\ request[r].pc # "end"
  BY DEF Open
<1>4. Bounded'
  BY <1>1, <1>2 DEF Bounded
<1>5. ASSUME NEW s \in Request
      PROVE  Sound(request'[s]) /\ Handled(request[s])'
  <2>1. CASE s = r
    <3>1. <<request[r].style, request[r].op>> \in Areas[area].handlers
      BY <1>1, <1>3 DEF Handled
    <3>2. p.style = request[r].style /\ p.op = request[r].op
      BY DEF Later
    <3>3. (request[s])' = p
      BY <1>2, <2>1
    <3>4. Handled(request[s])' <=> <<p.style, p.op>> \in Areas[area'].handlers
      BY <3>3 DEF Handled
    <3> QED
      BY <1>2, <2>1, <3>1, <3>2, <3>4
  <2>2. CASE s # r
    <3>1. (request[s])' = request[s]
      BY <1>2, <2>2
    <3>2. Handled(request[s])' <=> Handled(request[s])
      BY <3>1 DEF Handled
    <3> QED
      BY <1>1, <3>1, <3>2
  <2> QED
    BY <2>1, <2>2
<1>6. RecordsInv'
  BY <1>4, <1>5 DEF RecordsInv
<1>7. \A s \in Request : /\ request'[s].pc # "new" => request[s].pc # "new"
                         /\ request'[s].alone = request[s].alone
                         /\ request'[s].pc \notin {"new", "end"} => Open(s)
  <2>1. p.alone = request[r].alone
    BY DEF Later
  <2> QED
    BY <1>2, <1>3, <2>1 DEF Open
<1>8. Alone'
  <2> SUFFICES ASSUME NEW s \in Request, NEW o \in Request, request'[s].alone,
                      request'[s].pc # "new", o # s, request'[o].pc \notin {"new", "end"}
               PROVE  FALSE
    BY DEF Alone, Open
  <2> QED
    BY <1>7 DEF Handling, Alone
<1>9. ASSUME NEW s \in Request PROVE HeldWith(request'[s], host')
  <2>1. CASE s = r
    BY <1>2, <2>1
  <2>2. CASE s # r
    <3>1. ~request[s].alone \/ request[s].pc = "new"
      BY <2>2 DEF Handling, Alone
    <3> QED
      BY <1>2, <2>2, <3>1 DEF HeldWith
  <2> QED
    BY <2>1, <2>2
<1>10. Held'
  BY <1>9 DEF Held
<1> QED
  BY <1>6, <1>8, <1>10 DEF Handling

\* What a step may use of the request that makes it.
LEMMA Making ==
    ASSUME Handling, NEW r \in Request
    PROVE  /\ Sound(request[r]) /\ HeldWith(request[r], host)
           /\ area \in DOMAIN Areas /\ DOMAIN request = Request /\ DOMAIN host = Machine
           /\ connected \subseteq Machine /\ broken \subseteq Machine
           /\ breaks \in 0 .. MaxBreaks /\ errors \in 0 .. MaxErrors /\ errors \in Nat
BY OperationsAssumption DEF Handling, RecordsInv, Bounded, Held

\* A call is sent.
LEMMA AskStep ==
    ASSUME Handling, NEW r \in Request, Ask(r)
    PROVE  Handling'
<1> DEFINE q == request[r]
           c == Head(q.todo)
<1>1. /\ Sound(q) /\ HeldWith(q, host) /\ DOMAIN request = Request /\ DOMAIN host = Machine
      /\ connected \subseteq Machine /\ broken \subseteq Machine
      /\ breaks \in 0 .. MaxBreaks /\ errors \in 0 .. MaxErrors
  BY Making
<1>2. q.pc = "next" /\ q.todo # <<>> /\ q.style # "package"
  BY DEF Ask
<1>3. q \in Requests /\ Going(q, q.tried) /\ Planned(q) /\ Tallied(q, q.tried)
  BY <1>1, <1>2 DEF Sound
<1>4. q.todo \in Seq(Calls) /\ c \in Calls
  <2>1. q.todo \in Seq(Calls)
    BY <1>3 DEF Requests
  <2> QED
    BY <1>2, <2>1, TailOf
<1>5. c.op \in Op /\ Commands[c.op] \in Seq(CommandSet) /\ Commands[c.op] # <<>>
  <2>1. c.op \in Op
    BY <1>4 DEF Calls
  <2>2. Commands[c.op] \in Seq(CommandSet) /\ Len(Commands[c.op]) \in 1 .. 4
    BY <2>1, CommandsType
  <2> DEFINE run == Commands[c.op]
  <2>3. Len(run) \in 1 .. 4
    BY <2>2
  <2> HIDE DEF run
  <2>4. run # <<>>
    BY <2>3
  <2> QED
    BY <2>1, <2>2, <2>4 DEF run
<1>6. PICK p : p = [q EXCEPT !.pc = "work", !.run = Commands[c.op]]
  OBVIOUS
<1>7. Set(r, p)
  BY <1>6 DEF Ask, Call
<1>8. /\ p \in Requests /\ Later(q, p) /\ p.pc = "work" /\ p.run = Commands[c.op]
      /\ p.todo = q.todo /\ p.tried = q.tried /\ p.rows = q.rows /\ p.answers = q.answers
      /\ p.status = q.status
  <2> HIDE DEF q, c
  <2> QED
    BY <1>3, <1>5, <1>6 DEF Requests, Later, PC
<1> HIDE DEF q
<1>9. Going(p, p.tried)
  BY <1>3, <1>8, GoingSame
<1>10. Planned(p) /\ Tallied(p, p.tried)
  <2>1. p.style = q.style /\ p.op = q.op /\ p.calls = q.calls /\ p.form = q.form
    BY <1>8 DEF Later
  <2> QED
    BY <1>3, <1>8, <1>9, <2>1 DEF Planned, Going
<1>11. Running(p)
  <2>1. Head(p.todo) = c
    BY <1>8
  <2>2. Len(p.run) = Len(Commands[c.op]) /\ Len(Commands[c.op]) \in Nat
    BY <1>5, <1>8
  <2>3. \A i \in DOMAIN p.run : p.run[i] = Commands[c.op][Len(Commands[c.op]) - Len(p.run) + i]
    <3> DEFINE run == Commands[c.op]
    <3>1. run \in Seq(CommandSet) /\ p.run = run
      BY <1>5, <1>8
    <3> HIDE DEF run
    <3>2. \A i \in DOMAIN run : run[i] = run[Len(run) - Len(run) + i]
      BY <3>1
    <3> QED
      BY <3>1, <3>2 DEF run
  <2> QED
    BY <1>5, <1>8, <2>1, <2>2, <2>3 DEF Running
<1>12. Sound(p)
  <2>1. Len(p.todo) <= Len(p.calls)
    BY <1>8, <1>9, StillFits DEF Requests
  <2>2. Len(p.rows) <= Len(p.tried)
    BY <1>8, <1>9, RowsFit DEF Requests
  <2>3. p.style # "package"
    BY <1>2, <1>8 DEF Later
  <2> QED
    BY <1>2, <1>8, <1>9, <1>10, <1>11, <2>1, <2>2, <2>3 DEF Sound
<1>13. HeldWith(p, host)
  <2>1. Due(c.op, Len(p.run), host[c.on])
    BY <1>5, <1>8, DueBegins
  <2>2. Regular(p) /\ p.alone => AllKept(p.tried, host)
    BY <1>1, <1>2, <1>8, SamePlan DEF HeldWith, Later
  <2> QED
    BY <1>8, <2>1, <2>2 DEF HeldWith, AllKept, Begun
<1>14. Open(r)
  BY <1>2 DEF Open, q
<1>15. Later(request[r], p)
  BY <1>8 DEF q
<1>16. UNCHANGED <<area, connected, breaks, broken, errors, host>>
  BY DEF Ask
<1>17. p.pc # "new"
  BY <1>8
<1>18. /\ area' = area /\ connected' \subseteq Machine /\ broken' \subseteq Machine
       /\ breaks' \in 0 .. MaxBreaks /\ errors' \in 0 .. MaxErrors /\ DOMAIN host' = Machine
       /\ HeldWith(p, host')
  BY <1>1, <1>13, <1>16
<1> QED
  BY <1>7, <1>12, <1>14, <1>15, <1>17, <1>18, OneChanges

\* A request that ends, or is between two calls, with results that are kept.
LEMMA EndStep ==
    ASSUME Handling, NEW r \in Request, Open(r), NEW p, Sound(p), Later(request[r], p), Set(r, p),
           p.pc \in {"next", "end"}, Regular(p) /\ p.alone => AllKept(p.tried, host),
           errors' \in 0 .. MaxErrors, UNCHANGED <<area, connected, breaks, broken, host>>
    PROVE  Handling'
<1>1. HeldWith(p, host)
  <2>1. CASE Regular(p) /\ p.alone
    <3>1. AllKept(p.tried, host)
      BY <2>1
    <3> QED
      BY <3>1, EndHeld
  <2>2. CASE ~(Regular(p) /\ p.alone)
    BY <2>2 DEF HeldWith
  <2> QED
    BY <2>1, <2>2
<1>2. /\ connected \subseteq Machine /\ broken \subseteq Machine /\ DOMAIN host = Machine
      /\ breaks \in 0 .. MaxBreaks
  BY Making
<1>3. /\ area' = area /\ connected' \subseteq Machine /\ broken' \subseteq Machine
      /\ breaks' \in 0 .. MaxBreaks /\ DOMAIN host' = Machine /\ HeldWith(p, host')
  BY <1>1, <1>2
<1>4. p.pc # "new"
  OBVIOUS
<1> QED
  BY <1>3, <1>4, OneChanges

\* What could not be asked tells so.
LEMMA NotAskedTells ==
    ASSUME NEW c \in Calls
    PROVE  LET t == NotAsked(c) IN
           /\ t \in Results /\ t.on = c.on /\ t.op = c.op /\ ~t.did /\ ~t.ok /\ Told(t)
BY DEF NotAsked, Calls, Results, Told, Off

\* A statement fails, or none.
LEMMA FailBounds ==
    ASSUME errors \in Nat, Fail(0) \/ Fail(1)
    PROVE  errors' \in 0 .. MaxErrors
BY OperationsAssumption DEF Fail

\* A request between two calls.
LEMMA Between ==
    ASSUME NEW q, Sound(q), q.pc = "next", q.todo # <<>>
    PROVE  /\ q \in Requests /\ Planned(q) /\ Going(q, q.tried) /\ Tallied(q, q.tried)
           /\ Head(q.todo) \in Calls /\ Tail(q.todo) \in Seq(Calls) /\ q.tried \in Seq(Results)
           /\ q.style \in Style /\ Len(q.todo) <= Len(q.calls) /\ Len(q.rows) <= Len(q.tried)
           /\ q.answers = <<>> /\ q.status = NoStatus
<1>1. /\ q \in Requests /\ Planned(q) /\ Going(q, q.tried) /\ Tallied(q, q.tried)
      /\ Len(q.todo) <= Len(q.calls) /\ Len(q.rows) <= Len(q.tried)
  BY DEF Sound
<1>2. q.todo \in Seq(Calls) /\ q.tried \in Seq(Results) /\ q.style \in Style
  BY <1>1 DEF Requests
<1>3. Head(q.todo) \in Calls /\ Tail(q.todo) \in Seq(Calls)
  BY <1>2, TailOf
<1> QED
  BY <1>1, <1>2, <1>3 DEF Going

\* One that passes over a machine.
LEMMA PassedSound ==
    ASSUME NEW q, Sound(q), q.pc = "next", q.todo # <<>>, ~Regular(q),
           NEW p, p = [q EXCEPT !.todo = Tail(@)]
    PROVE  Sound(p) /\ Later(q, p) /\ p.pc = "next" /\ ~Regular(p)
<1>1. /\ q \in Requests /\ Planned(q) /\ Going(q, q.tried) /\ Tallied(q, q.tried)
      /\ Tail(q.todo) \in Seq(Calls) /\ q.tried \in Seq(Results)
  BY Between
<1>2. /\ p \in Requests /\ p.style = q.style /\ p.op = q.op /\ p.calls = q.calls
      /\ p.form = q.form /\ p.alone = q.alone /\ p.pc = "next" /\ p.todo = Tail(q.todo) /\ p.tried = q.tried
      /\ p.rows = q.rows /\ p.answers = q.answers /\ p.status = q.status
  BY <1>1 DEF Requests
<1>3. Planned(p) /\ Tallied(p, p.tried) /\ ~Regular(p)
  BY <1>1, <1>2 DEF Planned, Tallied, Regular
<1>4. q.todo \in Seq(Calls)
  BY <1>1 DEF Requests
<1>5. Len(p.tried) + Len(p.todo) <= Len(p.calls)
  <2> DEFINE done == Len(q.tried)
             left == Len(q.todo)
             leftNow == Len(p.todo)
             all == Len(q.calls)
  <2>1. Len(Tail(q.todo)) = left - 1 /\ left \in Nat /\ left > 0
    BY <1>4, TailOf
  <2>2. leftNow = left - 1 /\ left \in Nat /\ left > 0
    BY <1>2, <2>1
  <2>3. done \in Nat /\ all \in Nat
    BY <1>1 DEF Requests
  <2>4. done + left <= all
    BY <1>1 DEF Going
  <2> HIDE DEF done, left, leftNow, all
  <2>5. done + leftNow <= all
    BY <2>2, <2>3, <2>4
  <2> QED
    BY <1>2, <2>5 DEF done, leftNow, all
<1>6. \A i \in DOMAIN p.todo : p.todo[i].op = p.op
  <2>1. \A i \in DOMAIN q.todo : q.todo[i].op = q.op
    BY <1>1, <1>3, <1>2 DEF Going, Regular
  <2>2. \A i \in DOMAIN Tail(q.todo) : Tail(q.todo)[i] = q.todo[i + 1] /\ i + 1 \in DOMAIN q.todo
    BY <1>4, TailOf
  <2> QED
    BY <1>2, <2>1, <2>2
<1>7. Going(p, p.tried)
  <2>1. /\ q.answers = <<>> /\ q.status = NoStatus
        /\ q.style \in {"logged", "single"} => q.tried = <<>>
        /\ q.style = "chain" => \A i \in DOMAIN q.tried : q.tried[i].ok
        /\ q.style = "batch" =>
              /\ Dones(q.rows) = Oks(q.tried) /\ Undones(q.rows) + Oks(q.tried) <= Len(q.tried)
              /\ Len(q.rows) <= Len(q.tried)
        /\ q.style # "batch" => q.rows = <<>>
    BY <1>1, Zenon DEF Going
  <2>2. p.style # "batch" /\ p.style \notin {"logged", "single"} /\ p.style # "chain"
    BY <1>1, <1>2, <1>3 DEF Requests, Regular, Style
  <2>3. p.rows = <<>> /\ p.answers = <<>> /\ p.status = NoStatus /\ p.form # "refused"
    BY <1>1, <1>2, <2>1, <2>2 DEF Going
  <2> QED
    BY <1>3, <1>5, <1>6, <2>2, <2>3 DEF Going
<1>8. Len(p.todo) <= Len(p.calls) /\ Len(p.rows) <= Len(p.tried)
  BY <1>1, <1>2, <1>7, StillFits, RowsFit
<1> QED
  BY <1>2, <1>3, <1>7, <1>8 DEF Sound, Later

\* pluginapi passes over an agent it finds.
LEMMA PassOverStep ==
    ASSUME Handling, NEW r \in Request, PassOver(r)
    PROVE  Handling'
<1>1. /\ request[r].pc = "next" /\ request[r].style = "package" /\ request[r].todo # <<>>
      /\ Set(r, [request[r] EXCEPT !.todo = Tail(@)])
      /\ UNCHANGED <<area, connected, breaks, broken, errors, host>>
  BY DEF PassOver
<1>2. Sound(request[r]) /\ ~Regular(request[r]) /\ Open(r) /\ errors \in 0 .. MaxErrors
  BY <1>1, Making DEF Regular, Open
<1>3. PICK p : p = [request[r] EXCEPT !.todo = Tail(@)]
  OBVIOUS
<1>4. Sound(p) /\ Later(request[r], p) /\ p.pc = "next" /\ ~Regular(p)
  BY <1>1, <1>2, <1>3, PassedSound
<1>5. Set(r, p) /\ errors' \in 0 .. MaxErrors /\ p.pc \in {"next", "end"}
  BY <1>1, <1>2, <1>3, <1>4
<1>6. UNCHANGED <<area, connected, breaks, broken, host>>
  BY <1>1
<1> QED
  BY <1>2, <1>4, <1>5, <1>6, EndStep

\* No agent: the call counts as failed, or is passed over, or the handler
\* panics.
LEMMA NoAgentStep ==
    ASSUME Handling, NEW r \in Request, NoAgent(r)
    PROVE  Handling'
<1> DEFINE q == request[r]
           c == Head(q.todo)
           t == NotAsked(c)
<1>1. q.pc = "next" /\ q.todo # <<>> /\ UNCHANGED <<area, connected, breaks, broken, host>>
  BY DEF NoAgent
<1>2. Sound(q) /\ HeldWith(q, host) /\ Open(r) /\ errors \in Nat
  BY <1>1, Making DEF Open
<1>3. /\ q \in Requests /\ Planned(q) /\ Going(q, q.tried) /\ Tallied(q, q.tried)
      /\ c \in Calls /\ Tail(q.todo) \in Seq(Calls) /\ q.tried \in Seq(Results)
      /\ q.style \in Style /\ Len(q.todo) <= Len(q.calls) /\ Len(q.rows) <= Len(q.tried)
      /\ q.answers = <<>> /\ q.status = NoStatus
  BY <1>1, <1>2, Between
<1>4. /\ t \in Results /\ t.on = c.on /\ t.op = c.op /\ ~t.did /\ ~t.ok /\ Told(t)
  BY <1>3, NotAskedTells
<1>5. /\ q.style = "batch" => LogAndGoOn(r, q, t)
      /\ q.style = "logged" => LogAndAnswer(r, q, t)
      /\ q.style \in {"single", "chain"} =>
            Fail(0) /\ Set(r, Answer([q EXCEPT !.tried = Append(@, t)], "fail"))
      /\ q.style = "command" => Fail(0) /\ Set(r, [q EXCEPT !.todo = Tail(@)])
      /\ q.style = "package" => Fail(0) /\ Set(r, Panic(q))
  BY DEF NoAgent, Call
<1>6. ASSUME q.style \notin {"package", "command"} PROVE Reporting(q, q.tried, t)
  BY <1>1, <1>3, <1>4, <1>6 DEF Reporting, Reported
<1>7. ASSUME q.alone, Regular(q) PROVE AllKept(Append(q.tried, t), host)
  <2>1. AllKept(q.tried, host)
    BY <1>1, <1>2, <1>7 DEF HeldWith
  <2>2. t.did \/ Unnoticed(t.op) => KeptIn(t, host)
    BY <1>4 DEF KeptIn
  <2> HIDE DEF t
  <2> QED
    BY <1>3, <1>4, <2>1, <2>2, AllKeptAppend
<1> HIDE DEF t, c
<1>8. CASE q.style \in {"batch", "logged"}
  <2>1. PICK p : Outcome(q, t, p) /\ Set(r, p) /\ errors' \in 0 .. MaxErrors
    <3>1. Reporting(q, q.tried, t)
      BY <1>6, <1>8
    <3>2. CASE q.style = "batch"
      <4>1. LogAndGoOn(r, q, t)
        BY <1>5, <3>2
      <4> HIDE DEF q
      <4> QED
        BY <1>2, <3>1, <3>2, <4>1, LogAndGoOnSound
    <3>3. CASE q.style = "logged"
      <4>1. LogAndAnswer(r, q, t)
        BY <1>5, <3>3
      <4> HIDE DEF q
      <4> QED
        BY <1>2, <3>1, <3>3, <4>1, LogAndAnswerSound
    <3> QED
      BY <1>8, <3>2, <3>3
  <2>2. Sound(p) /\ Later(q, p) /\ p.pc \in {"next", "end"} /\ p.tried = Append(q.tried, t)
    BY <2>1 DEF Outcome
  <2>3. Regular(p) /\ p.alone => AllKept(p.tried, host)
    <3>1. p.style = q.style /\ p.alone = q.alone /\ p.tried = Append(q.tried, t)
      BY <2>2 DEF Later
    <3> QED
      BY <1>7, <3>1 DEF Regular
  <2>4. Later(request[r], p) /\ Sound(p) /\ p.pc \in {"next", "end"}
    BY <2>2
  <2> HIDE DEF q
  <2> QED
    BY <1>1, <1>2, <2>1, <2>3, <2>4, EndStep
<1>9. CASE q.style \in {"single", "chain"}
  <2>1. PICK s : s = [q EXCEPT !.tried = Append(@, t)]
    OBVIOUS
  <2>2. PICK p : p = Answer(s, "fail")
    OBVIOUS
  <2>3. Tallied(q, Append(q.tried, t)) /\ Append(q.tried, t) \in Seq(Results)
        /\ Len(Append(q.tried, t)) = Len(q.tried) + 1
    <3>1. Reporting(q, q.tried, t)
      BY <1>6, <1>9
    <3> HIDE DEF q
    <3> QED
      BY <3>1, OneMoreTallied DEF Reporting
  <2>4. /\ s \in Requests /\ Later(q, s) /\ s.tried = Append(q.tried, t) /\ s.todo = q.todo
        /\ s.answers = <<>> /\ s.status = NoStatus /\ s.rows = q.rows
    <3> HIDE DEF q
    <3> QED
      BY <1>3, <2>1, <2>3 DEF Requests, Later
  <2>5. Planned(s) /\ Tallied(s, s.tried) /\ s.calls = q.calls
    <3>1. s.style = q.style /\ s.op = q.op /\ s.calls = q.calls /\ s.form = q.form
      BY <2>4 DEF Later
    <3> HIDE DEF q
    <3> QED
      BY <1>3, <2>3, <2>4, <3>1 DEF Planned, Tallied, Regular
  <2>6. Len(s.todo) <= Len(s.calls) /\ Len(s.rows) <= Len(s.tried)
    <3>1. Len(q.rows) \in Nat /\ Len(q.rows) <= Len(q.tried) /\ Len(q.tried) \in Nat
      BY <1>3, RowsFit
    <3>2. Len(s.tried) = Len(q.tried) + 1 /\ Len(s.rows) = Len(q.rows)
      BY <2>3, <2>4
    <3>3. Len(s.rows) <= Len(s.tried)
      BY <3>1, <3>2
    <3> QED
      BY <1>3, <2>4, <2>5, <3>3
  <2>7. \E i \in DOMAIN s.tried : Off(s.tried[i])
    <3>1. \E i \in DOMAIN s.tried : s.tried[i] = t
      BY <1>3, <2>4
    <3> QED
      BY <1>4, <3>1 DEF Off
  <2>8. LogAgrees(s)
    BY <2>4, NoStatusAgrees
  <2>9. Sound(p) /\ Later(s, p) /\ p.pc = "end" /\ p.tried = s.tried
    BY <2>2, <2>4, <2>5, <2>6, <2>7, <2>8, AnswerSound
  <2>10. Set(r, p) /\ Fail(0)
    BY <1>5, <1>9, <2>1, <2>2
  <2>11. Later(request[r], p) /\ p.pc \in {"next", "end"}
    BY <2>4, <2>9 DEF Later
  <2>12. Regular(p) /\ p.alone => AllKept(p.tried, host)
    <3>1. p.style = q.style /\ p.alone = q.alone /\ p.tried = Append(q.tried, t)
      BY <2>4, <2>9 DEF Later
    <3> QED
      BY <1>7, <3>1 DEF Regular
  <2>13. errors' \in 0 .. MaxErrors
    BY <1>2, <2>10, FailBounds
  <2> HIDE DEF q
  <2>14. Sound(p)
    BY <2>9
  <2> QED
    BY <1>1, <1>2, <2>10, <2>11, <2>12, <2>13, <2>14, EndStep
<1>10. CASE q.style = "command"
  <2>1. PICK p : p = [q EXCEPT !.todo = Tail(@)]
    OBVIOUS
  <2>2. Set(r, p) /\ Fail(0)
    BY <1>5, <1>10, <2>1
  <2>3. ~Regular(q)
    BY <1>10 DEF Regular
  <2>4. Sound(p) /\ Later(q, p) /\ p.pc = "next" /\ ~Regular(p)
    <3> HIDE DEF q
    <3> QED
      BY <1>1, <1>2, <2>1, <2>3, PassedSound
  <2>5. errors' \in 0 .. MaxErrors
    BY <1>2, <2>2, FailBounds
  <2>6. Later(request[r], p) /\ p.pc \in {"next", "end"} /\ Sound(p)
    BY <2>4
  <2> HIDE DEF q
  <2> QED
    BY <1>1, <1>2, <2>2, <2>4, <2>5, <2>6, EndStep
<1>11. CASE q.style = "package"
  <2>1. PICK p : p = Panic(q)
    OBVIOUS
  <2>2. Set(r, p) /\ Fail(0)
    BY <1>5, <1>11, <2>1
  <2>3. /\ p \in Requests /\ Later(q, p) /\ p.pc = "end" /\ p.answers = <<"panic">>
        /\ p.tried = q.tried /\ p.todo = q.todo /\ p.rows = q.rows /\ p.status = NoStatus
    BY <1>3, <2>1, PanicIs
  <2>4. Finished(p)
    BY <2>3, PanicFinishes
  <2>5. p.calls = q.calls /\ ~Regular(p)
    BY <1>11, <2>3 DEF Later, Regular
  <2>6. Tallied(q, p.tried) /\ Len(p.todo) <= Len(p.calls) /\ Len(p.rows) <= Len(p.tried)
    BY <1>3, <2>3, <2>5
  <2>7. Sound(p)
    <3> HIDE DEF q
    <3> QED
      BY <1>3, <2>3, <2>4, <2>6, Ends
  <2>8. errors' \in 0 .. MaxErrors
    BY <1>2, <2>2, FailBounds
  <2>9. Later(request[r], p) /\ p.pc \in {"next", "end"}
    BY <2>3
  <2> HIDE DEF q
  <2> QED
    BY <1>1, <1>2, <2>2, <2>5, <2>7, <2>8, <2>9, EndStep
<1> QED
  BY <1>3, <1>8, <1>9, <1>10, <1>11 DEF Style

\* The last result and those before it.
LEMMA FrontFinal ==
    ASSUME NEW tried \in Seq(Results), tried # <<>>
    PROVE  /\ Front(tried) \in Seq(Results) /\ Final(tried) \in Results
           /\ Append(Front(tried), Final(tried)) = tried
           /\ Final(tried) = tried[Len(tried)] /\ Len(tried) \in DOMAIN tried
<1>1. Len(tried) \in Nat /\ Len(tried) > 0
  OBVIOUS
<1>2. Len(tried) - 1 \in 0 .. Len(tried)
  BY <1>1
<1>3. Front(tried) \in Seq(Results) /\ Len(Front(tried)) = Len(tried) - 1
      /\ \A i \in 1 .. Len(tried) - 1 : Front(tried)[i] = tried[i]
  <2> DEFINE last == Len(tried) - 1
  <2>1. 1 \in Int /\ last \in Int /\ \A i \in 1 .. last : tried[i] \in Results
    BY <1>1
  <2>2. /\ SubSeq(tried, 1, last) \in Seq(Results)
        /\ Len(SubSeq(tried, 1, last)) = IF 1 <= last THEN last - 1 + 1 ELSE 0
        /\ \A i \in 1 .. last - 1 + 1 : SubSeq(tried, 1, last)[i] = tried[1 + i - 1]
    <3> HIDE DEF last
    <3> QED
      BY <2>1, SubSeqProperties
  <2>3. last \in Nat /\ last - 1 + 1 = last /\ \A i \in 1 .. last : 1 + i - 1 = i
    BY <1>1
  <2> QED
    BY <2>2, <2>3 DEF Front
<1>4. Append(Front(tried), Final(tried)) = tried
  BY <1>1, <1>3 DEF Final
<1> QED
  BY <1>1, <1>3, <1>4 DEF Final

\* The answer of an agent.
LEMMA ReportStep ==
    ASSUME Handling, NEW r \in Request, Report(r)
    PROVE  Handling'
<1> DEFINE q == request[r]
           t == Final(q.tried)
           front == Front(q.tried)
           before == [q EXCEPT !.tried = front]
<1>1. q.pc = "report" /\ UNCHANGED <<area, connected, breaks, broken, host>>
  BY DEF Report
<1>2. Sound(q) /\ HeldWith(q, host) /\ Open(r) /\ errors \in Nat
  BY <1>1, Making DEF Open
<1>3. /\ q \in Requests /\ Planned(q) /\ Tallied(q, q.tried) /\ Len(q.todo) <= Len(q.calls)
      /\ Len(q.rows) <= Len(q.tried) /\ q.todo # <<>> /\ q.style # "package"
      /\ q.tried # <<>> /\ Going(q, front) /\ Reported(q, t)
  BY <1>1, <1>2 DEF Sound
<1>4. q.tried \in Seq(Results) /\ q.style \in Style /\ q.todo \in Seq(Calls)
  BY <1>3 DEF Requests
<1>5. /\ front \in Seq(Results) /\ t \in Results /\ Append(front, t) = q.tried
      /\ t = q.tried[Len(q.tried)] /\ Len(q.tried) \in DOMAIN q.tried
  BY <1>3, <1>4, FrontFinal
<1>6. /\ q.style = "batch" => LogAndGoOn(r, before, t)
      /\ q.style = "logged" => LogAndAnswer(r, before, t)
      /\ q.style = "single" => Fail(0) /\ Set(r, Answer(q, Verdict(t.ok)))
      /\ q.style = "chain" =>
            Fail(0) /\ Set(r, IF t.ok THEN [q EXCEPT !.todo = Tail(@), !.pc = "next"]
                              ELSE Answer(q, "fail"))
      /\ q.style = "command" =>
            Fail(0) /\ Set(r, [q EXCEPT !.todo = Tail(@), !.pc = "next",
                                        !.answers = IF t.ok THEN @ ELSE Append(@, "fail")])
  BY DEF Report, Front, Final
<1>7. q.answers = <<>> /\ q.status = NoStatus
  BY <1>3 DEF Going
<1>8. Regular(q) /\ q.alone => AllKept(q.tried, host)
  BY <1>1, <1>2 DEF HeldWith
<1> HIDE DEF q, t, front
<1>9. /\ before \in Requests /\ Later(q, before) /\ before.tried = front /\ before.todo = q.todo
      /\ before.rows = q.rows /\ before.answers = q.answers /\ before.status = q.status
      /\ before.style = q.style /\ before.op = q.op /\ before.calls = q.calls
      /\ before.form = q.form
  BY <1>3, <1>5 DEF Requests, Later
<1>10. PICK b : b = before
  OBVIOUS
<1>11. Reporting(b, front, t)
  <2>1. Going(b, front)
    BY <1>3, <1>9, <1>10, GoingSame
  <2>2. Planned(b)
    BY <1>3, <1>9, <1>10 DEF Planned
  <2>3. Reported(b, t)
    BY <1>3, <1>9, <1>10 DEF Reported
  <2> QED
    BY <1>3, <1>5, <1>9, <1>10, <2>1, <2>2, <2>3 DEF Reporting
\* Whatever becomes of it, it keeps its results.
<1>12. ASSUME NEW p, Set(r, p), Sound(p), Later(q, p), p.pc \in {"next", "end"},
              p.tried = q.tried, errors' \in 0 .. MaxErrors
       PROVE  Handling'
  <2>1. Regular(p) /\ p.alone => AllKept(p.tried, host)
    <3>1. p.style = q.style /\ p.alone = q.alone
      BY <1>12 DEF Later
    <3> QED
      BY <1>8, <1>12, <3>1 DEF Regular
  <2>2. Later(request[r], p) /\ p.pc \in {"next", "end"}
    BY <1>12 DEF q
  <2> QED
    BY <1>1, <1>2, <1>12, <2>1, <2>2, EndStep
<1>13. CASE q.style \in {"batch", "logged"}
  <2>1. Reporting(b, b.tried, t)
    BY <1>9, <1>10, <1>11
  <2>2. PICK p : Outcome(b, t, p) /\ Set(r, p) /\ errors' \in 0 .. MaxErrors
    <3>1. CASE q.style = "batch"
      <4>1. LogAndGoOn(r, b, t) /\ b.style = "batch"
        BY <1>6, <1>9, <1>10, <3>1
      <4> QED
        BY <1>2, <2>1, <4>1, LogAndGoOnSound
    <3>2. CASE q.style = "logged"
      <4>1. LogAndAnswer(r, b, t) /\ b.style = "logged"
        BY <1>6, <1>9, <1>10, <3>2
      <4> QED
        BY <1>2, <2>1, <4>1, LogAndAnswerSound
    <3> QED
      BY <1>13, <3>1, <3>2
  <2>3. Sound(p) /\ Later(b, p) /\ p.pc \in {"next", "end"} /\ p.tried = Append(b.tried, t)
    BY <2>2 DEF Outcome
  <2>4. Later(q, p)
    BY <1>9, <1>10, <2>3 DEF Later
  <2>5. p.tried = q.tried
    BY <1>5, <1>9, <1>10, <2>3
  <2> QED
    BY <1>12, <2>2, <2>3, <2>4, <2>5
\* The plain answers.
<1>14. ASSUME NEW answer \in {"ok", "fail"}, q.style \in {"single", "chain"},
              answer = "ok" => q.style = "single" /\ t.ok, answer = "fail" => ~t.ok,
              Set(r, Answer(q, answer)), Fail(0)
       PROVE  Handling'
  <2>1. PICK p : p = Answer(q, answer)
    OBVIOUS
  <2>2. Told(t)
    BY <1>3 DEF Reported
  <2>3. answer = "ok" => /\ q.form = "good" /\ \A i \in DOMAIN q.tried : Well(q.tried[i])
                         /\ Regular(q) => Len(q.tried) = Len(q.calls)
    <3> SUFFICES ASSUME answer = "ok"
                 PROVE  /\ q.form = "good" /\ \A i \in DOMAIN q.tried : Well(q.tried[i])
                        /\ Len(q.tried) = Len(q.calls)
      OBVIOUS
    <3>1. front = <<>> /\ Len(q.calls) = 1
      BY <1>3, <1>14 DEF Going, Planned
    <3>5. q.form = "good"
      BY <1>3, <1>14, FormGood
    <3>2. q.tried = <<t>>
      BY <1>5, <3>1
    <3>3. \A i \in DOMAIN q.tried : q.tried[i] = t
      BY <3>2
    <3>4. Len(q.tried) = 1
      BY <3>2
    <3> QED
      BY <1>14, <2>2, <3>1, <3>3, <3>4, <3>5 DEF Told
  <2>4. answer = "fail" => \E i \in DOMAIN q.tried : Off(q.tried[i])
    BY <1>5, <1>14, <2>2 DEF Told
  <2>5. LogAgrees(q)
    BY <1>7, NoStatusAgrees
  <2>6. Sound(p) /\ Later(q, p) /\ p.pc = "end" /\ p.tried = q.tried
    BY <1>3, <1>7, <2>1, <2>3, <2>4, <2>5, AnswerSound
  <2>7. errors' \in 0 .. MaxErrors /\ Set(r, p)
    BY <1>2, <1>14, <2>1, FailBounds
  <2> QED
    BY <1>12, <2>6, <2>7
<1>15. CASE q.style = "single"
  BY <1>6, <1>14, <1>15 DEF Verdict
<1>16. CASE q.style = "chain" /\ ~t.ok
  BY <1>6, <1>14, <1>16
<1>17. CASE q.style = "command" \/ (q.style = "chain" /\ t.ok)
  <2>1. t.ok
    BY <1>3, <1>17 DEF Reported
  <2>2. PICK p : p = [q EXCEPT !.todo = Tail(@), !.pc = "next"]
    OBVIOUS
  <2>3. Set(r, p) /\ Fail(0)
    <3>1. [q EXCEPT !.todo = Tail(@), !.pc = "next", !.answers = IF t.ok THEN @ ELSE Append(@, "fail")]
          = [q EXCEPT !.todo = Tail(@), !.pc = "next"]
      BY <1>3, <2>1 DEF Requests
    <3> QED
      BY <1>6, <1>17, <2>1, <2>2, <3>1
  <2>4. /\ p \in Requests /\ Later(q, p) /\ p.pc = "next" /\ p.todo = Tail(q.todo)
        /\ p.tried = q.tried /\ p.rows = q.rows /\ p.answers = q.answers /\ p.status = q.status
    <3>1. Tail(q.todo) \in Seq(Calls)
      BY <1>3, <1>4, TailOf
    <3> QED
      BY <1>3, <2>2, <3>1 DEF Requests, Later, PC
  <2>5. Continues(b, front, t, p)
    <3>1. Later(b, p) /\ b.style = q.style
      BY <1>9, <1>10, <2>4 DEF Later
    <3>2. p.tried = Append(front, t)
      BY <1>5, <2>4
    <3>3. p.todo = Tail(b.todo) /\ p.answers = b.answers /\ p.status = b.status /\ p.rows = b.rows
      BY <1>9, <1>10, <2>4
    <3>4. b.style \notin {"logged", "single"} /\ b.style # "batch"
      BY <1>17, <3>1
    <3> QED
      BY <2>1, <2>4, <3>1, <3>2, <3>3, <3>4 DEF Continues
  <2>6. Sound(p)
    BY <1>11, <2>5, GoesOn
  <2>7. errors' \in 0 .. MaxErrors
    BY <1>2, <2>3, FailBounds
  <2> QED
    BY <1>12, <2>3, <2>4, <2>6, <2>7
<1> QED
  BY <1>3, <1>4, <1>13, <1>15, <1>16, <1>17 DEF Style

\* A request that has come to the end of its list.
LEMMA ListDone ==
    ASSUME NEW q, Sound(q), q.pc = "next", q.todo = <<>>
    PROVE  /\ q \in Requests /\ Planned(q) /\ Going(q, q.tried) /\ Tallied(q, q.tried)
           /\ q.tried \in Seq(Results) /\ q.style \in {"batch", "chain", "package", "command"}
           /\ Len(q.todo) <= Len(q.calls) /\ Len(q.rows) <= Len(q.tried)
           /\ q.answers = <<>> /\ q.status = NoStatus
           /\ Regular(q) => Len(q.tried) = Len(q.calls)
<1>1. /\ q \in Requests /\ Planned(q) /\ Going(q, q.tried) /\ Tallied(q, q.tried)
      /\ Len(q.todo) <= Len(q.calls) /\ Len(q.rows) <= Len(q.tried)
  BY DEF Sound
<1>2. q.tried \in Seq(Results) /\ q.style \in Style /\ q.calls \in Seq(Calls)
  BY <1>1 DEF Requests
<1>3. q.answers = <<>> /\ q.status = NoStatus
  BY <1>1 DEF Going
<1>4. Regular(q) => Len(q.tried) = Len(q.calls)
  <2> DEFINE done == Len(q.tried)
             left == Len(q.todo)
             all == Len(q.calls)
  <2>1. Regular(q) => done + left = all
    BY <1>1 DEF Going
  <2>2. left = 0 /\ done \in Nat /\ all \in Nat
    BY <1>2
  <2> HIDE DEF done, left, all
  <2>3. Regular(q) => done = all
    BY <2>1, <2>2
  <2> QED
    BY <2>3 DEF done, all
<1>5. q.style \notin {"logged", "single"}
  <2> SUFFICES ASSUME q.style \in {"logged", "single"} PROVE FALSE
    OBVIOUS
  <2>1. q.tried = <<>> /\ Regular(q) /\ Len(q.calls) = 1
    BY <1>1 DEF Going, Planned, Regular
  <2> QED
    BY <1>4, <2>1
<1> QED
  BY <1>1, <1>2, <1>3, <1>4, <1>5 DEF Style

\* The status of a batch agrees with its rows.
LEMMA StatusAgrees ==
    ASSUME NEW q, Sound(q), q.pc = "next", q.todo = <<>>, q.style = "batch",
           NEW s, s = WithStatus(q, BatchActionStatus(q.tried))
    PROVE  /\ s \in Requests /\ Later(q, s) /\ s.tried = q.tried /\ s.todo = q.todo
           /\ s.rows = q.rows /\ s.answers = q.answers /\ LogAgrees(s)
<1> DEFINE done == Oks(q.tried)
           all == Len(q.tried)
<1>1. /\ q \in Requests /\ Going(q, q.tried) /\ Tallied(q, q.tried) /\ q.tried \in Seq(Results)
      /\ Regular(q) => Len(q.tried) = Len(q.calls)
  BY ListDone
<1>2. Regular(q) /\ Len(q.tried) = Len(q.calls)
  BY <1>1 DEF Regular
<1>3. done \in Nat /\ all \in Nat
  BY <1>1, OksType
<1>4. Dones(q.rows) = done /\ Undones(q.rows) + done <= all /\ Undones(q.rows) \in Nat
  <2>1. q.rows \in Seq(BOOLEAN)
    BY <1>1 DEF Requests
  <2>2. Undones(q.rows) \in Nat
    BY <2>1, CountType
  <2> QED
    BY <1>1, <2>2 DEF Going
<1>5. BatchActionStatus(q.tried) = <<done, all>>
  BY DEF BatchActionStatus, Oks
<1> HIDE DEF done, all
<1>6. s.status \in {NoStatus, <<done, all>>} /\ <<done, all>> \in Nat \X Nat
  BY <1>1, <1>3, <1>5 DEF WithStatus, Requests
<1>7. /\ s \in Requests /\ Later(q, s) /\ s.tried = q.tried /\ s.todo = q.todo
      /\ s.rows = q.rows /\ s.answers = q.answers /\ s.calls = q.calls
  <2>1. PICK status : status = IF q.saved THEN <<done, all>> ELSE NoStatus
    OBVIOUS
  <2>2. status \in {NoStatus} \cup (Nat \X Nat)
    BY <1>3, <2>1
  <2>3. s = [q EXCEPT !.status = status]
    BY <1>5, <2>1 DEF WithStatus
  <2>4. s \in Requests
    BY <1>1, <2>2, <2>3, RequestUpdates
  <2> QED
    BY <1>1, <2>3, <2>4 DEF Requests, Later
<1>8. LogAgrees(s)
  <2> SUFFICES ASSUME s.status = <<done, all>> PROVE LogAgrees(s)
    BY <1>6, NoStatusAgrees
  <2>1. s.status[1] = Dones(s.rows) /\ s.status[2] = all /\ s.status[1] = done
    BY <1>4, <1>7
  <2>2. Undones(s.rows) <= s.status[2] - s.status[1]
    <3>1. \A n \in Nat : n + done <= all => n <= all - done
      BY <1>3
    <3> QED
      BY <1>4, <1>7, <2>1, <3>1
  <2>3. s.status[2] = Len(s.calls)
    BY <1>2, <1>7, <2>1 DEF all
  <2>4. [i \in DOMAIN s.tried |-> s.tried[i].on] = [i \in DOMAIN s.calls |-> s.calls[i].on]
    BY <1>1, <1>2, <1>7, SameMachines
  <2> QED
    BY <2>1, <2>2, <2>3, <2>4 DEF LogAgrees
<1> QED
  BY <1>7, <1>8

\* The end of the list.
LEMMA ConcludeStep ==
    ASSUME Handling, NEW r \in Request, Conclude(r)
    PROVE  Handling'
<1> DEFINE q == request[r]
<1>1. q.pc = "next" /\ q.todo = <<>> /\ UNCHANGED <<area, connected, breaks, broken, host>>
  BY DEF Conclude
<1>2. Sound(q) /\ HeldWith(q, host) /\ Open(r) /\ errors \in Nat
  BY <1>1, Making DEF Open
<1>3. /\ q \in Requests /\ Planned(q) /\ Going(q, q.tried) /\ Tallied(q, q.tried)
      /\ q.tried \in Seq(Results) /\ q.style \in {"batch", "chain", "package", "command"}
      /\ Len(q.todo) <= Len(q.calls) /\ Len(q.rows) <= Len(q.tried)
      /\ q.answers = <<>> /\ q.status = NoStatus
      /\ Regular(q) => Len(q.tried) = Len(q.calls)
  BY <1>1, <1>2, ListDone
<1>4. /\ q.style = "batch" =>
            \E updated \in BOOLEAN :
               /\ Fail(IF updated THEN 0 ELSE 1)
               /\ Set(r, IF ~updated /\ q.saved THEN Panic(q)
                         ELSE Answer(IF updated THEN WithStatus(q, BatchActionStatus(q.tried))
                                                ELSE q,
                                     Verdict(ActionStatus(q.tried))))
      /\ q.style = "chain" => Fail(0) /\ Set(r, Answer(q, Verdict(q.form = "good")))
      /\ q.style = "package" => Fail(0) /\ Set(r, Answer(q, "ok"))
      /\ q.style = "command" =>
            \E answer \in IF q.calls = <<>> THEN {"ok", "fail"} ELSE {"ok"} :
               Fail(0) /\ Set(r, Answer(q, answer))
  BY DEF Conclude
<1>5. Regular(q) /\ q.alone => AllKept(q.tried, host)
  BY <1>1, <1>2 DEF HeldWith
<1>6. \A i \in DOMAIN q.tried : Told(q.tried[i])
  BY <1>3 DEF Tallied
<1> HIDE DEF q
\* It ends with the results it has.
<1>7. ASSUME NEW p, Set(r, p), Sound(p), Later(q, p), p.pc = "end", p.tried = q.tried,
             errors' \in 0 .. MaxErrors
      PROVE  Handling'
  <2>1. Regular(p) /\ p.alone => AllKept(p.tried, host)
    <3>1. p.style = q.style /\ p.alone = q.alone
      BY <1>7 DEF Later
    <3> QED
      BY <1>5, <1>7, <3>1 DEF Regular
  <2>2. Later(request[r], p) /\ p.pc \in {"next", "end"}
    BY <1>7 DEF q
  <2> QED
    BY <1>1, <1>2, <1>7, <2>1, <2>2, EndStep
\* An answer, after the status or without.
<1>8. ASSUME NEW s \in Requests, NEW answer \in {"ok", "fail"}, Later(q, s), s.tried = q.tried,
             s.todo = q.todo, s.rows = q.rows, s.answers = q.answers, LogAgrees(s),
             answer = "ok" => q.form = "good" /\ \A i \in DOMAIN q.tried : q.tried[i].ok,
             answer = "fail" /\ q.form = "good" /\ q.calls # <<>> =>
                \E i \in DOMAIN q.tried : ~q.tried[i].ok,
             Set(r, Answer(s, answer)), Fail(0) \/ Fail(1)
      PROVE  Handling'
  <2>1. PICK p : p = Answer(s, answer)
    OBVIOUS
  <2>2. s.style = q.style /\ s.op = q.op /\ s.calls = q.calls /\ s.form = q.form
    BY <1>8 DEF Later
  <2>3. Planned(s) /\ Tallied(s, s.tried) /\ (Regular(s) <=> Regular(q))
    <3>1. Planned(q) /\ Tallied(q, q.tried)
      BY <1>3
    <3> QED
      BY <1>8, <2>2, <3>1, SamePlan
  <2>4. answer = "ok" => /\ s.form = "good" /\ \A i \in DOMAIN s.tried : Well(s.tried[i])
                         /\ Regular(s) => Len(s.tried) = Len(s.calls)
    <3>1. answer = "ok" => \A i \in DOMAIN q.tried : Well(q.tried[i])
      BY <1>6, <1>8 DEF Told
    <3> QED
      BY <1>3, <1>8, <2>2, <2>3, <3>1
  <2>5. answer = "fail" /\ s.form = "good" /\ s.calls # <<>> =>
           \E i \in DOMAIN s.tried : Off(s.tried[i])
    BY <1>6, <1>8, <2>2 DEF Told
  <2>6. s.answers = <<>> /\ Len(s.todo) <= Len(s.calls) /\ Len(s.rows) <= Len(s.tried)
    BY <1>3, <1>8, <2>2
  <2>7. Sound(p) /\ Later(s, p) /\ p.pc = "end" /\ p.tried = s.tried
    BY <1>8, <2>1, <2>3, <2>4, <2>5, <2>6, AnswerSound
  <2>8. Later(q, p) /\ p.tried = q.tried
    BY <1>8, <2>7 DEF Later
  <2>9. errors' \in 0 .. MaxErrors /\ Set(r, p)
    BY <1>2, <1>8, <2>1, FailBounds
  <2> QED
    BY <1>7, <2>7, <2>8, <2>9
<1>9. Later(q, q) /\ LogAgrees(q)
  BY <1>3, NoStatusAgrees DEF Later
<1>10. CASE q.style = "batch"
  <2>1. PICK updated \in BOOLEAN :
           /\ Fail(IF updated THEN 0 ELSE 1)
           /\ Set(r, IF ~updated /\ q.saved THEN Panic(q)
                     ELSE Answer(IF updated THEN WithStatus(q, BatchActionStatus(q.tried))
                                            ELSE q,
                                 Verdict(ActionStatus(q.tried))))
    BY <1>4, <1>10
  <2>2. Fail(0) \/ Fail(1)
    BY <2>1
  <2>3. CASE ~updated /\ q.saved
    <3>1. PICK p : p = Panic(q)
      OBVIOUS
    <3>2. /\ p \in Requests /\ Later(q, p) /\ p.pc = "end" /\ p.answers = <<"panic">>
          /\ p.tried = q.tried /\ p.todo = q.todo /\ p.rows = q.rows /\ p.status = NoStatus
      BY <1>3, <3>1, PanicIs
    <3>3. Finished(p)
      BY <3>2, PanicFinishes
    <3>4. p.calls = q.calls
      BY <3>2 DEF Later
    <3>5. Tallied(q, p.tried) /\ Len(p.todo) <= Len(p.calls) /\ Len(p.rows) <= Len(p.tried)
      BY <1>3, <3>2, <3>4
    <3>6. Sound(p)
      BY <1>3, <3>2, <3>3, <3>5, Ends
    <3>7. Set(r, p) /\ errors' \in 0 .. MaxErrors
      BY <1>2, <2>1, <2>2, <2>3, <3>1, FailBounds
    <3> QED
      BY <1>7, <3>2, <3>6, <3>7
  <2>4. CASE ~(~updated /\ q.saved)
    <3>1. PICK s : s = IF updated THEN WithStatus(q, BatchActionStatus(q.tried)) ELSE q
      OBVIOUS
    <3>2. PICK answer : answer = Verdict(ActionStatus(q.tried))
      OBVIOUS
    <3>3. /\ s \in Requests /\ Later(q, s) /\ s.tried = q.tried /\ s.todo = q.todo
          /\ s.rows = q.rows /\ s.answers = q.answers /\ LogAgrees(s)
      <4>1. CASE updated
        <5>1. Sound(q) /\ q.pc = "next" /\ q.todo = <<>>
          BY <1>1, <1>2 DEF q
        <5>2. s = WithStatus(q, BatchActionStatus(q.tried))
          BY <3>1, <4>1
        <5> QED
          BY <1>10, <5>1, <5>2, StatusAgrees
      <4>2. CASE ~updated
        BY <1>3, <1>9, <3>1, <4>2
      <4> QED
        BY <4>1, <4>2
    <3>4. /\ answer \in {"ok", "fail"}
          /\ answer = "ok" => q.form = "good" /\ \A i \in DOMAIN q.tried : q.tried[i].ok
          /\ answer = "fail" => \E i \in DOMAIN q.tried : ~q.tried[i].ok
      <4>1. q.form = "good"
        BY <1>3, <1>10, FormGood
      <4> QED
        BY <3>2, <4>1 DEF Verdict, ActionStatus
    <3>5. Set(r, Answer(s, answer))
      BY <2>1, <2>4, <3>1, <3>2
    <3> QED
      BY <1>8, <2>2, <3>3, <3>4, <3>5
  <2> QED
    BY <2>3, <2>4
<1>11. CASE q.style = "chain"
  <2>1. PICK answer : answer = Verdict(q.form = "good")
    OBVIOUS
  <2>2. /\ answer \in {"ok", "fail"} /\ (answer = "ok" => q.form = "good")
        /\ (answer = "fail" => q.form # "good")
    BY <2>1 DEF Verdict
  <2>3. \A i \in DOMAIN q.tried : q.tried[i].ok
    BY <1>3, <1>11 DEF Going
  <2>4. Set(r, Answer(q, answer)) /\ Fail(0)
    BY <1>4, <1>11, <2>1
  <2> QED
    BY <1>3, <1>8, <1>9, <2>2, <2>3, <2>4
<1>13. CASE q.style = "package"
  <2>1. q.tried = <<>> /\ q.form = "good"
    BY <1>3, <1>13, FormGood DEF Tallied
  <2>2. \A i \in DOMAIN q.tried : q.tried[i].ok
    BY <2>1
  <2>3. Set(r, Answer(q, "ok")) /\ Fail(0)
    BY <1>4, <1>13
  <2> QED
    BY <1>3, <1>8, <1>9, <2>1, <2>2, <2>3
<1>12. CASE q.style = "command"
  <2>1. PICK answer \in {"ok", "fail"} :
           Fail(0) /\ Set(r, Answer(q, answer)) /\ (answer = "fail" => q.calls = <<>>)
    BY <1>4, <1>12
  <2>2. q.form = "good" /\ \A i \in DOMAIN q.tried : q.tried[i].ok
    BY <1>3, <1>12, FormGood DEF Tallied
  <2> QED
    BY <1>3, <1>8, <1>9, <2>1, <2>2
<1> QED
  BY <1>3, <1>10, <1>11, <1>12, <1>13

\* A request whose call is being made.
LEMMA AtWork ==
    ASSUME NEW q, Sound(q), q.pc = "work"
    PROVE  /\ q \in Requests /\ Planned(q) /\ Going(q, q.tried) /\ Tallied(q, q.tried) /\ Running(q)
           /\ q.todo # <<>> /\ q.style # "package" /\ Head(q.todo) \in Calls
           /\ q.tried \in Seq(Results) /\ q.run \in Seq(CommandSet) /\ q.run # <<>>
           /\ Head(q.todo).on \in Machine /\ Head(q.todo).op \in Op
           /\ Len(q.todo) <= Len(q.calls) /\ Len(q.rows) <= Len(q.tried)
           /\ q.answers = <<>> /\ q.status = NoStatus
<1>1. /\ q \in Requests /\ Planned(q) /\ Going(q, q.tried) /\ Tallied(q, q.tried) /\ Running(q)
      /\ q.todo # <<>> /\ q.style # "package"
      /\ Len(q.todo) <= Len(q.calls) /\ Len(q.rows) <= Len(q.tried)
  BY DEF Sound
<1>2. q.tried \in Seq(Results) /\ q.run \in Seq(CommandSet) /\ q.todo \in Seq(Calls)
  BY <1>1 DEF Requests
<1>3. Head(q.todo) \in Calls
  BY <1>1, <1>2, TailOf
<1>4. q.answers = <<>> /\ q.status = NoStatus
  BY <1>1 DEF Going
<1>5. q.run # <<>>
  BY <1>1 DEF Running
<1> QED
  BY <1>1, <1>2, <1>3, <1>4, <1>5 DEF Calls

\* What a call leaves of q that is done, well or not.
ReturnsTo(q, did, facts, p) ==
    \E pc \in {"sent", "hung"} :
       p = [q EXCEPT !.run = <<>>, !.tried = Append(@, Tried(Head(q.todo), did, facts)), !.pc = pc]

\* Its answer is on the way, or is lost.
LEMMA ReturnSound ==
    ASSUME NEW q, Sound(q), q.pc = "work", NEW did \in BOOLEAN, NEW facts,
           NEW p, ReturnsTo(q, did, facts, p)
    PROVE  /\ Sound(p) /\ Later(q, p) /\ p.pc \in {"sent", "hung"}
           /\ \E t \in Results : /\ p.tried = Append(q.tried, t) /\ t.did = did
                                 /\ t.on = Head(q.todo).on /\ t.op = Head(q.todo).op
<1> DEFINE c == Head(q.todo)
<1>1. /\ q \in Requests /\ Planned(q) /\ Going(q, q.tried) /\ Tallied(q, q.tried) /\ Running(q)
      /\ q.todo # <<>> /\ q.style # "package" /\ c \in Calls
      /\ q.tried \in Seq(Results) /\ q.run \in Seq(CommandSet) /\ q.run # <<>>
      /\ c.on \in Machine /\ c.op \in Op
      /\ Len(q.todo) <= Len(q.calls) /\ Len(q.rows) <= Len(q.tried)
      /\ q.answers = <<>> /\ q.status = NoStatus
  BY AtWork
<1>2. PICK t : t = Tried(c, did, facts)
  OBVIOUS
<1>3. /\ t \in Results /\ t.on = c.on /\ t.op = c.op /\ t.did = did /\ Told(t)
      /\ c.op \in IgnoresStatus => t.ok
  <2>1. c = [on |-> c.on, op |-> c.op]
    BY <1>1 DEF Calls
  <2>2. PICK m, op : m = c.on /\ op = c.op
    OBVIOUS
  <2>3. t = Tried([on |-> m, op |-> op], did, facts)
    BY <1>2, <2>1, <2>2
  <2>4. m \in Machine /\ op \in Op
    BY <1>1, <2>2
  <2> QED
    BY <2>2, <2>3, <2>4, ReturnTells
<1>4. Reported(q, t)
  <2>1. ASSUME q.style = "command" PROVE t.ok
    <3>1. ~Regular(q)
      BY <2>1 DEF Regular
    <3>2. 1 \in DOMAIN q.todo /\ Head(q.todo) = q.todo[1]
      <4>1. q.todo \in Seq(Calls)
        BY <1>1 DEF Requests
      <4> QED
        BY <1>1, <4>1
    <3>3. c.op = q.op
      BY <1>1, <3>1, <3>2 DEF Going
    <3>4. q.op \in IgnoresStatus
      BY <1>1, <2>1 DEF Planned
    <3> QED
      BY <1>3, <3>3, <3>4
  <2> QED
    BY <1>3, <2>1 DEF Reported
<1>5. /\ Tallied(q, Append(q.tried, t)) /\ Append(q.tried, t) \in Seq(Results)
      /\ Len(Append(q.tried, t)) = Len(q.tried) + 1
  BY <1>1, <1>3, <1>4, OneMoreTallied
<1>6. PICK pc \in {"sent", "hung"} : p = [q EXCEPT !.run = <<>>, !.tried = Append(@, t), !.pc = pc]
  BY <1>2 DEF ReturnsTo
<1>7. p = [q EXCEPT !.run = <<>>, !.tried = Append(q.tried, t), !.pc = pc]
  BY <1>6
<1> HIDE DEF c
<1>8. /\ p \in Requests /\ Later(q, p) /\ p.pc = pc /\ p.tried = Append(q.tried, t)
      /\ p.todo = q.todo /\ p.rows = q.rows /\ p.answers = q.answers /\ p.status = q.status
      /\ p.style = q.style /\ p.op = q.op /\ p.calls = q.calls /\ p.form = q.form
  <2>1. pc \in PC /\ <<>> \in Seq(CommandSet)
    BY DEF PC
  <2> QED
    BY <1>1, <1>5, <1>7, <2>1 DEF Requests, Later
<1>9. Planned(p) /\ Tallied(p, p.tried)
  BY <1>1, <1>5, <1>8, SamePlan
<1>10. Len(p.rows) <= Len(p.tried) /\ Len(p.todo) <= Len(p.calls)
  <2>1. Len(q.rows) \in Nat /\ Len(q.rows) <= Len(q.tried) /\ Len(q.tried) \in Nat
    BY <1>1, RowsFit
  <2>2. Len(p.tried) = Len(q.tried) + 1 /\ Len(p.rows) = Len(q.rows)
    BY <1>5, <1>8
  <2>3. Len(p.rows) <= Len(p.tried)
    BY <2>1, <2>2
  <2> QED
    BY <1>1, <1>8, <2>3
<1>11. Front(p.tried) = q.tried /\ Final(p.tried) = t /\ p.tried # <<>>
  <2> DEFINE old == q.tried
             more == Append(old, t)
             last == Len(more) - 1
  <2>1. /\ more \in Seq(Results) /\ more # <<>> /\ last = Len(old) /\ more[last + 1] = t
        /\ last \in Nat /\ \A i \in 1 .. last : more[i] = old[i] /\ old[i] \in Results
    BY <1>1, <1>3
  <2>2. old \in Seq(Results) /\ last = Len(old)
    BY <1>1, <2>1
  <2> HIDE DEF more, old
  <2>3. 1 \in Int /\ last \in Int /\ \A i \in 1 .. last : more[i] \in Results
    BY <2>1
  <2>4. /\ SubSeq(more, 1, last) \in Seq(Results)
        /\ Len(SubSeq(more, 1, last)) = IF 1 <= last THEN last - 1 + 1 ELSE 0
        /\ \A i \in 1 .. last - 1 + 1 : SubSeq(more, 1, last)[i] = more[1 + i - 1]
    <3> HIDE DEF last
    <3> QED
      BY <2>3, SubSeqProperties
  <2>5. last \in Nat /\ last - 1 + 1 = last /\ \A i \in 1 .. last : 1 + i - 1 = i
    BY <2>1
  <2>6. Front(more) \in Seq(Results) /\ Len(Front(more)) = last
        /\ \A i \in 1 .. last : Front(more)[i] = old[i]
    BY <2>1, <2>4, <2>5 DEF Front
  <2>7. Front(more) = old
    BY <2>2, <2>6
  <2>8. Final(more) = t
    BY <2>1 DEF Final
  <2> QED
    BY <1>8, <2>1, <2>7, <2>8 DEF more, old
<1>12. Going(p, q.tried)
  BY <1>1, <1>8, GoingSame
<1>13. Reported(p, t)
  BY <1>4, <1>8 DEF Reported
<1>14. Sound(p)
  <2>1. p.pc \in {"sent", "hung"}
    BY <1>8
  <2> QED
    BY <1>1, <1>8, <1>9, <1>10, <1>11, <1>12, <1>13, <2>1 DEF Sound
<1>15. p.pc \in {"sent", "hung"}
  BY <1>8
<1> QED
  BY <1>3, <1>8, <1>14, <1>15 DEF c

\* One that has a command behind it.
LEMMA RunsOn ==
    ASSUME NEW q, Sound(q), q.pc = "work"
    PROVE  /\ Len(q.run) \in 1 .. Len(Commands[Head(q.todo).op])
           /\ Head(q.run) = NextOf(Head(q.todo).op, Len(q.run))
           /\ Len(q.run) # 1 =>
                 LET p == [q EXCEPT !.run = Tail(@)] IN
                 /\ Sound(p) /\ Later(q, p) /\ p.pc = "work" /\ p.tried = q.tried
                 /\ p.todo = q.todo /\ Len(p.run) = Len(q.run) - 1
<1> DEFINE c == Head(q.todo)
           all == Commands[c.op]
           run == q.run
           n == Len(all)
           k == Len(run)
<1>1. /\ q \in Requests /\ Planned(q) /\ Going(q, q.tried) /\ Tallied(q, q.tried) /\ Running(q)
      /\ q.todo # <<>> /\ q.style # "package" /\ c \in Calls
      /\ q.tried \in Seq(Results) /\ run \in Seq(CommandSet) /\ run # <<>>
      /\ c.on \in Machine /\ c.op \in Op
      /\ Len(q.todo) <= Len(q.calls) /\ Len(q.rows) <= Len(q.tried)
      /\ q.answers = <<>> /\ q.status = NoStatus
  BY AtWork
<1>2. all \in Seq(CommandSet) /\ n \in Nat
  BY <1>1, CommandsType
<1>3. k \in Nat /\ k > 0 /\ DOMAIN run = 1 .. k /\ Head(run) = run[1]
  BY <1>1
<1>4. k <= n /\ \A i \in DOMAIN run : run[i] = all[n - k + i]
  BY <1>1 DEF Running
<1>5. k \in 1 .. n
  BY <1>2, <1>3, <1>4
<1>6. Head(run) = NextOf(c.op, k)
  <2>1. 1 \in DOMAIN run
    BY <1>3
  <2>2. run[1] = all[n - k + 1]
    BY <1>4, <2>1
  <2>3. NextOf(c.op, k) = all[n - k + 1]
    BY DEF NextOf
  <2> QED
    BY <1>3, <2>2, <2>3
<1>7. ASSUME k # 1
      PROVE  LET p == [q EXCEPT !.run = Tail(@)] IN
             /\ Sound(p) /\ Later(q, p) /\ p.pc = "work" /\ p.tried = q.tried
             /\ p.todo = q.todo /\ Len(p.run) = k - 1
  <2>1. PICK p : p = [q EXCEPT !.run = Tail(@)]
    OBVIOUS
  <2>2. PICK rest : rest = Tail(run)
    OBVIOUS
  <2>3. /\ rest \in Seq(CommandSet) /\ Len(rest) = k - 1 /\ DOMAIN rest = 1 .. k - 1
        /\ \A i \in DOMAIN rest : rest[i] = run[i + 1] /\ i + 1 \in DOMAIN run
    BY <1>1, <2>2, TailOf
  <2>4. /\ p \in Requests /\ Later(q, p) /\ p.pc = "work" /\ p.run = rest /\ p.tried = q.tried
        /\ p.todo = q.todo /\ p.rows = q.rows /\ p.answers = q.answers /\ p.status = q.status
        /\ p.style = q.style /\ p.op = q.op /\ p.calls = q.calls /\ p.form = q.form
    <3> HIDE DEF run
    <3>1. p = [q EXCEPT !.run = rest]
      BY <2>1, <2>2 DEF run
    <3> QED
      BY <1>1, <2>3, <3>1 DEF Requests, Later
  <2> HIDE DEF n, k
  <2>5. rest # <<>> /\ Len(rest) <= n
    <3>1. k - 1 # 0 /\ k - 1 <= n
      <4>1. k \in Nat /\ n \in Nat /\ k <= n /\ k # 1
        BY <1>2, <1>3, <1>4, <1>7
      <4> QED
        BY <4>1
    <3>2. Len(rest) = k - 1
      BY <2>3
    <3>3. Len(rest) # 0 /\ Len(rest) <= n
      BY <3>1, <3>2
    <3> QED
      BY <3>3
  <2>6. \A i \in DOMAIN rest : rest[i] = all[n - Len(rest) + i]
    <3> SUFFICES ASSUME NEW i \in DOMAIN rest PROVE rest[i] = all[n - Len(rest) + i]
      OBVIOUS
    <3>1. rest[i] = run[i + 1] /\ run[i + 1] = all[n - k + (i + 1)]
      BY <1>4, <2>3
    <3>2. n - k + (i + 1) = n - Len(rest) + i
      BY <1>2, <1>3, <2>3
    <3> QED
      BY <3>1, <3>2
  <2>7. Running(p)
    BY <2>4, <2>5, <2>6 DEF Running, n
  <2>8. Planned(p) /\ Tallied(p, p.tried)
    BY <1>1, <2>4, SamePlan
  <2>9. Going(p, p.tried)
    BY <1>1, <2>4, GoingSame
  <2>10. Sound(p)
    BY <1>1, <2>4, <2>7, <2>8, <2>9 DEF Sound
  <2> QED
    BY <2>1, <2>3, <2>4, <2>10
<1> QED
  BY <1>5, <1>6, <1>7

\* A chain does not undo what its earlier calls have done.
LEMMA ChainStays ==
    ASSUME NEW j \in DOMAIN Chain, NEW i \in 1 .. j - 1, NEW k \in DOMAIN Commands[Chain[j]],
           NEW facts, KeptOn(facts, Chain[i])
    PROVE  KeptOn(After(Commands[Chain[j]][k], facts), Chain[i])
<1>1. /\ Chain = <<"GetNICName", "GetNetWorkConnectInfo", "UpdateFile", "RestartNetWork">>
      /\ j \in 1 .. 4
  BY DEF Chain
<1>2. CASE i \in {1, 2}
  <2>1. Chain[i] \in {"GetNICName", "GetNetWorkConnectInfo"}
    BY <1>1, <1>2
  <2>2. Promise(Chain[i]) = <<{}, {}>>
    BY <2>1 DEF Promise
  <2> QED
    BY <2>2 DEF KeptOn
<1>3. CASE i \notin {1, 2}
  <2>1. j = 4 /\ i = 3
    BY <1>1, <1>3
  <2>2. Chain[3] = "UpdateFile" /\ Chain[4] = "RestartNetWork"
    BY <1>1
  <2>3. Commands[Chain[j]] = <<Look, Command({"card"}, {}, {"network"}, {})>>
    BY <2>1, <2>2, PromisingCommands DEF RestartNetwork
  <2>4. \E needs, lacks, adds :
           Commands[Chain[j]][k] = Command(needs, lacks, adds, {}) /\ adds \subseteq {"network"}
    BY <2>3 DEF Look
  <2>5. PICK needs, lacks, adds :
           Commands[Chain[j]][k] = Command(needs, lacks, adds, {}) /\ adds \subseteq {"network"}
    BY <2>4
  <2>6. After(Commands[Chain[j]][k], facts) = facts \cup adds
    BY <2>5, AfterCommand
  <2>7. Promise(Chain[i]) = <<{"file"}, {"old", "cut"}>>
    BY <2>1, <2>2, Promises
  <2> QED
    BY <2>5, <2>6, <2>7 DEF KeptOn
<1> QED
  BY <1>2, <1>3

\* Where the calls of a request are in its list.
LEMMA Places ==
    ASSUME NEW q, Sound(q), q.pc = "work", Regular(q)
    PROVE  /\ Len(q.tried) + 1 \in DOMAIN q.calls /\ Head(q.todo) = q.calls[Len(q.tried) + 1]
           /\ \A i \in DOMAIN q.tried :
                 i \in DOMAIN q.calls /\ i \in 1 .. Len(q.tried) /\ q.tried[i].op = q.calls[i].op
<1> DEFINE done == Len(q.tried)
           left == Len(q.todo)
           all == Len(q.calls)
<1>1. /\ q \in Requests /\ Going(q, q.tried) /\ Tallied(q, q.tried) /\ q.todo # <<>>
      /\ q.tried \in Seq(Results)
  BY AtWork
<1>2. q.todo \in Seq(Calls) /\ q.calls \in Seq(Calls)
  BY <1>1 DEF Requests
<1>3. done \in Nat /\ all \in Nat /\ left \in Nat /\ left > 0 /\ Head(q.todo) = q.todo[1]
      /\ 1 \in DOMAIN q.todo /\ DOMAIN q.calls = 1 .. all /\ DOMAIN q.tried = 1 .. done
  BY <1>1, <1>2
<1>4. done + left = all
  BY <1>1 DEF Going
<1>5. q.todo[1] = q.calls[done + 1]
  BY <1>1, <1>3 DEF Going
<1>6. \A i \in DOMAIN q.tried : q.tried[i].op = q.calls[i].op
  BY <1>1 DEF Tallied
<1>7. done + 1 \in 1 .. all /\ \A i \in 1 .. done : i \in 1 .. all
  <2> HIDE DEF done, left, all
  <2> QED
    BY <1>3, <1>4
<1> QED
  BY <1>3, <1>5, <1>6, <1>7

\* A command leaves what the calls before have done, those that are the same
\* call aside.
LEMMA OthersStay ==
    ASSUME NEW q, Sound(q), q.pc = "work", Regular(q), NEW hosts, DOMAIN hosts = Machine,
           Begun(q, hosts),
           NEW now, now = [hosts EXCEPT ![Head(q.todo).on] = After(Head(q.run), @)]
    PROVE  Begun(q, now)
<1> DEFINE c == Head(q.todo)
<1>1. /\ q \in Requests /\ Planned(q) /\ q.tried \in Seq(Results)
      /\ c.on \in Machine /\ c.op \in Op
  BY AtWork
<1> SUFFICES ASSUME AllDid(q.tried), NEW i \in DOMAIN q.tried
             PROVE  KeptIn(q.tried[i], now) \/ (q.tried[i].on = c.on /\ q.tried[i].op = c.op)
  BY DEF Begun
<1>2. PICK u : u = q.tried[i]
  OBVIOUS
<1>3. u.on \in Machine /\ u.op \in Op
  <2>1. u \in Results
    BY <1>1, <1>2
  <2> QED
    BY <2>1 DEF Results
<1>4. KeptIn(u, hosts) \/ (u.on = c.on /\ u.op = c.op)
  BY <1>2 DEF Begun
<1>5. PICK j : j = Len(q.tried) + 1
  OBVIOUS
<1>6. /\ j \in DOMAIN q.calls /\ c = q.calls[j] /\ i \in DOMAIN q.calls /\ u.op = q.calls[i].op
      /\ i \in 1 .. j - 1
  <2>1. /\ j \in DOMAIN q.calls /\ c = q.calls[j] /\ i \in DOMAIN q.calls /\ u.op = q.calls[i].op
        /\ i \in 1 .. Len(q.tried) /\ Len(q.tried) \in Nat
    BY <1>1, <1>2, <1>5, Places
  <2>2. Len(q.tried) = j - 1
    BY <1>5, <2>1
  <2> QED
    BY <2>1, <2>2
<1>7. /\ now[c.on] = After(Head(q.run), hosts[c.on])
      /\ \A m \in Machine \ {c.on} : now[m] = hosts[m]
  BY <1>1
<1> HIDE DEF c
<1>8. CASE u.on # c.on
  BY <1>2, <1>3, <1>4, <1>7, <1>8 DEF KeptIn
<1>9. CASE u.on = c.on /\ u.op # c.op
  <2>1. q.style = "chain"
    BY <1>1, <1>6, <1>9 DEF Planned
  <2>2. u.op = Chain[i] /\ c.op = Chain[j] /\ j \in DOMAIN Chain
    <3>1. /\ Len(q.calls) <= Len(Chain)
          /\ \A k \in DOMAIN q.calls : q.calls[k].op = Chain[k]
      BY <1>1, <2>1 DEF Planned
    <3>2. DOMAIN q.calls = 1 .. Len(q.calls)
      BY <1>1 DEF Requests
    <3>3. DOMAIN Chain = 1 .. 4 /\ Len(Chain) = 4
      BY DEF Chain
    <3>4. Len(q.calls) \in Nat
      BY <1>1 DEF Requests
    <3>5. DOMAIN q.calls \subseteq DOMAIN Chain
      BY <3>1, <3>2, <3>3, <3>4
    <3> QED
      BY <1>6, <3>1, <3>5
  <2>3. \E k \in DOMAIN Commands[c.op] : Head(q.run) = Commands[c.op][k]
    <3>1. Len(q.run) \in 1 .. Len(Commands[c.op]) /\ Head(q.run) = NextOf(c.op, Len(q.run))
      BY RunsOn DEF c
    <3>2. PICK n : n = Len(q.run)
      OBVIOUS
    <3>3. PICK k : k = Len(Commands[c.op]) - n + 1
      OBVIOUS
    <3>4. Commands[c.op] \in Seq(CommandSet)
      BY <1>1, CommandsType DEF c
    <3>5. DOMAIN Commands[c.op] = 1 .. Len(Commands[c.op]) /\ Len(Commands[c.op]) \in Nat
      BY <3>4
    <3>6. k \in DOMAIN Commands[c.op]
      <4>1. \A all \in Nat : n \in 1 .. all => all - n + 1 \in 1 .. all
        OBVIOUS
      <4>2. PICK all : all = Len(Commands[c.op])
        OBVIOUS
      <4>3. n \in 1 .. all /\ all \in Nat /\ k = all - n + 1
        BY <3>1, <3>2, <3>3, <3>5, <4>2
      <4>4. k \in 1 .. all
        BY <4>1, <4>3
      <4> QED
        BY <3>5, <4>2, <4>4
    <3>7. Head(q.run) = Commands[c.op][k]
      BY <3>1, <3>2, <3>3 DEF NextOf
    <3> QED
      BY <3>6, <3>7
  <2>4. PICK k \in DOMAIN Commands[c.op] : Head(q.run) = Commands[c.op][k]
    BY <2>3
  <2>5. Unnoticed(u.op) \/ KeptOn(hosts[c.on], u.op)
    BY <1>4, <1>9 DEF KeptIn
  <2>6. ASSUME KeptOn(hosts[c.on], u.op) PROVE KeptOn(now[c.on], u.op)
    <3>1. PICK facts : facts = hosts[c.on]
      OBVIOUS
    <3>2. KeptOn(facts, Chain[i]) /\ k \in DOMAIN Commands[Chain[j]]
      BY <2>2, <2>4, <2>6, <3>1
    <3>3. KeptOn(After(Commands[Chain[j]][k], facts), Chain[i])
      BY <1>6, <2>2, <3>2, ChainStays
    <3> QED
      BY <1>7, <2>2, <2>4, <3>1, <3>3
  <2> QED
    BY <1>2, <1>9, <2>5, <2>6 DEF KeptIn
<1> QED
  BY <1>2, <1>8, <1>9

\* The members of a list with one more.
LEMMA AppendHas ==
    ASSUME NEW S, NEW tried \in Seq(S), NEW t \in S
    PROVE  /\ \A i \in DOMAIN Append(tried, t) :
                 (i \in DOMAIN tried /\ Append(tried, t)[i] = tried[i]) \/ Append(tried, t)[i] = t
           /\ \A i \in DOMAIN tried :
                 i \in DOMAIN Append(tried, t) /\ Append(tried, t)[i] = tried[i]
           /\ \E i \in DOMAIN Append(tried, t) : Append(tried, t)[i] = t
OBVIOUS

\* With the call itself done all are.
LEMMA ReturnHeld ==
    ASSUME NEW q, Sound(q), q.pc = "work", NEW hosts, Begun(q, hosts), NEW t \in Results,
           t.on = Head(q.todo).on, t.op = Head(q.todo).op,
           t.did \/ Unnoticed(t.op) => KeptIn(t, hosts)
    PROVE  AllKept(Append(q.tried, t), hosts)
<1> DEFINE more == Append(q.tried, t)
<1>1. q.tried \in Seq(Results)
  BY AtWork
<1>2. /\ \A i \in DOMAIN more : (i \in DOMAIN q.tried /\ more[i] = q.tried[i]) \/ more[i] = t
      /\ \A i \in DOMAIN q.tried : i \in DOMAIN more /\ more[i] = q.tried[i]
      /\ \E i \in DOMAIN more : more[i] = t
  BY <1>1, AppendHas
<1> HIDE DEF more
<1>3. AllDid(more) => AllDid(q.tried) /\ (t.did \/ Unnoticed(t.op))
  BY <1>2 DEF AllDid
<1>4. AllDid(more) =>
         \A i \in DOMAIN q.tried :
            KeptIn(q.tried[i], hosts) \/ (q.tried[i].on = t.on /\ q.tried[i].op = t.op)
  BY <1>3 DEF Begun
<1>5. AllDid(more) => KeptIn(t, hosts)
  BY <1>3
<1>6. \A u : u.on = t.on /\ u.op = t.op /\ KeptIn(t, hosts) => KeptIn(u, hosts)
  BY DEF KeptIn
<1>7. AllKept(more, hosts)
  BY <1>2, <1>4, <1>5, <1>6 DEF AllKept
<1> QED
  BY <1>7 DEF more

\* What is due of operations whose failure is not noticed.
LEMMA NothingDue == \A op, n, facts : Unnoticed(op) => Due(op, n, facts)
BY DEF Unnoticed, FailureUnseen, DropsError, ServiceDrops, SysctlDrops, TimeDrops, IgnoresStatus, Due

\* What a command that works makes of the host it works on.
LEMMA CommandDoes ==
    ASSUME NEW q, Sound(q), q.pc = "work", NEW facts, Due(Head(q.todo).op, Len(q.run), facts),
           CanWork(Head(q.run), facts)
    PROVE  /\ Len(q.run) = 1 => Unnoticed(Head(q.todo).op)
                                \/ KeptOn(After(Head(q.run), facts), Head(q.todo).op)
           /\ Len(q.run) # 1 => Due(Head(q.todo).op, Len(q.run) - 1, After(Head(q.run), facts))
<1>1. /\ Len(q.run) \in 1 .. Len(Commands[Head(q.todo).op])
      /\ Head(q.run) = NextOf(Head(q.todo).op, Len(q.run)) /\ Head(q.todo).op \in Op
  BY RunsOn, AtWork
<1>2. PICK op, n, c : op = Head(q.todo).op /\ n = Len(q.run) /\ c = Head(q.run)
  OBVIOUS
<1>3. /\ n \in 1 .. Len(Commands[op]) /\ c = NextOf(op, n) /\ op \in Op
      /\ Due(op, n, facts) /\ CanWork(c, facts)
  BY <1>1, <1>2
<1>4. CASE Unnoticed(op)
  BY <1>2, <1>4, NothingDue
<1>5. CASE ~Unnoticed(op)
  <2>1. Keeps(op)
    BY <1>3, <1>5, AllKeep
  <2>2. /\ n = 1 => KeptOn(After(c, facts), op)
        /\ n # 1 => Due(op, n - 1, After(c, facts))
    BY <1>3, <2>1 DEF Keeps
  <2> QED
    BY <1>2, <2>2
<1> QED
  BY <1>4, <1>5

\* A call that is done changes the request that made it.
LEMMA ReturnSets ==
    ASSUME NEW r, NEW did, NEW facts, Return(r, did, facts)
    PROVE  \E p : Set(r, p) /\ ReturnsTo(request[r], did, facts, p)
<1>1. PICK pc \in {"sent", "hung"} : Set(r, [Returned(r, did, facts) EXCEPT !.pc = pc])
  BY DEF Return
<1>2. ReturnsTo(request[r], did, facts, [Returned(r, did, facts) EXCEPT !.pc = pc])
  BY DEF ReturnsTo, Returned, Call
<1> QED
  BY <1>1, <1>2

\* A command that works.
LEMMA CommandWorksStep ==
    ASSUME Handling, NEW r \in Request, CommandWorks(r)
    PROVE  Handling'
<1> DEFINE q == request[r]
           c == Head(q.todo)
           m == c.on
<1>1. /\ q.pc = "work" /\ CanWork(Head(q.run), host[m])
      /\ host' = [host EXCEPT ![m] = After(Head(q.run), @)]
      /\ UNCHANGED <<area, connected, breaks, broken, errors>>
  BY DEF CommandWorks, Call
<1>2. /\ Sound(q) /\ HeldWith(q, host) /\ Open(r) /\ DOMAIN host = Machine
      /\ connected \subseteq Machine /\ broken \subseteq Machine
      /\ breaks \in 0 .. MaxBreaks /\ errors \in 0 .. MaxErrors
  BY <1>1, Making DEF Open
<1>3. PICK p : /\ Set(r, p)
               /\ IF Len(q.run) = 1 THEN ReturnsTo(q, TRUE, host'[m], p)
                                    ELSE p = [q EXCEPT !.run = Tail(@)]
  <2>1. CASE Len(q.run) = 1
    <3>1. Return(r, TRUE, host'[m])
      BY <2>1 DEF CommandWorks, Call
    <3> QED
      BY <2>1, <3>1, ReturnSets
  <2>2. CASE Len(q.run) # 1
    BY <2>2 DEF CommandWorks, Call
  <2> QED
    BY <2>1, <2>2
<1>4. Set(r, p)
  BY <1>3
<1> HIDE DEF q
<1>5. m \in Machine /\ c.op \in Op
  BY <1>1, <1>2, AtWork
<1>6. DOMAIN host' = Machine /\ host'[m] = After(Head(q.run), host[m])
  BY <1>1, <1>2, <1>5
<1>7. ASSUME Regular(q), q.alone
      PROVE  Begun(q, host') /\ Due(c.op, Len(q.run), host[m])
  <2>1. Begun(q, host) /\ Due(c.op, Len(q.run), host[m])
    BY <1>1, <1>2, <1>7 DEF HeldWith
  <2>2. PICK now : now = [host EXCEPT ![m] = After(Head(q.run), @)]
    OBVIOUS
  <2>3. Begun(q, now)
    BY <1>1, <1>2, <1>7, <2>1, <2>2, OthersStay
  <2>4. host' = now
    BY <1>1, <2>2
  <2> QED
    BY <2>1, <2>3, <2>4
<1>8. Sound(p) /\ Later(q, p) /\ p.pc # "new" /\ HeldWith(p, host')
  <2>1. CASE Len(q.run) = 1
    <3>1. PICK facts : facts = host'[m]
      OBVIOUS
    <3>2. ReturnsTo(q, TRUE, facts, p)
      BY <1>3, <2>1, <3>1
    <3>3. /\ Sound(p) /\ Later(q, p) /\ p.pc \in {"sent", "hung"}
          /\ \E t \in Results : /\ p.tried = Append(q.tried, t)
                                /\ t.on = Head(q.todo).on /\ t.op = Head(q.todo).op
      <4>1. PICK did \in BOOLEAN : did = TRUE
        OBVIOUS
      <4>2. ReturnsTo(q, did, facts, p)
        BY <3>2, <4>1
      <4> QED
        BY <1>1, <1>2, <4>2, ReturnSound
    <3>4. PICK t \in Results : p.tried = Append(q.tried, t) /\ t.on = m /\ t.op = c.op
      BY <3>3
    <3>5. ASSUME Regular(q), q.alone PROVE AllKept(p.tried, host')
      <4>1. Unnoticed(c.op) \/ KeptOn(host'[m], c.op)
        BY <1>1, <1>2, <1>6, <1>7, <2>1, <3>5, CommandDoes
      <4>2. KeptIn(t, host')
        BY <3>4, <4>1 DEF KeptIn
      <4>3. PICK now : now = host'
        OBVIOUS
      <4>4. AllKept(Append(q.tried, t), now)
        BY <1>1, <1>2, <1>7, <3>4, <3>5, <4>2, <4>3, ReturnHeld
      <4> QED
        BY <3>4, <4>3, <4>4
    <3>6. Regular(p) /\ p.alone => Regular(q) /\ q.alone
      BY <3>3 DEF Later, Regular
    <3>7. HeldWith(p, host')
      BY <3>3, <3>5, <3>6 DEF HeldWith
    <3> QED
      BY <3>3, <3>7
  <2>2. CASE Len(q.run) # 1
    <3>1. p = [q EXCEPT !.run = Tail(@)]
      BY <1>3, <2>2
    <3>2. /\ Sound(p) /\ Later(q, p) /\ p.pc = "work" /\ p.tried = q.tried
          /\ p.todo = q.todo /\ Len(p.run) = Len(q.run) - 1
      BY <1>1, <1>2, <2>2, <3>1, RunsOn
    <3>3. ASSUME Regular(q), q.alone PROVE Begun(p, host') /\ Due(c.op, Len(p.run), host'[m])
      <4>1. Due(c.op, Len(q.run) - 1, host'[m])
        BY <1>1, <1>2, <1>6, <1>7, <2>2, <3>3, CommandDoes
      <4>2. Begun(q, host')
        BY <1>7, <3>3
      <4> QED
        BY <3>2, <4>1, <4>2 DEF Begun
    <3>4. Regular(p) /\ p.alone => Regular(q) /\ q.alone
      BY <3>2 DEF Later, Regular
    <3>5. HeldWith(p, host')
      BY <3>2, <3>3, <3>4 DEF HeldWith
    <3> QED
      BY <3>2, <3>5
  <2> QED
    BY <2>1, <2>2
<1>9. Later(request[r], p)
  BY <1>8 DEF q
<1>10. /\ area' = area /\ connected' \subseteq Machine /\ broken' \subseteq Machine
       /\ breaks' \in 0 .. MaxBreaks /\ errors' \in 0 .. MaxErrors
  BY <1>1, <1>2
<1> QED
  BY <1>2, <1>4, <1>6, <1>8, <1>9, <1>10, OneChanges

\* A command that does not.
LEMMA CommandFailsStep ==
    ASSUME Handling, NEW r \in Request, CommandFails(r)
    PROVE  Handling'
<1> DEFINE q == request[r]
           c == Head(q.todo)
           m == c.on
<1>1. /\ q.pc = "work"
      /\ \/ host' = host
         \/ host' = [host EXCEPT ![m] = After(Head(q.run), @)]
      /\ UNCHANGED <<area, connected, breaks, broken, errors>>
  BY DEF CommandFails, Call
<1>2. /\ Sound(q) /\ HeldWith(q, host) /\ Open(r) /\ DOMAIN host = Machine
      /\ connected \subseteq Machine /\ broken \subseteq Machine
      /\ breaks \in 0 .. MaxBreaks /\ errors \in 0 .. MaxErrors
  BY <1>1, Making DEF Open
<1>3. PICK facts : facts = host'[m]
  OBVIOUS
<1>4. PICK p : Set(r, p) /\ ReturnsTo(q, FALSE, facts, p)
  <2>1. Return(r, FALSE, facts)
    BY <1>3 DEF CommandFails, Call
  <2> QED
    BY <2>1, ReturnSets
<1>5. Set(r, p)
  BY <1>4
<1> HIDE DEF q
<1>6. DOMAIN host' = Machine
  BY <1>1, <1>2
<1>7. /\ Sound(p) /\ Later(q, p) /\ p.pc \in {"sent", "hung"}
      /\ \E t \in Results : /\ p.tried = Append(q.tried, t) /\ ~t.did
                            /\ t.on = Head(q.todo).on /\ t.op = Head(q.todo).op
  <2>1. PICK did \in BOOLEAN : did = FALSE
    OBVIOUS
  <2>2. ReturnsTo(q, did, facts, p)
    BY <1>4, <2>1
  <2>3. /\ Sound(p) /\ Later(q, p) /\ p.pc \in {"sent", "hung"}
        /\ \E t \in Results : /\ p.tried = Append(q.tried, t) /\ t.did = did
                              /\ t.on = Head(q.todo).on /\ t.op = Head(q.todo).op
    BY <1>1, <1>2, <2>2, ReturnSound
  <2> QED
    BY <2>1, <2>3
<1>8. PICK t \in Results : p.tried = Append(q.tried, t) /\ ~t.did /\ t.on = m /\ t.op = c.op
  BY <1>7
<1>9. ASSUME Regular(q), q.alone PROVE AllKept(p.tried, host')
  <2>1. PICK now : now = host'
    OBVIOUS
  <2>2. Begun(q, host)
    BY <1>1, <1>2, <1>9 DEF HeldWith
  <2>3. Begun(q, now)
    <3>1. CASE now = host
      BY <2>2, <3>1
    <3>2. CASE now = [host EXCEPT ![m] = After(Head(q.run), @)]
      BY <1>1, <1>2, <1>9, <2>2, <3>2, OthersStay
    <3> QED
      BY <1>1, <2>1, <3>1, <3>2
  <2>4. t.did \/ Unnoticed(t.op) => KeptIn(t, now)
    BY <1>8 DEF KeptIn
  <2>5. AllKept(Append(q.tried, t), now)
    BY <1>1, <1>2, <1>8, <2>3, <2>4, ReturnHeld
  <2> QED
    BY <1>8, <2>1, <2>5
<1>10. HeldWith(p, host')
  <2>1. Regular(p) /\ p.alone => Regular(q) /\ q.alone
    BY <1>7 DEF Later, Regular
  <2> QED
    BY <1>7, <1>9, <2>1 DEF HeldWith
<1>11. Later(request[r], p) /\ p.pc # "new"
  BY <1>7 DEF q
<1>12. /\ area' = area /\ connected' \subseteq Machine /\ broken' \subseteq Machine
       /\ breaks' \in 0 .. MaxBreaks /\ errors' \in 0 .. MaxErrors
  BY <1>1, <1>2
<1> QED
  BY <1>2, <1>5, <1>6, <1>7, <1>10, <1>11, <1>12, OneChanges

\* Who is alone, and whose connection is lost, does not matter for one request.
LEMMA SameSound ==
    ASSUME NEW q, Sound(q), NEW p \in Requests, p.pc = q.pc, p.style = q.style, p.op = q.op,
           p.form = q.form, p.calls = q.calls, p.todo = q.todo, p.run = q.run, p.tried = q.tried,
           p.rows = q.rows, p.status = q.status, p.answers = q.answers
    PROVE  Sound(p)
<1>1. /\ Planned(p) <=> Planned(q)
      /\ \A tried : Tallied(p, tried) <=> Tallied(q, tried)
  BY DEF Planned, Tallied, Regular
<1>2. ASSUME NEW tried, Going(q, tried) PROVE Going(p, tried)
  <2>1. Tallied(p, tried)
    BY <1>1, <1>2 DEF Going
  <2> QED
    BY <1>2, <2>1 DEF Going, Regular
<1>3. Running(q) => Running(p)
  BY DEF Running
<1>4. \A t : Reported(q, t) => Reported(p, t)
  BY DEF Reported
<1>5. Finished(q) => Finished(p)
  <2>1. LogAgrees(q) => LogAgrees(p)
    BY DEF LogAgrees
  <2>2. Truthful(q) => Truthful(p)
    BY DEF Truthful
  <2> QED
    BY <2>1, <2>2 DEF Finished, Regular
<1>6. Len(q.todo) <= Len(q.calls)
  BY DEF Sound
<1>7. q.pc # "new" => Planned(q) /\ Tallied(q, q.tried) /\ Len(q.rows) <= Len(q.tried)
  BY DEF Sound
<1>8. /\ q.pc \in {"next", "work"} => Going(q, q.tried)
      /\ q.pc \in {"work", "sent", "report"} => q.todo # <<>> /\ q.style # "package"
      /\ q.pc = "work" => Running(q)
      /\ q.pc \in {"sent", "report"} => q.tried # <<>> /\ Going(q, Front(q.tried)) /\ Reported(q, Final(q.tried))
      /\ q.pc = "hung" => q.answers = <<>> /\ q.status = NoStatus
      /\ q.pc = "end" => Finished(q)
  BY DEF Sound
<1>9. /\ p.pc \in {"next", "work"} => Going(p, p.tried)
      /\ p.pc = "work" => Running(p)
      /\ p.pc \in {"sent", "report"} => p.tried # <<>> /\ Going(p, Front(p.tried)) /\ Reported(p, Final(p.tried))
      /\ p.pc = "end" => Finished(p)
  BY <1>2, <1>3, <1>4, <1>5, <1>8
<1>10. /\ Len(p.todo) <= Len(p.calls)
       /\ p.pc # "new" => Planned(p) /\ Tallied(p, p.tried) /\ Len(p.rows) <= Len(p.tried)
  BY <1>1, <1>6, <1>7
<1> QED
  BY <1>8, <1>9, <1>10 DEF Sound

\* What the break of a connection does to a request with a call on it.
Breaks(q, p) ==
    /\ q.pc \in {"work", "sent"}
    /\ \/ p = [q EXCEPT !.pc = "hung", !.run = <<>>]
       \/ q.pc = "sent" /\ p = [q EXCEPT !.pc = "hung"]
       \/ q.pc = "work" /\ p = [q EXCEPT !.lost = TRUE]

\* It hangs, or goes on without a connection.
LEMMA BreakSound ==
    ASSUME NEW q, Sound(q), NEW p, Breaks(q, p), NEW hosts, HeldWith(q, hosts)
    PROVE  /\ Sound(p) /\ Later(q, p) /\ HeldWith(p, hosts)
           /\ p.pc \notin {"new", "end"} /\ q.pc \notin {"new", "end"}
<1>1. q \in Requests /\ q.pc \in {"work", "sent"}
  BY DEF Sound, Breaks
<1>2. CASE \/ p = [q EXCEPT !.pc = "hung", !.run = <<>>]
          \/ (q.pc = "sent" /\ p = [q EXCEPT !.pc = "hung"])
  <2>1. /\ p \in Requests /\ Later(q, p) /\ p.pc = "hung" /\ p.todo = q.todo /\ p.tried = q.tried
        /\ p.rows = q.rows /\ p.answers = q.answers /\ p.status = q.status
        /\ p.style = q.style /\ p.op = q.op /\ p.calls = q.calls /\ p.form = q.form
    <3>1. <<>> \in Seq(CommandSet) /\ "hung" \in PC
      BY DEF PC
    <3> QED
      BY <1>1, <1>2, <3>1 DEF Requests, Later
  <2>2. /\ Planned(q) /\ Tallied(q, q.tried) /\ Len(q.rows) <= Len(q.tried)
        /\ Len(q.todo) <= Len(q.calls)
    BY <1>1 DEF Sound
  <2>3. Planned(p) /\ Tallied(p, p.tried)
    BY <2>1, <2>2, SamePlan
  <2>4. q.answers = <<>> /\ q.status = NoStatus
    <3>1. Going(q, q.tried) \/ Going(q, Front(q.tried))
      BY <1>1 DEF Sound
    <3> QED
      BY <3>1 DEF Going
  <2>5. Sound(p)
    BY <2>1, <2>2, <2>3, <2>4 DEF Sound
  <2>6. HeldWith(p, hosts)
    BY <2>1 DEF HeldWith
  <2> QED
    BY <1>1, <2>1, <2>5, <2>6
<1>3. CASE q.pc = "work" /\ p = [q EXCEPT !.lost = TRUE]
  <2>1. /\ p \in Requests /\ Later(q, p) /\ p.pc = q.pc /\ p.todo = q.todo /\ p.tried = q.tried
        /\ p.rows = q.rows /\ p.answers = q.answers /\ p.status = q.status /\ p.run = q.run
        /\ p.style = q.style /\ p.op = q.op /\ p.calls = q.calls /\ p.alone = q.alone
        /\ p.form = q.form
    BY <1>1, <1>3 DEF Requests, Later
  <2>2. Sound(p)
    BY <2>1, SameSound
  <2>3. HeldWith(p, hosts)
    BY <2>1 DEF HeldWith, Begun, Regular
  <2> QED
    BY <1>1, <2>1, <2>2, <2>3
<1> QED
  BY <1>2, <1>3 DEF Breaks

\* Requests whose connection breaks.
LEMMA ManyBreak ==
    ASSUME Handling, Bounded', host' = host, area' = area,
           \A s \in Request : request'[s] = request[s] \/ Breaks(request[s], request'[s])
    PROVE  Handling'
<1>1. ASSUME NEW s \in Request
      PROVE  /\ Sound(request'[s]) /\ Handled(request[s])' /\ HeldWith(request'[s], host')
             /\ request'[s].alone = request[s].alone
             /\ request'[s].pc = "new" <=> request[s].pc = "new"
             /\ request'[s].pc = "end" <=> request[s].pc = "end"
  <2>1. Sound(request[s]) /\ Handled(request[s]) /\ HeldWith(request[s], host)
    BY DEF Handling, RecordsInv, Held
  <2>2. PICK p : p = request'[s]
    OBVIOUS
  <2>3. CASE p = request[s]
    <3>1. Handled(request[s])'
      BY <2>1, <2>2, <2>3 DEF Handled
    <3> QED
      BY <2>1, <2>2, <2>3, <3>1
  <2>4. CASE p # request[s]
    <3>1. Breaks(request[s], p)
      BY <2>2, <2>4
    <3>2. /\ Sound(p) /\ Later(request[s], p) /\ HeldWith(p, host)
          /\ p.pc \notin {"new", "end"} /\ request[s].pc \notin {"new", "end"}
      BY <2>1, <3>1, BreakSound
    <3>3. Handled(request[s])'
      <4>1. <<p.style, p.op>> \in Areas[area].handlers
        BY <2>1, <3>2 DEF Handled, Later
      <4>2. Handled(request[s])' <=> <<p.style, p.op>> \in Areas[area'].handlers
        BY <2>2, <3>2 DEF Handled
      <4> QED
        BY <4>1, <4>2
    <3> QED
      BY <2>2, <3>2, <3>3 DEF Later
  <2> QED
    BY <2>3, <2>4
<1>2. RecordsInv'
  BY <1>1 DEF RecordsInv
<1>3. Held'
  BY <1>1 DEF Held
<1>4. Alone'
  <2> SUFFICES ASSUME NEW s \in Request, NEW o \in Request, request'[s].alone,
                      request'[s].pc # "new", o # s, request'[o].pc \notin {"new", "end"}
               PROVE  FALSE
    BY DEF Alone, Open
  <2> QED
    BY <1>1 DEF Handling, Alone, Open
<1> QED
  BY <1>2, <1>3, <1>4 DEF Handling

\* An agent dies.
LEMMA DieBreaks ==
    ASSUME NEW m, Die(m), NEW s \in Request
    PROVE  request'[s] = request[s] \/ Breaks(request[s], request'[s])
BY DEF Die, Calling, Breaks

\* A host function panics.
LEMMA AgentPanicsStep ==
    ASSUME Handling, NEW r \in Request, AgentPanics(r)
    PROVE  Handling'
<1>1. PICK m : m = Head(request[r].todo).on
  OBVIOUS
<1>2. request[r].pc = "work" /\ Die(m) /\ UNCHANGED <<area, breaks, errors, host>>
  BY <1>1 DEF AgentPanics, Call
<1>3. m \in Machine
  BY <1>1, <1>2, Making, AtWork
<1>4. Bounded'
  <2>1. DOMAIN request' = Request /\ connected' = connected \ {m} /\ broken' = broken \cup {m}
    BY <1>2 DEF Die
  <2>2. Bounded
    BY DEF Handling, RecordsInv
  <2> QED
    BY <1>2, <1>3, <2>1, <2>2 DEF Bounded
<1>5. \A s \in Request : request'[s] = request[s] \/ Breaks(request[s], request'[s])
  BY <1>2, DieBreaks
<1> QED
  BY <1>2, <1>4, <1>5, ManyBreak

\* A connection breaks.
LEMMA BreakStep ==
    ASSUME Handling, NEW m \in Machine, Break(m)
    PROVE  Handling'
<1>1. /\ breaks < MaxBreaks /\ breaks' = breaks + 1 /\ UNCHANGED <<area, errors, host>>
      /\ connected' = connected \ {m} /\ broken' = broken \cup {m}
      /\ DOMAIN request' = Request
  BY DEF Break, Die
<1>2. Bounded'
  <2>1. Bounded
    BY DEF Handling, RecordsInv
  <2>2. breaks' \in 0 .. MaxBreaks
    BY <1>1, <2>1, OperationsAssumption DEF Bounded
  <2> QED
    BY <1>1, <2>1, <2>2 DEF Bounded
<1>3. ASSUME NEW s \in Request PROVE request'[s] = request[s] \/ Breaks(request[s], request'[s])
  <2>1. CASE Die(m)
    BY <2>1, DieBreaks
  <2>2. CASE request' = [o \in Request |->
                IF o \notin Calling(m) THEN request[o]
                ELSE IF request[o].pc = "work" THEN [request[o] EXCEPT !.lost = TRUE]
                ELSE [request[o] EXCEPT !.pc = "hung"]]
    BY <2>2 DEF Calling, Breaks
  <2> QED
    BY <2>1, <2>2 DEF Break
<1> QED
  BY <1>1, <1>2, <1>3, ManyBreak

\* The only member of a list.
LEMMA OnlyOne == ASSUME NEW S, NEW s \in Seq(S), Len(s) = 1 PROVE s[1] \in S
OBVIOUS

\* A handler of an area is called with a list.
Called(a, handler, list, form, calls) ==
    /\ a \in DOMAIN Areas /\ handler \in Areas[a].handlers /\ list \in Seq(Machine)
    /\ ManyMachines(handler[1]) \/ Len(list) = 1
    /\ form \in Forms(handler)
    /\ calls = CallsOf(handler[1], handler[2], list, form)

\* What it is to do then.
LEMMA CallsAre ==
    ASSUME NEW a, NEW handler, NEW list, NEW form, NEW calls, Called(a, handler, list, form, calls)
    PROVE  /\ calls \in Seq(Calls)
           /\ form \in {"good", "other"} /\ (form = "other" => handler[1] = "chain")
           /\ handler[1] \in {"logged", "single"} => Len(calls) = 1
           /\ handler[1] = "chain" =>
                 /\ Len(calls) <= Len(Chain)
                 /\ \A i \in DOMAIN calls : calls[i].op = Chain[i] /\ calls[i].on = calls[1].on
           /\ handler[1] # "chain" => \A i \in DOMAIN calls : calls[i].op = handler[2]
<1>1. handler[1] \in Style /\ handler[2] \in Op
  BY HandlersAre DEF Called
<1>0. /\ list \in Seq(Machine) /\ calls = CallsOf(handler[1], handler[2], list, form)
      /\ ManyMachines(handler[1]) \/ Len(list) = 1
  BY DEF Called
<1>4. form \in {"good", "other"} /\ (form = "other" => handler[1] = "chain")
  <2>1. form \in Forms(handler)
    BY DEF Called
  <2>2. handler \in NetworkConfig => handler[1] = "chain"
    BY DEF NetworkConfig
  <2> QED
    BY <2>1, <2>2 DEF Forms
<1>2. CASE handler[1] = "chain"
  <2>1. Len(list) = 1 /\ list[1] \in Machine
    <3>1. Len(list) = 1
      BY <1>0, <1>2 DEF ManyMachines
    <3> QED
      BY <1>0, <3>1, OnlyOne
  <2>2. /\ Len(Chain) = 4 /\ \A i \in 1 .. 4 : Chain[i] \in Op
    BY DEF Chain, Op, Commands
  <2>7. PICK n \in {2, 4} : n = IF form = "other" THEN 2 ELSE 4
    OBVIOUS
  <2>3. calls = [i \in 1 .. n |-> [on |-> list[1], op |-> Chain[i]]]
    BY <1>0, <1>2, <2>2, <2>7 DEF CallsOf
  <2>4. \A i \in 1 .. n : [on |-> list[1], op |-> Chain[i]] \in Calls
    BY <2>1, <2>2, <2>7 DEF Calls
  <2>5. calls \in Seq(Calls) /\ Len(calls) = n /\ DOMAIN calls = 1 .. n
    BY <2>3, <2>4, <2>7
  <2>6. \A i \in 1 .. n : calls[i].op = Chain[i] /\ calls[i].on = list[1]
    BY <2>3
  <2>8. 1 \in DOMAIN calls /\ calls[1].on = list[1]
    BY <2>5, <2>6, <2>7
  <2> QED
    BY <1>2, <1>4, <2>2, <2>5, <2>6, <2>7, <2>8
<1>3. CASE handler[1] # "chain"
  <2>1. calls = [i \in 1 .. Len(list) |-> [on |-> list[i], op |-> handler[2]]]
    BY <1>0, <1>3 DEF CallsOf
  <2>2. \A i \in 1 .. Len(list) : [on |-> list[i], op |-> handler[2]] \in Calls
    BY <1>0, <1>1 DEF Calls
  <2>3. calls \in Seq(Calls) /\ Len(calls) = Len(list) /\ DOMAIN calls = 1 .. Len(list)
    BY <1>0, <2>1, <2>2
  <2>4. \A i \in DOMAIN calls : calls[i].op = handler[2]
    BY <2>1, <2>3
  <2> QED
    BY <1>0, <1>3, <1>4, <2>3, <2>4 DEF ManyMachines
<1> QED
  BY <1>2, <1>3

\* A request nobody has made.
LEMMA NewIsOne == NewRequest \in Requests
<1>1. NewRequest = [pc |-> "new", style |-> "single", op |-> "RunCommand", form |-> "good", calls |-> <<>>,
             todo |-> <<>>, run |-> <<>>, lost |-> FALSE, tried |-> <<>>, saved |-> FALSE,
             rows |-> <<>>, status |-> NoStatus, answers |-> <<>>, alone |-> TRUE]
  BY DEF NewRequest
<1>2. "new" \in PC /\ "single" \in Style /\ "RunCommand" \in Op /\ "good" \in FormsOf
  BY DEF PC, Style, Op, Commands, FormsOf
<1>3. /\ <<>> \in Seq(Calls) /\ <<>> \in Seq(CommandSet) /\ <<>> \in Seq(Results)
      /\ <<>> \in Seq(BOOLEAN) /\ <<>> \in Seq(Answers)
      /\ NoStatus \in {NoStatus} \cup (Nat \X Nat) /\ TRUE \in BOOLEAN /\ FALSE \in BOOLEAN
  OBVIOUS
<1> QED
  BY <1>1, <1>2, <1>3 DEF Requests

\* A request that begins.
Started(style, op, form, calls, saved, alone) ==
    [NewRequest EXCEPT !.pc = "next", !.style = style, !.op = op, !.form = form, !.calls = calls,
                       !.todo = calls, !.saved = saved, !.alone = alone]

\* It is a request.
LEMMA StartedIsOne ==
    \A style \in Style, op \in Op, form \in FormsOf, calls \in Seq(Calls), saved \in BOOLEAN,
       alone \in BOOLEAN : Started(style, op, form, calls, saved, alone) \in Requests
<1> SUFFICES ASSUME NEW style \in Style, NEW op \in Op, NEW form \in FormsOf,
                    NEW calls \in Seq(Calls), NEW saved \in BOOLEAN, NEW alone \in BOOLEAN
             PROVE  Started(style, op, form, calls, saved, alone) \in Requests
  OBVIOUS
<1>1. "next" \in PC
  BY DEF PC
<1>2. PICK z : z = [NewRequest EXCEPT !.pc = "next", !.style = style, !.op = op, !.form = form]
  OBVIOUS
<1>3. PICK w : w = [z EXCEPT !.calls = calls, !.todo = calls]
  OBVIOUS
<1>4. z \in Requests
  BY <1>1, <1>2, NewIsOne DEF Requests
<1>5. w \in Requests
  BY <1>3, <1>4 DEF Requests
<1>6. [w EXCEPT !.saved = saved, !.alone = alone] \in Requests
  BY <1>5 DEF Requests
<1> QED
  BY <1>2, <1>3, <1>6 DEF Started

\* A request as it arrives.
LEMMA NewSound ==
    ASSUME NEW a, NEW handler, NEW list, NEW form, NEW calls, Called(a, handler, list, form, calls),
           NEW saved \in BOOLEAN, NEW alone \in BOOLEAN,
           NEW p, p = Started(handler[1], handler[2], form, calls, saved, alone), NEW hosts
    PROVE  /\ Sound(p) /\ HeldWith(p, hosts) /\ p.pc = "next" /\ p.alone = alone
           /\ <<p.style, p.op>> \in Areas[a].handlers
<1>1. /\ handler[1] \in Style /\ handler[2] \in Op /\ handler = <<handler[1], handler[2]>>
      /\ handler[1] = "command" => handler[2] \in IgnoresStatus
  BY HandlersAre DEF Called
<1>2. /\ calls \in Seq(Calls)
      /\ form \in {"good", "other"} /\ (form = "other" => handler[1] = "chain")
      /\ handler[1] \in {"logged", "single"} => Len(calls) = 1
      /\ handler[1] = "chain" =>
            /\ Len(calls) <= Len(Chain)
            /\ \A i \in DOMAIN calls : calls[i].op = Chain[i] /\ calls[i].on = calls[1].on
      /\ handler[1] # "chain" => \A i \in DOMAIN calls : calls[i].op = handler[2]
  BY CallsAre
<1>3. PICK style, op : style = handler[1] /\ op = handler[2]
  OBVIOUS
<1>4. /\ p.pc = "next" /\ p.style = style /\ p.op = op /\ p.calls = calls /\ p.todo = calls
      /\ p.form = form
      /\ p.run = <<>> /\ p.lost = FALSE /\ p.tried = <<>> /\ p.saved = saved /\ p.rows = <<>>
      /\ p.status = NoStatus /\ p.answers = <<>> /\ p.alone = alone
  BY <1>3 DEF Started, NewRequest
<1>5. p \in Requests
  <2>1. style \in Style /\ op \in Op /\ calls \in Seq(Calls) /\ form \in FormsOf
    BY <1>1, <1>2, <1>3 DEF FormsOf
  <2>2. Started(style, op, form, calls, saved, alone) \in Requests
    BY <2>1, StartedIsOne
  <2> QED
    BY <1>3, <2>2
<1>6. Planned(p)
  BY <1>1, <1>2, <1>3, <1>4 DEF Planned
<1>7. PICK n : n = Len(calls)
  OBVIOUS
<1>8. n \in Nat /\ Len(<<>>) = 0 /\ DOMAIN <<>> = {}
  BY <1>2, <1>7
<1>9. Tallied(p, <<>>)
  BY <1>4, <1>7, <1>8 DEF Tallied
<1>10. Going(p, <<>>)
  <2>1. Len(<<>>) + Len(p.todo) = Len(p.calls)
    <3>1. 0 + n = n
      BY <1>8
    <3> QED
      BY <1>4, <1>7, <1>8, <3>1
  <2>2. \A i \in DOMAIN p.todo : p.todo[i] = p.calls[Len(<<>>) + i]
    <3>1. \A i \in DOMAIN calls : 0 + i = i
      BY <1>2
    <3> QED
      BY <1>4, <1>8, <3>1
  <2>3. ~Regular(p) => \A i \in DOMAIN p.todo : p.todo[i].op = p.op
    BY <1>2, <1>3, <1>4 DEF Regular
  <2>4. Dones(p.rows) = Oks(<<>>) /\ Undones(p.rows) + Oks(<<>>) <= Len(<<>>)
        /\ Len(p.rows) <= Len(<<>>)
    BY <1>4, <1>8, CountNothing
  <2>5. Len(<<>>) + Len(p.todo) <= Len(p.calls)
    BY <1>4, <1>7, <1>8, <2>1
  <2>6. \A i \in DOMAIN <<>> : <<>>[i].ok
    BY <1>8
  <2>7. p.form # "refused"
    BY <1>2, <1>4
  <2> QED
    BY <1>4, <1>9, <2>1, <2>2, <2>3, <2>4, <2>5, <2>6, <2>7 DEF Going
<1>11. Sound(p)
  <2>1. Len(p.todo) <= Len(p.calls) /\ Len(p.rows) <= Len(p.tried)
    BY <1>4, <1>7, <1>8
  <2> QED
    BY <1>4, <1>5, <1>6, <1>9, <1>10, <2>1 DEF Sound
<1>12. HeldWith(p, hosts)
  <2>1. \A i \in DOMAIN p.tried : FALSE
    BY <1>4, <1>8
  <2> QED
    BY <1>4, <2>1 DEF HeldWith, AllKept
<1>13. <<p.style, p.op>> \in Areas[a].handlers
  BY <1>1, <1>3, <1>4 DEF Called
<1> QED
  BY <1>4, <1>11, <1>12, <1>13

\* The others are not alone any more.
LEMMA NotAlone ==
    ASSUME NEW q, Sound(q), NEW p, p = [q EXCEPT !.alone = FALSE], NEW hosts
    PROVE  /\ Sound(p) /\ HeldWith(p, hosts) /\ p.pc = q.pc /\ ~p.alone
           /\ p.style = q.style /\ p.op = q.op
           /\ q = [NewRequest EXCEPT !.alone = q.alone] => p = [NewRequest EXCEPT !.alone = p.alone]
<1>1. q \in Requests
  BY DEF Sound
<1>2. /\ p \in Requests /\ p.pc = q.pc /\ p.style = q.style /\ p.op = q.op /\ p.calls = q.calls
      /\ p.todo = q.todo /\ p.run = q.run /\ p.tried = q.tried /\ p.rows = q.rows
      /\ p.status = q.status /\ p.answers = q.answers /\ p.alone = FALSE /\ p.form = q.form
  BY <1>1 DEF Requests
<1>3. Sound(p)
  BY <1>2, SameSound
<1>4. HeldWith(p, hosts)
  BY <1>2 DEF HeldWith
<1>5. q = [NewRequest EXCEPT !.alone = q.alone] => p = [NewRequest EXCEPT !.alone = p.alone]
  BY <1>2 DEF NewRequest
<1> QED
  BY <1>2, <1>3, <1>4, <1>5

\* A request arrives.
LEMMA ArriveStep ==
    ASSUME Handling, NEW r \in Request, NEW handler \in Areas[area].handlers,
           NEW list \in Lists, NEW form \in Forms(handler), Arrive(r, handler, list, form)
    PROVE  Handling'
<1>1. PICK calls : calls = CallsOf(handler[1], handler[2], list, form)
  OBVIOUS
<1>2. PICK alone \in BOOLEAN : alone <=> \A p \in Request : ~Open(p)
  OBVIOUS
<1>3. PICK saved \in BOOLEAN :
         /\ Fail(IF Logs(handler[1]) /\ ~saved THEN 1 ELSE 0)
         /\ request' = [q \in Request |->
              IF q = r THEN [NewRequest EXCEPT
                  !.pc = "next", !.style = handler[1], !.op = handler[2], !.form = form,
                  !.calls = calls, !.todo = calls, !.saved = saved, !.alone = alone]
              ELSE [request[q] EXCEPT !.alone = FALSE]]
  <2>1. (\A p \in Request : ~Open(p)) = alone
    BY <1>2
  <2> QED
    BY <1>1, <2>1 DEF Arrive
<1>4. /\ request[r].pc = "new" /\ UNCHANGED <<area, connected, breaks, broken, host>>
      /\ ManyMachines(handler[1]) \/ Len(list) = 1
  BY DEF Arrive, IsNext
<1>5. /\ Bounded /\ area \in DOMAIN Areas /\ errors \in Nat
      /\ \A s \in Request : Sound(request[s]) /\ Handled(request[s])
  BY OperationsAssumption DEF Handling, RecordsInv, Bounded
<1>6. list \in Seq(Machine)
  BY OperationsAssumption
<1>7. Bounded'
  <2>1. Fail(0) \/ Fail(1)
    BY <1>3
  <2>2. errors' \in 0 .. MaxErrors
    BY <1>5, <2>1, FailBounds
  <2> QED
    BY <1>3, <1>4, <1>5, <2>2 DEF Bounded
<1>8. PICK p : p = Started(handler[1], handler[2], form, calls, saved, alone)
  OBVIOUS
<1>9. /\ Sound(p) /\ HeldWith(p, host) /\ p.pc = "next" /\ p.alone = alone
      /\ <<p.style, p.op>> \in Areas[area].handlers
  <2>1. Called(area, handler, list, form, calls)
    BY <1>1, <1>4, <1>5, <1>6 DEF Called
  <2> QED
    BY <1>8, <2>1, NewSound
<1>10. request'[r] = p
  BY <1>3, <1>8 DEF Started
<1>11. ASSUME NEW s \in Request, s # r
       PROVE  /\ Sound(request'[s]) /\ HeldWith(request'[s], host) /\ request'[s].pc = request[s].pc
              /\ ~request'[s].alone /\ Handled(request[s])'
  <2>1. PICK o : o = [request[s] EXCEPT !.alone = FALSE]
    OBVIOUS
  <2>2. request'[s] = o
    BY <1>3, <1>11, <2>1
  <2>3. /\ Sound(o) /\ HeldWith(o, host) /\ o.pc = request[s].pc /\ ~o.alone
        /\ o.style = request[s].style /\ o.op = request[s].op
        /\ request[s] = [NewRequest EXCEPT !.alone = request[s].alone]
              => o = [NewRequest EXCEPT !.alone = o.alone]
    BY <1>5, <2>1, NotAlone
  <2>4. Handled(request[s])'
    <3>1. IF o.pc = "new" THEN o = [NewRequest EXCEPT !.alone = o.alone]
          ELSE <<o.style, o.op>> \in Areas[area].handlers
      BY <1>5, <2>3 DEF Handled
    <3> QED
      BY <1>4, <2>2, <3>1 DEF Handled
  <2> QED
    BY <2>2, <2>3, <2>4
<1>12. Handled(request[r])'
  BY <1>4, <1>9, <1>10 DEF Handled
<1>13. RecordsInv'
  BY <1>7, <1>9, <1>10, <1>11, <1>12 DEF RecordsInv
<1>14. Held'
  BY <1>4, <1>9, <1>10, <1>11 DEF Held
<1>15. Alone'
  <2> SUFFICES ASSUME NEW s \in Request, NEW o \in Request, request'[s].alone,
                      request'[s].pc # "new", o # s, request'[o].pc \notin {"new", "end"}
               PROVE  FALSE
    BY DEF Alone, Open
  <2>1. s = r
    BY <1>11
  <2>2. Open(o)
    BY <1>11, <2>1 DEF Open
  <2> QED
    BY <1>2, <1>9, <1>10, <2>1, <2>2
<1> QED
  BY <1>13, <1>14, <1>15 DEF Handling

\* A request that is refused has done nothing, and says so.
LEMMA RefuseStep ==
    ASSUME Handling, NEW r \in Request, NEW handler \in Areas[area].handlers,
           NEW answer \in Refusals(handler), Refuse(r, handler, answer)
    PROVE  Handling'
<1>1. /\ area \in DOMAIN Areas /\ DOMAIN request = Request
      /\ \A s \in Request : Sound(request[s]) /\ Handled(request[s])
  BY DEF Handling, RecordsInv, Bounded
<1>2. /\ handler = <<handler[1], handler[2]>> /\ handler[1] \in Style /\ handler[2] \in Op
      /\ handler[1] = "command" => handler[2] \in IgnoresStatus
  BY <1>1, HandlersAre
<1>3. answer \in {"fail", "panic"} /\ handler[1] \notin {"logged", "single"}
  <2>1. handler \in ChecksForm => handler[1] \in {"batch", "chain", "package", "command"}
    BY DEF ChecksForm, FileBroadcast, NetworkConfig, PluginPackages, PluginCommands
  <2>2. handler \in ChecksForm
    BY DEF Refusals, ChecksForm
  <2>3. answer \in {"fail", "panic"}
    BY DEF Refusals
  <2> QED
    BY <2>1, <2>2, <2>3
<1>4. PICK style, op : style = handler[1] /\ op = handler[2]
  OBVIOUS
<1>5. PICK p : p = [NewRequest EXCEPT !.pc = "end", !.style = style, !.op = op, !.form = "refused",
                                      !.answers = <<answer>>, !.alone = FALSE]
  OBVIOUS
<1>6. /\ request[r].pc = "new" /\ Set(r, p)
      /\ UNCHANGED <<area, connected, breaks, broken, errors, host>>
  BY <1>4, <1>5 DEF Refuse, IsNext
<1>7. /\ p.pc = "end" /\ p.style = style /\ p.op = op /\ p.form = "refused" /\ p.calls = <<>>
      /\ p.todo = <<>> /\ p.tried = <<>> /\ p.rows = <<>> /\ p.status = NoStatus
      /\ p.answers = <<answer>> /\ p.alone = FALSE
  BY <1>5 DEF NewRequest
<1>8. p \in Requests
  <2>1. "end" \in PC /\ style \in Style /\ op \in Op /\ "refused" \in FormsOf
    BY <1>2, <1>4 DEF PC, FormsOf
  <2>2. <<answer>> \in Seq(Answers)
    BY <1>3 DEF Answers
  <2>3. PICK z : z = [NewRequest EXCEPT !.pc = "end", !.style = style, !.op = op]
    OBVIOUS
  <2>4. z \in Requests
    BY <2>1, <2>3, NewIsOne DEF Requests
  <2>5. [z EXCEPT !.form = "refused", !.answers = <<answer>>, !.alone = FALSE] \in Requests
    BY <2>1, <2>2, <2>4 DEF Requests
  <2> QED
    BY <1>5, <2>3, <2>5
<1>9. Len(<<>>) = 0 /\ DOMAIN <<>> = {} /\ Len(Chain) = 4
  BY DEF Chain
<1>10. Planned(p)
  BY <1>2, <1>3, <1>4, <1>7, <1>9 DEF Planned
<1>11. Tallied(p, p.tried)
  BY <1>7, <1>9 DEF Tallied
<1>12. Finished(p)
  <2>1. Len(p.answers) = 1 /\ p.answers # <<"ok">>
    BY <1>3, <1>7
  <2>2. LogAgrees(p)
    BY <1>7, NoStatusAgrees
  <2>3. Truthful(p)
    BY <1>7, <2>1 DEF Truthful
  <2> QED
    BY <2>1, <2>2, <2>3 DEF Finished
<1>13. Sound(p)
  BY <1>7, <1>8, <1>9, <1>10, <1>11, <1>12 DEF Sound
<1>14. /\ DOMAIN request' = Request /\ request'[r] = p
       /\ \A s \in Request \ {r} : request'[s] = request[s]
  BY <1>1, <1>6 DEF Set
<1>15. ASSUME NEW s \in Request
       PROVE  /\ Sound(request'[s]) /\ Handled(request[s])' /\ HeldWith(request'[s], host')
              /\ request'[s].alone /\ request'[s].pc # "new" =>
                    request[s].alone /\ request[s].pc # "new"
              /\ request'[s].pc \notin {"new", "end"} => Open(s)
  <2>1. CASE s = r
    <3>1. <<p.style, p.op>> \in Areas[area].handlers
      BY <1>2, <1>4, <1>7
    <3>2. Handled(request[s])' <=> <<p.style, p.op>> \in Areas[area'].handlers
      BY <1>7, <1>14, <2>1 DEF Handled
    <3>3. HeldWith(p, host')
      BY <1>7 DEF HeldWith
    <3> QED
      BY <1>6, <1>7, <1>13, <1>14, <2>1, <3>1, <3>2, <3>3
  <2>2. CASE s # r
    <3>1. (request[s])' = request[s]
      BY <1>14, <2>2
    <3>2. Handled(request[s])' <=> Handled(request[s])
      BY <1>6, <3>1 DEF Handled
    <3>3. HeldWith(request'[s], host')
      BY <1>6, <3>1 DEF Handling, Held
    <3> QED
      BY <1>1, <3>1, <3>2, <3>3 DEF Open
  <2> QED
    BY <2>1, <2>2
<1>16. RecordsInv'
  BY <1>6, <1>14, <1>15 DEF Handling, RecordsInv, Bounded
<1>17. Held'
  BY <1>15 DEF Held
<1>18. Alone'
  <2> SUFFICES ASSUME NEW s \in Request, NEW o \in Request, request'[s].alone,
                      request'[s].pc # "new", o # s, request'[o].pc \notin {"new", "end"}
               PROVE  FALSE
    BY DEF Alone, Open
  <2> QED
    BY <1>15 DEF Handling, Alone
<1> QED
  BY <1>16, <1>17, <1>18 DEF Handling

------------------------------------------------------------------------------
(***************************************************************************)
(* The streams of answers.                                                 *)
(***************************************************************************)

\* A stream depends on what is on it only.
LEMMA StreamSame ==
    ASSUME NEW requests, NEW later, NEW m, NEW answers, OnStream(requests, m, answers),
           \A i \in DOMAIN answers : /\ later[answers[i]].pc = "sent"
                                     /\ later[answers[i]].todo = requests[answers[i]].todo
    PROVE  OnStream(later, m, answers)
BY DEF OnStream

\* Nobody who waits for an answer on a stream is disturbed.
LEMMA WireSame ==
    ASSUME Wired, wire' = wire,
           \A s \in Request : request[s].pc = "sent" =>
              request'[s].pc = "sent" /\ request'[s].todo = request[s].todo
    PROVE  Wired'
<1>1. stream' = stream /\ unread' = unread
  BY DEF wire
<1>2. ASSUME NEW m \in Machine PROVE OnStream(request', m, stream[m])
  <2>1. OnStream(request, m, stream[m])
    BY DEF Wired
  <2>2. \A i \in DOMAIN stream[m] : stream[m][i] \in Request /\ request[stream[m][i]].pc = "sent"
    BY <2>1 DEF OnStream
  <2> QED
    BY <2>1, <2>2, StreamSame
<1> QED
  BY <1>1, <1>2 DEF Wired

\* What a handler does changes its own request, which is on no stream.
LEMMA OthersWait ==
    ASSUME Inductive, NEW r \in Request, request[r].pc # "sent", NEW p, Set(r, p), wire' = wire
    PROVE  Wired'
<1>1. \A s \in Request \ {r} : request'[s] = request[s]
  BY DEF Set, Inductive, Handling, RecordsInv, Bounded
<1> QED
  BY <1>1, WireSame DEF Inductive

\* A step of a handler.
LEMMA HandlerWires ==
    ASSUME Inductive, NEW r \in Request,
           Ask(r) \/ NoAgent(r) \/ PassOver(r) \/ Report(r) \/ Conclude(r)
    PROVE  Wired'
<1>1. \A q, t : LogAndGoOn(r, q, t) => \E p : Set(r, p)
  BY DEF LogAndGoOn
<1>2. \A q, t : LogAndAnswer(r, q, t) => \E p : Set(r, p)
  BY DEF LogAndAnswer
<1>3. CASE Ask(r) \/ PassOver(r)
  BY <1>3, OthersWait DEF Ask, PassOver
<1>4. CASE NoAgent(r)
  <2>1. request[r].style \in Style
    BY DEF Inductive, Handling, RecordsInv, Sound, Requests
  <2>2. /\ request[r].pc = "next" /\ wire' = wire
        /\ \E p : Set(r, p)
    BY <1>1, <1>2, <1>4, <2>1 DEF NoAgent, Style
  <2> QED
    BY <2>2, OthersWait
<1>5. CASE Report(r)
  <2>1. request[r].style \in Style /\ (request[r].pc = "report" => request[r].style # "package")
    BY DEF Inductive, Handling, RecordsInv, Sound, Requests
  <2>2. /\ request[r].pc = "report" /\ wire' = wire
        /\ \E p : Set(r, p)
    BY <1>1, <1>2, <1>5, <2>1 DEF Report, Style
  <2> QED
    BY <2>2, OthersWait
<1>6. CASE Conclude(r)
  <2>1. Sound(request[r])
    BY DEF Inductive, Handling, RecordsInv
  <2>2. request[r].style \in {"batch", "chain", "package", "command"}
    BY <1>6, <2>1, ListDone DEF Conclude
  <2>3. /\ request[r].pc = "next" /\ wire' = wire
        /\ \E p : Set(r, p)
    BY <1>6, <2>2 DEF Conclude
  <2> QED
    BY <2>3, OthersWait
<1> QED
  BY <1>3, <1>4, <1>5, <1>6

\* A request arrives.
LEMMA ArriveWires ==
    ASSUME Inductive, NEW r \in Request, NEW handler, NEW list, NEW form,
           Arrive(r, handler, list, form)
    PROVE  Wired'
<1>1. ASSUME NEW s \in Request, request[s].pc = "sent"
      PROVE  request'[s].pc = "sent" /\ request'[s].todo = request[s].todo
  <2>1. request[s] \in Requests
    BY DEF Inductive, Handling, RecordsInv, Sound
  <2>2. request'[s] = [request[s] EXCEPT !.alone = FALSE]
    BY <1>1 DEF Arrive, IsNext
  <2> QED
    BY <1>1, <2>1, <2>2 DEF Requests
<1>2. wire' = wire
  BY DEF Arrive
<1> QED
  BY <1>1, <1>2, WireSame DEF Inductive

\* A list with a member more, and one with its first less.
LEMMA StreamAppend ==
    ASSUME NEW requests, NEW m, NEW answers, OnStream(requests, m, answers), NEW r \in Request,
           requests[r].pc = "sent", Head(requests[r].todo).on = m,
           \A i \in DOMAIN answers : answers[i] # r
    PROVE  OnStream(requests, m, Append(answers, r)) /\ Len(Append(answers, r)) = Len(answers) + 1
<1> DEFINE more == Append(answers, r)
<1>1. answers \in Seq(Request)
  BY DEF OnStream
<1>2. /\ more \in Seq(Request) /\ Len(more) = Len(answers) + 1 /\ Len(answers) \in Nat
      /\ \A i \in DOMAIN more : (i \in DOMAIN answers /\ more[i] = answers[i])
                                \/ (i = Len(answers) + 1 /\ more[i] = r)
  BY <1>1
<1> HIDE DEF more
<1>3. \A i \in DOMAIN more : requests[more[i]].pc = "sent" /\ Head(requests[more[i]].todo).on = m
  BY <1>2 DEF OnStream
<1>4. \A i, j \in DOMAIN more : more[i] = more[j] => i = j
  BY <1>2 DEF OnStream
<1>5. OnStream(requests, m, more)
  BY <1>2, <1>3, <1>4 DEF OnStream
<1> QED
  BY <1>2, <1>5 DEF more
LEMMA StreamTail ==
    ASSUME NEW requests, NEW m, NEW answers, OnStream(requests, m, answers), answers # <<>>
    PROVE  /\ OnStream(requests, m, Tail(answers)) /\ Len(Tail(answers)) = Len(answers) - 1
           /\ Len(answers) \in Nat /\ Len(answers) > 0
           /\ Head(answers) \in Request /\ requests[Head(answers)].pc = "sent"
           /\ \A i \in DOMAIN Tail(answers) : Tail(answers)[i] # Head(answers)
<1>1. answers \in Seq(Request)
  BY DEF OnStream
<1>2. PICK rest : rest = Tail(answers)
  OBVIOUS
<1>3. /\ rest \in Seq(Request) /\ Len(rest) = Len(answers) - 1 /\ Len(answers) \in Nat
      /\ Len(answers) > 0 /\ Head(answers) = answers[1] /\ 1 \in DOMAIN answers
      /\ DOMAIN rest = 1 .. Len(answers) - 1
      /\ \A i \in DOMAIN rest : rest[i] = answers[i + 1] /\ i + 1 \in DOMAIN answers /\ i + 1 # 1
  <2>1. /\ Tail(answers) \in Seq(Request) /\ Len(Tail(answers)) = Len(answers) - 1
        /\ Len(answers) \in Nat /\ Len(answers) > 0 /\ Head(answers) = answers[1]
        /\ DOMAIN Tail(answers) = 1 .. Len(answers) - 1
        /\ \A i \in DOMAIN Tail(answers) : Tail(answers)[i] = answers[i + 1] /\ i + 1 \in DOMAIN answers
    BY <1>1, TailOf
  <2>2. 1 \in DOMAIN answers
    BY <1>1, <2>1
  <2>3. \A i \in 1 .. Len(answers) - 1 : i + 1 # 1
    BY <2>1
  <2> QED
    BY <1>2, <2>1, <2>2, <2>3
<1>4. \A i \in DOMAIN rest : requests[rest[i]].pc = "sent" /\ Head(requests[rest[i]].todo).on = m
  BY <1>3 DEF OnStream
<1>5. \A i, j \in DOMAIN rest : rest[i] = rest[j] => i = j
  <2> SUFFICES ASSUME NEW i \in DOMAIN rest, NEW j \in DOMAIN rest, rest[i] = rest[j]
               PROVE  i = j
    OBVIOUS
  <2>1. i + 1 = j + 1
    BY <1>3 DEF OnStream
  <2> QED
    BY <1>3, <2>1
<1>6. \A i \in DOMAIN rest : rest[i] # Head(answers)
  BY <1>3 DEF OnStream
<1>7. OnStream(requests, m, rest)
  BY <1>3, <1>4, <1>5 DEF OnStream
<1>8. Head(answers) \in Request /\ requests[Head(answers)].pc = "sent"
  BY <1>1, <1>3 DEF OnStream
<1> QED
  BY <1>2, <1>3, <1>6, <1>7, <1>8

\* An answer is sent.
LEMMA ReturnWires ==
    ASSUME Inductive, NEW r \in Request, request[r].pc = "work", NEW did, NEW facts,
           Return(r, did, facts)
    PROVE  Wired'
<1> DEFINE m == Head(request[r].todo).on
<1>1. /\ DOMAIN request = Request /\ request[r] \in Requests /\ m \in Machine
      /\ Wired /\ DOMAIN stream = Machine /\ DOMAIN unread = Machine
  <2>1. Sound(request[r])
    BY DEF Inductive, Handling, RecordsInv
  <2>2. Head(request[r].todo).on \in Machine
    BY <2>1, AtWork
  <2> QED
    BY <2>1, <2>2 DEF Inductive, Handling, RecordsInv, Bounded, Sound, Wired
<1>2. CASE request[r].lost
  BY <1>2, OthersWait DEF Return
<1>3. CASE ~request[r].lost
  <2>1. /\ Set(r, [Returned(r, did, facts) EXCEPT !.pc = "sent"])
        /\ stream' = [stream EXCEPT ![m] = Append(@, r)]
        /\ unread' = [unread EXCEPT ![m] = @ + 1]
    BY <1>3 DEF Return, Call
  <2> HIDE DEF m
  <2>2. /\ request'[r].pc = "sent" /\ request'[r].todo = request[r].todo
        /\ \A s \in Request \ {r} : request'[s] = request[s]
    BY <1>1, <2>1 DEF Set, Returned, Requests
  <2>3. ASSUME NEW n \in Machine
        PROVE  OnStream(request', n, stream[n]) /\ \A i \in DOMAIN stream[n] : stream[n][i] # r
    <3>1. OnStream(request, n, stream[n])
      BY <1>1 DEF Wired
    <3>2. \A i \in DOMAIN stream[n] : /\ stream[n][i] \in Request /\ stream[n][i] # r
                                      /\ request[stream[n][i]].pc = "sent"
      BY <3>1 DEF OnStream
    <3> QED
      BY <2>2, <3>1, <3>2, StreamSame
  <2>4. ASSUME NEW n \in Machine, n # m
        PROVE  OnStream(request', n, stream'[n]) /\ unread'[n] \in 0 .. Len(stream'[n])
    BY <1>1, <2>1, <2>3, <2>4 DEF Wired
  <2>5. OnStream(request', m, stream'[m]) /\ unread'[m] \in 0 .. Len(stream'[m])
    <3>1. Head(request'[r].todo).on = m
      BY <2>2 DEF m
    <3>2. /\ OnStream(request', m, Append(stream[m], r))
          /\ Len(Append(stream[m], r)) = Len(stream[m]) + 1
      <4>1. PICK later : later = request'
        OBVIOUS
      <4> QED
        BY <1>1, <2>2, <2>3, <3>1, <4>1, StreamAppend
    <3>3. stream'[m] = Append(stream[m], r) /\ unread'[m] = unread[m] + 1
      BY <1>1, <2>1
    <3>4. unread[m] \in 0 .. Len(stream[m]) /\ Len(stream[m]) \in Nat
      BY <1>1 DEF Wired, OnStream
    <3> QED
      BY <3>2, <3>3, <3>4
  <2>6. DOMAIN stream' = Machine /\ DOMAIN unread' = Machine
    BY <1>1, <2>1
  <2> QED
    BY <2>4, <2>5, <2>6 DEF Wired
<1> QED
  BY <1>2, <1>3

\* A step of a host.
LEMMA CommandWires ==
    ASSUME Inductive, NEW r \in Request, CommandWorks(r) \/ CommandFails(r)
    PROVE  Wired'
<1>1. CASE CommandWorks(r)
  <2>1. request[r].pc = "work"
    BY <1>1 DEF CommandWorks
  <2>2. CASE Len(request[r].run) = 1
    <3>1. PICK facts : Return(r, TRUE, facts)
      BY <1>1, <2>2 DEF CommandWorks
    <3> QED
      BY <2>1, <3>1, ReturnWires
  <2>3. CASE Len(request[r].run) # 1
    <3>1. Set(r, [request[r] EXCEPT !.run = Tail(@)]) /\ wire' = wire
      BY <1>1, <2>3 DEF CommandWorks
    <3> QED
      BY <2>1, <3>1, OthersWait
  <2> QED
    BY <2>2, <2>3
<1>2. CASE CommandFails(r)
  <2>1. request[r].pc = "work"
    BY <1>2 DEF CommandFails
  <2>2. PICK facts : Return(r, FALSE, facts)
    BY <1>2 DEF CommandFails
  <2> QED
    BY <2>1, <2>2, ReturnWires
<1> QED
  BY <1>1, <1>2

\* What was on the stream of m is lost; the others are as they were.
LEMMA Emptied ==
    ASSUME Inductive, NEW m, stream' = [stream EXCEPT ![m] = <<>>],
           unread' = [unread EXCEPT ![m] = 0],
           \A s \in Request : s \notin Calling(m) => request'[s] = request[s]
    PROVE  Wired'
<1>1. Wired /\ DOMAIN stream = Machine /\ DOMAIN unread = Machine
  BY DEF Inductive, Wired
<1>2. ASSUME NEW n \in Machine
      PROVE  OnStream(request', n, stream'[n]) /\ unread'[n] \in 0 .. Len(stream'[n])
  <2>1. CASE n = m
    <3>1. stream'[n] = <<>> /\ unread'[n] = 0
      BY <1>1, <2>1
    <3>2. <<>> \in Seq(Request) /\ Len(<<>>) = 0 /\ DOMAIN <<>> = {} /\ 0 \in 0 .. 0
      OBVIOUS
    <3> QED
      BY <3>1, <3>2 DEF OnStream
  <2>2. CASE n # m
    <3>1. stream'[n] = stream[n] /\ unread'[n] = unread[n]
      BY <1>1, <2>2
    <3>2. OnStream(request, n, stream[n]) /\ unread[n] \in 0 .. Len(stream[n])
      BY <1>1 DEF Wired
    <3>3. ASSUME NEW i \in DOMAIN stream[n]
          PROVE  request'[stream[n][i]] = request[stream[n][i]] /\ request[stream[n][i]].pc = "sent"
      <4>1. /\ stream[n][i] \in Request /\ request[stream[n][i]].pc = "sent"
            /\ Head(request[stream[n][i]].todo).on = n
        BY <3>2 DEF OnStream
      <4>2. stream[n][i] \notin Calling(m)
        BY <2>2, <4>1 DEF Calling, Call
      <4> QED
        BY <4>1, <4>2
    <3>4. OnStream(request', n, stream[n])
      <4>1. PICK later : later = request'
        OBVIOUS
      <4> QED
        BY <3>2, <3>3, <4>1, StreamSame
    <3> QED
      BY <3>1, <3>2, <3>4
  <2> QED
    BY <2>1, <2>2
<1> QED
  BY <1>1, <1>2 DEF Wired

\* An agent dies, or a connection breaks.
LEMMA BreakWires ==
    ASSUME Inductive, NEW m, Die(m) \/ Break(m)
    PROVE  Wired'
<1>1. CASE Die(m)
  BY <1>1, Emptied DEF Die
<1>2. CASE Break(m)
  <2>1. /\ stream' = [stream EXCEPT ![m] = <<>>] /\ unread' = [unread EXCEPT ![m] = 0]
        /\ \A s \in Request : s \notin Calling(m) => request'[s] = request[s]
    BY <1>2 DEF Break, Die
  <2> QED
    BY <2>1, Emptied
<1> QED
  BY <1>1, <1>2

\* An answer is cut off.
LEMMA CutStep ==
    ASSUME Inductive, NEW m \in Machine, stream[m] # <<>>, Cut(m),
           UNCHANGED <<area, connected, breaks, broken, errors, host>>,
           NEW n \in Nat, n < Len(stream[m]), DOMAIN unread' = Machine, unread'[m] = n,
           \A k \in Machine \ {m} : unread'[k] = unread[k]
    PROVE  Handling' /\ Wired'
<1>1. PICK r : r = Head(stream[m])
  OBVIOUS
<1>2. PICK p : p = [request[r] EXCEPT !.pc = "report"]
  OBVIOUS
<1>3. /\ Wired /\ DOMAIN stream = Machine /\ DOMAIN unread = Machine /\ OnStream(request, m, stream[m])
      /\ DOMAIN request = Request
  BY DEF Inductive, Wired, Handling, RecordsInv, Bounded
<1>4. /\ OnStream(request, m, Tail(stream[m])) /\ Len(Tail(stream[m])) = Len(stream[m]) - 1
      /\ Len(stream[m]) \in Nat /\ Len(stream[m]) > 0
      /\ r \in Request /\ request[r].pc = "sent"
      /\ \A i \in DOMAIN Tail(stream[m]) : Tail(stream[m])[i] # r
  BY <1>1, <1>3, StreamTail
<1>5. Sound(request[r]) /\ HeldWith(request[r], host) /\ request[r] \in Requests
  BY <1>4 DEF Inductive, Handling, RecordsInv, Held, Sound
<1>6. Set(r, p) /\ stream' = [stream EXCEPT ![m] = Tail(@)]
  BY <1>1, <1>2 DEF Cut, Set
<1>7. /\ p \in Requests /\ p.pc = "report" /\ Later(request[r], p) /\ p.todo = request[r].todo
      /\ p.tried = request[r].tried /\ p.rows = request[r].rows /\ p.answers = request[r].answers
      /\ p.status = request[r].status
  <2>1. "report" \in PC
    BY DEF PC
  <2> QED
    BY <1>2, <1>5, <2>1 DEF Requests, Later
<1>8. Sound(p)
  <2>1. /\ Planned(request[r]) /\ Tallied(request[r], request[r].tried)
        /\ Len(request[r].rows) <= Len(request[r].tried)
        /\ request[r].todo # <<>> /\ request[r].style # "package"
        /\ Len(request[r].todo) <= Len(request[r].calls)
        /\ request[r].tried # <<>> /\ Going(request[r], Front(request[r].tried))
        /\ Reported(request[r], Final(request[r].tried))
    BY <1>4, <1>5 DEF Sound
  <2>2. p.style = request[r].style /\ p.op = request[r].op /\ p.form = request[r].form
        /\ p.calls = request[r].calls
    BY <1>7 DEF Later
  <2>3. Planned(p) /\ Tallied(p, p.tried)
    BY <1>7, <2>1, <2>2, SamePlan
  <2>4. Going(p, Front(p.tried))
    BY <1>7, <2>1, GoingSame
  <2>5. Reported(p, Final(p.tried))
    BY <1>7, <2>1, <2>2 DEF Reported
  <2> QED
    BY <1>7, <2>1, <2>2, <2>3, <2>4, <2>5 DEF Sound
<1>9. HeldWith(p, host)
  <2>1. Regular(p) /\ p.alone => Regular(request[r]) /\ request[r].alone
    BY <1>7 DEF Later, Regular
  <2>2. Regular(p) /\ p.alone => AllKept(request[r].tried, host)
    BY <1>4, <1>5, <2>1 DEF HeldWith
  <2> QED
    BY <1>7, <2>2 DEF HeldWith
<1>10. Handling'
  <2>1. Handling /\ Open(r)
    BY <1>4 DEF Inductive, Open
  <2>2. /\ connected' \subseteq Machine /\ broken' \subseteq Machine
        /\ breaks' \in 0 .. MaxBreaks /\ errors' \in 0 .. MaxErrors /\ DOMAIN host' = Machine
    BY <2>1 DEF Handling, RecordsInv, Bounded
  <2>3. HeldWith(p, host')
    BY <1>9
  <2>4. Later(request[r], p) /\ p.pc # "new"
    BY <1>7
  <2> QED
    BY <1>4, <1>6, <1>8, <2>1, <2>2, <2>3, <2>4, OneChanges
<1>11. \A s \in Request \ {r} : request'[s] = request[s]
  BY <1>3, <1>6 DEF Set
<1>12. ASSUME NEW k \in Machine
       PROVE  OnStream(request', k, stream'[k]) /\ unread'[k] \in 0 .. Len(stream'[k])
  <2>1. PICK later : later = request'
    OBVIOUS
  <2>2. CASE k = m
    <3>1. stream'[k] = Tail(stream[m]) /\ unread'[k] = n
      BY <1>3, <1>6, <2>2
    <3>2. OnStream(later, m, Tail(stream[m]))
      <4>1. PICK rest : rest = Tail(stream[m])
        OBVIOUS
      <4>2. OnStream(request, m, rest) /\ \A i \in DOMAIN rest : rest[i] # r
        BY <1>4, <4>1
      <4>3. \A i \in DOMAIN rest : rest[i] \in Request \ {r} /\ request[rest[i]].pc = "sent"
        BY <4>2 DEF OnStream
      <4>4. OnStream(later, m, rest)
        BY <1>11, <2>1, <4>2, <4>3, StreamSame
      <4> QED
        BY <4>1, <4>4
    <3>3. n \in 0 .. Len(stream[m]) - 1
      BY <1>4
    <3> QED
      BY <1>4, <2>1, <2>2, <3>1, <3>2, <3>3
  <2>3. CASE k # m
    <3>1. stream'[k] = stream[k] /\ unread'[k] = unread[k]
      BY <1>3, <1>6, <2>3
    <3>2. OnStream(request, k, stream[k]) /\ unread[k] \in 0 .. Len(stream[k])
      BY <1>3 DEF Wired
    <3>3. \A i \in DOMAIN stream[k] : /\ stream[k][i] \in Request \ {r}
                                      /\ request[stream[k][i]].pc = "sent"
      <4>1. Head(request[r].todo).on = m
        <5>1. 1 \in DOMAIN stream[m] /\ Head(stream[m]) = stream[m][1]
          BY <1>3, <1>4 DEF OnStream
        <5> QED
          BY <1>1, <1>3, <5>1 DEF OnStream
      <4> QED
        BY <2>3, <3>2, <4>1 DEF OnStream
    <3>4. OnStream(later, k, stream[k])
      BY <1>11, <2>1, <3>2, <3>3, StreamSame
    <3> QED
      BY <2>1, <3>1, <3>2, <3>4
  <2> QED
    BY <2>2, <2>3
<1>13. DOMAIN stream' = Machine /\ DOMAIN unread' = Machine
  BY <1>3, <1>6
<1> QED
  BY <1>10, <1>12, <1>13 DEF Wired

\* The listener reads.
LEMMA ListenerStep ==
    ASSUME Inductive, NEW m \in Machine, ListenerReads(m) \/ NoticeArrives(m)
    PROVE  Handling' /\ Wired'
<1>1. /\ Wired /\ DOMAIN stream = Machine /\ DOMAIN unread = Machine
      /\ stream[m] \in Seq(Request) /\ Len(stream[m]) \in Nat
      /\ unread[m] \in 0 .. Len(stream[m]) /\ unread[m] \in Nat
  BY DEF Inductive, Wired, OnStream
<1>2. Len(<<>>) = 0
  OBVIOUS
<1>3. CASE ListenerReads(m)
  <2>1. PICK k \in 1 .. unread[m] : unread' = [unread EXCEPT ![m] = @ - k]
    BY <1>3 DEF ListenerReads
  <2>2. PICK n \in Nat : n = unread[m] - k
    BY <1>1, <2>1
  <2>3. /\ n < Len(stream[m]) /\ DOMAIN unread' = Machine /\ unread'[m] = n
        /\ \A x \in Machine \ {m} : unread'[x] = unread[x]
    BY <1>1, <2>1, <2>2
  <2>4. stream[m] # <<>>
    BY <1>1, <1>2, <2>3
  <2>5. CASE Cut(m)
    <3>1. UNCHANGED <<area, connected, breaks, broken, errors, host>>
      BY <1>3 DEF ListenerReads
    <3> QED
      BY <2>3, <2>4, <2>5, <3>1, CutStep
  <2>6. CASE UNCHANGED <<request, stream>>
    <3>1. UNCHANGED <<area, connected, breaks, broken, errors, host>>
      BY <1>3 DEF ListenerReads
    <3>2. Handling'
      BY <2>6, <3>1 DEF Inductive, Handling, RecordsInv, Bounded, Handled, Alone, Open, Held
    <3>3. ASSUME NEW x \in Machine PROVE unread'[x] \in 0 .. Len(stream[x])
      <4>1. unread[x] \in 0 .. Len(stream[x])
        BY <1>1 DEF Wired
      <4>2. n \in 0 .. Len(stream[m])
        BY <1>1, <2>3
      <4> QED
        BY <1>1, <2>3, <4>1, <4>2
    <3>4. Wired'
      BY <1>1, <2>3, <2>6, <3>3 DEF Wired
    <3> QED
      BY <3>2, <3>4
  <2> QED
    BY <1>3, <2>5, <2>6 DEF ListenerReads
<1>4. CASE NoticeArrives(m)
  <2>1. /\ unread[m] < Len(stream[m]) /\ Cut(m) /\ unread' = unread
        /\ UNCHANGED <<area, connected, breaks, broken, errors, host>>
    BY <1>4 DEF NoticeArrives
  <2>2. stream[m] # <<>>
    BY <1>1, <1>2, <2>1
  <2>3. PICK n \in Nat : n = unread[m]
    BY <1>1
  <2>4. DOMAIN unread' = Machine /\ \A x \in Machine \ {m} : unread'[x] = unread[x]
    BY <1>1, <2>1
  <2>5. n < Len(stream[m]) /\ unread'[m] = n
    BY <2>1, <2>3
  <2>6. UNCHANGED <<area, connected, breaks, broken, errors, host>>
    BY <2>1
  <2> QED
    BY <2>1, <2>2, <2>4, <2>5, <2>6, CutStep
<1> QED
  BY <1>3, <1>4

------------------------------------------------------------------------------
(***************************************************************************)
(* The theorems.                                                           *)
(***************************************************************************)

\* Nobody has asked for anything.
LEMMA AtFirst == Init => Inductive
<1> SUFFICES ASSUME Init PROVE Inductive
  OBVIOUS
<1>1. NewRequest \in Requests
  BY NewIsOne
<1>2. NewRequest.pc = "new" /\ NewRequest = [NewRequest EXCEPT !.alone = NewRequest.alone]
  BY DEF NewRequest
<1>3. Len(NewRequest.todo) <= Len(NewRequest.calls)
  BY DEF NewRequest
<1>4. Sound(NewRequest) /\ HeldWith(NewRequest, host)
  BY <1>1, <1>2, <1>3 DEF Sound, HeldWith
<1>5. \A s \in Request : request[s] = NewRequest
  BY DEF Init
<1>6. Bounded
  BY OperationsAssumption DEF Init, Bounded
<1>7. RecordsInv
  BY <1>2, <1>4, <1>5, <1>6 DEF RecordsInv, Handled
<1>8. Alone /\ Held
  BY <1>2, <1>4, <1>5 DEF Alone, Held
<1>9. Wired
  <2>1. stream = [m \in Machine |-> <<>>] /\ unread = [m \in Machine |-> 0]
    BY DEF Init
  <2>2. <<>> \in Seq(Request) /\ Len(<<>>) = 0 /\ DOMAIN <<>> = {} /\ 0 \in 0 .. 0
    OBVIOUS
  <2>3. \A m \in Machine : OnStream(request, m, <<>>)
    BY <2>2 DEF OnStream
  <2> QED
    BY <2>1, <2>2, <2>3 DEF Wired
<1> QED
  BY <1>7, <1>8, <1>9 DEF Handling, Inductive

\* Every step keeps the invariant.
LEMMA EveryStep == Inductive /\ [Next]_vars => Inductive'
<1> SUFFICES ASSUME Inductive, [Next]_vars PROVE Handling' /\ Wired'
  BY DEF Inductive
<1>1. Handling /\ Wired
  BY DEF Inductive
<1>2. ASSUME NEW r \in Request, NEW handler \in Areas[area].handlers, NEW list \in Lists,
             NEW form \in Forms(handler), Arrive(r, handler, list, form)
      PROVE  Handling' /\ Wired'
  BY <1>1, <1>2, ArriveStep, ArriveWires
<1>3. ASSUME NEW r \in Request, NEW handler \in Areas[area].handlers,
             NEW answer \in Refusals(handler), Refuse(r, handler, answer)
      PROVE  Handling' /\ Wired'
  <2>1. Handling'
    BY <1>1, <1>3, RefuseStep
  <2>2. PICK p : request[r].pc = "new" /\ Set(r, p) /\ wire' = wire
    BY <1>3 DEF Refuse, IsNext
  <2> QED
    BY <2>1, <2>2, OthersWait
<1>4. ASSUME NEW r \in Request, Step(r) PROVE Handling' /\ Wired'
  <2>1. CASE Ask(r)
    BY <1>1, <2>1, AskStep, HandlerWires
  <2>2. CASE NoAgent(r)
    BY <1>1, <2>2, NoAgentStep, HandlerWires
  <2>3. CASE PassOver(r)
    BY <1>1, <2>3, PassOverStep, HandlerWires
  <2>4. CASE Report(r)
    BY <1>1, <2>4, ReportStep, HandlerWires
  <2>5. CASE Conclude(r)
    BY <1>1, <2>5, ConcludeStep, HandlerWires
  <2>6. CASE CommandWorks(r)
    BY <1>1, <2>6, CommandWorksStep, CommandWires
  <2>7. CASE CommandFails(r)
    BY <1>1, <2>7, CommandFailsStep, CommandWires
  <2>8. CASE AgentPanics(r)
    <3>1. Die(Call(r).on)
      BY <2>8 DEF AgentPanics
    <3> QED
      BY <1>1, <2>8, <3>1, AgentPanicsStep, BreakWires
  <2> QED
    BY <1>4, <2>1, <2>2, <2>3, <2>4, <2>5, <2>6, <2>7, <2>8 DEF Step
<1>5. ASSUME NEW m \in Machine, Break(m) PROVE Handling' /\ Wired'
  BY <1>1, <1>5, BreakStep, BreakWires
<1>6. ASSUME NEW m \in Machine, ListenerReads(m) \/ NoticeArrives(m) PROVE Handling' /\ Wired'
  BY <1>6, ListenerStep
<1>7. CASE UNCHANGED vars
  <2>1. Handling'
    BY <1>1, <1>7 DEF vars, Handling, RecordsInv, Bounded, Handled, Alone, Open, Held
  <2>2. Wired'
    BY <1>1, <1>7 DEF vars, wire, Wired
  <2> QED
    BY <2>1, <2>2
<1> QED
  BY <1>2, <1>3, <1>4, <1>5, <1>6, <1>7 DEF Next

\* The invariant always holds: how far every handler is in its calls, what its
\* log and its answer say of those it made, that a request that is alone finds
\* the hosts as its operations left them, and that the answers under way are
\* of calls that wait for them, each once.
THEOREM InvariantHolds == Spec => []Inductive
BY AtFirst, EveryStep, PTL DEF Spec

\* Nothing is answered or written in the parent log before the end.
LEMMA OnlyAtTheEnd ==
    ASSUME Handling, NEW r \in Request, request[r].pc # "end"
    PROVE  request[r].answers = <<>> /\ request[r].status = NoStatus
<1> DEFINE q == request[r]
<1>1. Sound(q) /\ Handled(q) /\ q \in Requests /\ q.pc \in PC
  BY DEF Handling, RecordsInv, Sound, Requests
<1>2. CASE q.pc = "new"
  <2>1. q = [NewRequest EXCEPT !.alone = q.alone]
    BY <1>1, <1>2 DEF Handled
  <2> QED
    BY <2>1 DEF NewRequest
<1>3. CASE q.pc \in {"next", "work", "sent", "report"}
  <2>1. Going(q, q.tried) \/ Going(q, Front(q.tried))
    BY <1>1, <1>3 DEF Sound
  <2> QED
    BY <2>1 DEF Going
<1>4. CASE q.pc = "hung"
  BY <1>1, <1>4 DEF Sound
<1> QED
  BY <1>1, <1>2, <1>3, <1>4 DEF PC

\* TypeOK, for any lists and any number of requests: what the goroutines of the
\* handlers and of the agents leave in the records, at most one answer among it.
THEOREM TypeCorrect == Spec => []TypeOK
<1>1. Inductive => TypeOK
  <2>9. Wired => \A m \in Machine : stream[m] \in Seq(Request) /\ unread[m] \in 0 .. Len(stream[m])
    BY DEF Wired, OnStream
  <2> SUFFICES ASSUME Handling, NEW r \in Request
               PROVE  LET q == request[r] IN
                      /\ q.pc \in {"new", "next", "work", "sent", "report", "hung", "end"}
                      /\ <<q.style, q.op>> \in Areas[area].handlers
                         \/ q = [NewRequest EXCEPT !.alone = q.alone]
                      /\ q.pc = "work" => q.run # <<>>
                      /\ Len(q.todo) <= Len(q.calls) /\ Len(q.tried) <= Len(q.calls)
                      /\ Len(q.rows) <= Len(q.tried)
                      /\ \A i \in DOMAIN q.answers : q.answers[i] \in Answers
                      /\ q.pc = "end" => Len(q.answers) = 1
    BY <2>9 DEF TypeOK, Inductive, Handling, RecordsInv, Bounded
  <2> DEFINE q == request[r]
  <2>1. Sound(q) /\ Handled(q) /\ q \in Requests
    BY DEF Handling, RecordsInv, Sound
  <2>2. q.pc \in PC /\ q.answers \in Seq(Answers)
    BY <2>1 DEF Requests
  <2>3. \A i \in DOMAIN q.answers : q.answers[i] \in Answers
    BY <2>2
  <2>4. q.pc = "work" => q.run # <<>>
    BY <2>1 DEF Sound, Running
  <2>5. q.pc = "end" => Len(q.answers) = 1
    BY <2>1 DEF Sound, Finished
  <2>6. Len(q.todo) <= Len(q.calls)
    BY <2>1 DEF Sound
  <2>7. Len(q.tried) <= Len(q.calls) /\ Len(q.rows) <= Len(q.tried)
    <3>1. CASE q.pc = "new"
      <4>1. q = [NewRequest EXCEPT !.alone = q.alone]
        BY <2>1, <3>1 DEF Handled
      <4>2. q.tried = <<>> /\ q.calls = <<>> /\ q.rows = <<>>
        BY <4>1 DEF NewRequest
      <4> QED
        BY <4>2
    <3>2. CASE q.pc # "new"
      <4>1. Tallied(q, q.tried) /\ Len(q.rows) <= Len(q.tried)
        BY <2>1, <3>2 DEF Sound
      <4> QED
        BY <4>1 DEF Tallied
    <3> QED
      BY <3>1, <3>2
  <2>8. <<q.style, q.op>> \in Areas[area].handlers \/ q = [NewRequest EXCEPT !.alone = q.alone]
    BY <2>1 DEF Handled
  <2> QED
    BY <2>2, <2>3, <2>4, <2>5, <2>6, <2>7, <2>8 DEF PC
<1> QED
  BY <1>1, InvariantHolds, PTL

\* LogsAgree: a parent log that has got its status counts what its rows say,
\* whatever statements fail and whatever agents are missing, and a row is
\* missing only for a machine that was not done.
THEOREM LogsAreRight == Spec => []LogsAgree
<1>1. Inductive => LogsAgree
  <2> SUFFICES ASSUME Handling, NEW r \in Request, request[r].status # NoStatus
               PROVE  LET q == request[r] IN
                      /\ q.status[1] = Count(q.rows, TRUE)
                      /\ q.status[2] = Len(q.calls)
                      /\ Count(q.rows, FALSE) <= q.status[2] - q.status[1]
                      /\ [i \in DOMAIN q.tried |-> q.tried[i].on]
                            = [i \in DOMAIN q.calls |-> q.calls[i].on]
    BY DEF LogsAgree, Inductive
  <2>1. request[r].pc = "end" /\ Sound(request[r])
    BY OnlyAtTheEnd DEF Handling, RecordsInv
  <2>2. LogAgrees(request[r])
    BY <2>1 DEF Sound, Finished
  <2> QED
    BY <2>2 DEF LogAgrees, Dones, Undones
<1> QED
  BY <1>1, InvariantHolds, PTL

\* AnswerTellsTruth: no handler answers a success to a form that asks for
\* something else, over a call that failed or over clocks that disagree, nor a
\* failure to a good form over calls that all did what they had to and clocks
\* that agree.  The operations whose failure nobody notices, and those whose
\* data do not fit the method of Agent, are named in it.
THEOREM AnswersAreTrue == Spec => []AnswerTellsTruth
<1>1. Inductive => AnswerTellsTruth
  <2> SUFFICES ASSUME Handling, NEW r \in Request, request[r].answers # <<>>
               PROVE  Truthful(request[r])
    BY DEF AnswerTellsTruth, Truthful, Well, Off, Misfits, Inductive
  <2>1. request[r].pc = "end" /\ Sound(request[r])
    BY OnlyAtTheEnd DEF Handling, RecordsInv
  <2> QED
    BY <2>1 DEF Sound, Finished
<1> QED
  BY <1>1, InvariantHolds, PTL

\* SuccessKept: what the message of a success promises of the machines of a
\* request that was alone with them, they keep: for every list of machines,
\* with one machine named twice, and whatever commands failed on the way.
THEOREM SuccessIsKept == Spec => []SuccessKept
<1>1. Inductive => SuccessKept
  <2> SUFFICES ASSUME Handling, NEW r \in Request, Succeeded(r),
                      request[r].style \notin {"package", "command"},
                      NEW i \in DOMAIN request[r].calls
               PROVE  Unnoticed(request[r].calls[i].op) \/ Kept(request[r].calls[i])
    BY DEF SuccessKept, Inductive
  <2>1. request[r].answers = <<"ok">> /\ request[r].alone /\ Regular(request[r])
    BY DEF Succeeded, Regular
  <2>2. request[r].pc = "end"
    <3>1. request[r].answers # <<>>
      BY <2>1
    <3> QED
      BY <3>1, OnlyAtTheEnd
  <2>3. HeldWith(request[r], host)
    BY DEF Handling, Held
  <2>4. KeptIn(request[r].calls[i], host)
    BY <2>1, <2>2, <2>3 DEF HeldWith
  <2> QED
    BY <2>4 DEF KeptIn, KeptOn, Kept
<1> QED
  BY <1>1, InvariantHolds, PTL
==============================================================================
