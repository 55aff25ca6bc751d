--------------------------- MODULE HostOperations ----------------------------
(***************************************************************************)
(* What a call to an agent does to its host, and what becomes of its       *)
(* result on the way back.  An operation is named by the method of Agent   *)
(* that calls it.  It passes three layers, of which each has its tables:   *)
(* the host functions (a sequence of commands of the host), the handler of *)
(* the agent (the shape of the data it sends) and the method of Agent (the *)
(* shape it takes the data for).  The host is a set of facts.              *)
(***************************************************************************)
EXTENDS Naturals, Sequences, FiniteSets

\* A command of the host: it can work if the facts of needs hold and those of
\* lacks do not; then those of adds hold and those of drops do not, and for
\* each pair in loads the second becomes what the first is.  fatal: when it
\* fails, the function panics and the agent ends.
Command(needs, lacks, adds, drops) ==
    [needs |-> needs, lacks |-> lacks, adds |-> adds, drops |-> drops, loads |-> {},
     fatal |-> FALSE]

Look  == Command({}, {}, {}, {})
Fatal == [Look EXCEPT !.fatal = TRUE]

CanWork(c, facts) == c.needs \subseteq facts /\ c.lacks \cap facts = {}

After(c, facts) ==
    LET set == (facts \ c.drops) \cup c.adds
    IN  (set \ {l[2] : l \in c.loads}) \cup {l[2] : l \in {k \in c.loads : k[1] \in set}}

------------------------------------------------------------------------------
\* Host functions: their commands.  Each ends at the first that fails, or
\* whose output is not what the function compares it with.

\* yum says "Nothing to do." of a package that is there, or that is not.
InstallRpm == <<Command({}, {"package"}, {"package"}, {})>>
RemoveRpm  == <<Command({"package"}, {}, {}, {"package"})>>
GetAllRpm  == <<Look>>
\* The lines of the output are split into fields that are taken to be there.
GetRpmSource == <<Look, Fatal>>
GetRpmInfo == <<Command({"package"}, {}, {}, {})>>
GetRepoSource == <<Look, Look>>

\* verifyStatus, on what systemctl is-active says.
VerifyActive   == Command({"active"}, {}, {}, {})
VerifyInactive == Command({}, {"active"}, {}, {})

GetServiceList == <<Look, Look>>
GetServiceStatus == <<Look>>
StartService   == <<Command({"unit"}, {}, {"active"}, {}), VerifyActive>>
StopService    == <<Command({"unit"}, {}, {}, {"active"}), VerifyInactive>>
RestartService == <<Command({"unit"}, {}, {"active"}, {}), VerifyActive>>

GetSysctlConfig == <<Look>>
TempModifyPar   == <<Command({}, {}, {"parameter"}, {})>>
GetVarNameValue == <<Look>>

\* firewall-cmd warns on stderr of what is there already, or is not there; it
\* needs firewalld.  A reload makes the permanent rules the running ones.
Reload == [Command({"firewalld"}, {}, {}, {}) EXCEPT
              !.loads = {<<"savedPort", "port">>, <<"savedService", "service">>,
                         <<"savedSource", "source">>}]
\* Variant: the running rules stay as they are.
AddSavedRule(rule) == <<Command({"firewalld"}, {rule}, {rule}, {})>>

AddRule(rule)  == <<Command({"firewalld"}, {rule}, {rule}, {}), Reload>>
DropRule(rule) == <<Command({"firewalld", rule}, {}, {}, {rule}), Reload>>

AddZonePort            == AddRule("savedPort")
DelZonePort            == DropRule("savedPort")
FirewalldServiceAdd    == AddRule("savedService")
FirewalldServiceRemove == DropRule("savedService")
FirewalldSourceAdd     == AddRule("savedSource")
FirewalldSourceRemove  == DropRule("savedSource")
FirewalldSetDefaultZone == <<Command({"firewalld"}, {"zone"}, {"zone"}, {})>>
FirewalldZoneConfig    == <<Command({"firewalld"}, {}, {}, {})>>
Restart == <<[Reload EXCEPT !.needs = {}, !.adds = {"firewalld"}]>>
Stop    == <<Command({}, {}, {}, {"firewalld", "port", "service", "source"})>>

\* Each look that fails ends Config with what it has so far, and no error.
Config == <<Look>>

AddLinuxUser == <<Command({}, {"user"}, {"user"}, {}), Command({"user"}, {}, {"password"}, {})>>
DelUser      == <<Command({"user"}, {}, {}, {"user", "password"})>>
\* The lines of /etc/passwd have seven fields; there is a current user.
GetAllUserInfo == <<Look, Fatal>>
GetCurrentUserInfo == <<Fatal>>
ChangePermission == <<Command({}, {}, {"mode"}, {})>>
ChangeFileOwner  == <<Command({"user"}, {}, {"owner"}, {})>>

DiskMount   == <<Command({}, {}, {"directory"}, {}), Command({"directory"}, {}, {"mounted"}, {})>>
DiskUMount  == <<Command({"mounted"}, {}, {}, {"mounted"})>>
DiskFormat  == <<Command({}, {"mounted"}, {"formatted"}, {})>>
\* Usage gives nil for a mount point it cannot look at.
GetDiskUsageInfo == <<Look, Fatal>>
GetDiskInfo == <<Look>>

\* The file is there with the text it had ("old"), or is made with the new one;
\* it is read, cut to nothing and written.
UpdateFile == <<Command({}, {}, {"file"}, {}), Look, Command({}, {}, {"cut"}, {"old"}),
                Command({}, {}, {}, {"cut"})>>
FileReadString == <<Command({"file"}, {}, {}, {})>>

\* An ifcfg-e file is the network card ("card"); "settings" are the lines
\* KEY=VALUE in it.
GetNICName == <<Look>>
ConfigNetworkConnect == <<Look, Command({"card"}, {}, {}, {})>>
GetNetworkConnInfo   == <<Look, Command({"card"}, {}, {}, {})>>
RestartNetwork == <<Look, Command({"card"}, {}, {"network"}, {})>>
GetTCP == <<Look>>
GetUDP == <<Look>>
GetIOCounter == <<Look>>
GetNICConfig == <<Look>>

\* Dial and Info are used whatever error they gave.
GetHostInfo == <<Fatal, Fatal, Look>>
GetCPUInfo  == <<Look, Look>>
GetMemoryConfig == <<Look>>
GetTime     == <<Look>>

\* utils.RunCommand and utils.RunScript: whatever a command returns, it has
\* been run.  A script is saved first.
RunCommand == <<Command({}, {}, {"run"}, {})>>
RunScript  == <<Command({}, {}, {"script"}, {}), Command({"script"}, {}, {"run"}, {})>>

\* The table of the interface OSOperator.
Commands ==
    [InstallRpm |-> InstallRpm, RemoveRpm |-> RemoveRpm, AllRpm |-> GetAllRpm,
     RpmSource |-> GetRpmSource, RpmInfo |-> GetRpmInfo, GetRepoSource |-> GetRepoSource,
     ServiceStart |-> StartService, ServiceStop |-> StopService,
     ServiceRestart |-> RestartService, ServiceList |-> GetServiceList,
     ServiceStatus |-> GetServiceStatus,
     ChangeSysctl |-> TempModifyPar, GetSysctlInfo |-> GetSysctlConfig,
     SysctlView |-> GetVarNameValue,
     FirewalldConfig |-> Config, FirewalldSetDefaultZone |-> FirewalldSetDefaultZone,
     FirewalldZoneConfig |-> FirewalldZoneConfig,
     FirewalldServiceAdd |-> FirewalldServiceAdd,
     FirewalldServiceRemove |-> FirewalldServiceRemove,
     FirewalldSourceAdd |-> FirewalldSourceAdd,
     FirewalldSourceRemove |-> FirewalldSourceRemove,
     FirewalldRestart |-> Restart, FirewalldStop |-> Stop,
     FirewalldZonePortAdd |-> AddZonePort, FirewalldZonePortDel |-> DelZonePort,
     CurrentUser |-> GetCurrentUserInfo, AllUser |-> GetAllUserInfo, AddLinuxUser |-> AddLinuxUser,
     DelUser |-> DelUser, ChangePermission |-> ChangePermission,
     ChangeFileOwner |-> ChangeFileOwner,
     DiskUsage |-> GetDiskUsageInfo, DiskInfo |-> GetDiskInfo, DiskMount |-> DiskMount,
     DiskUMount |-> DiskUMount, DiskFormat |-> DiskFormat,
     UpdateFile |-> UpdateFile, ReadFile |-> FileReadString,
     GetNICName |-> GetNICName, GetNetWorkConnectInfo |-> ConfigNetworkConnect,
     GetNetWorkConnInfo |-> GetNetworkConnInfo, RestartNetWork |-> RestartNetwork,
     NetTCP |-> GetTCP, NetUDP |-> GetUDP, NetIOCounter |-> GetIOCounter,
     NetNICConfig |-> GetNICConfig,
     GetOSInfo |-> GetHostInfo, GetCPUInfo |-> GetCPUInfo, GetMemoryInfo |-> GetMemoryConfig,
     GetTimeInfo |-> GetTime, RunCommand |-> RunCommand, RunScript |-> RunScript]

Op == DOMAIN Commands

\* Config takes the part behind "-" of the name of the card, which is empty if
\* there is none, and the agent ends.
Kills(op, facts) == op = "FirewalldConfig" /\ "card" \notin facts

------------------------------------------------------------------------------
\* The handlers of the agent: the shape of the data they send when the host
\* function has returned no error.  Those of users, disks and the firewall cut
\* the text they get at its commas: names, passwords and paths are data here, and
\* without one.

RpmSends     == [AllRpm |-> "list", RpmSource |-> "list", RpmInfo |-> "record",
                 InstallRpm |-> "text", RemoveRpm |-> "text", GetRepoSource |-> "list"]
ServiceSends == [ServiceList |-> "list", ServiceStatus |-> "text", ServiceStart |-> "text",
                 ServiceStop |-> "text", ServiceRestart |-> "text"]
SysctlSends  == [GetSysctlInfo |-> "table", ChangeSysctl |-> "text", SysctlView |-> "text"]
FirewallSends ==
    [FirewalldConfig |-> "record", FirewalldSetDefaultZone |-> "text",
     FirewalldZoneConfig |-> "record",
     FirewalldServiceAdd |-> "nothing", FirewalldServiceRemove |-> "nothing",
     FirewalldSourceAdd |-> "nothing", FirewalldSourceRemove |-> "nothing",
     FirewalldRestart |-> "flag", FirewalldStop |-> "flag",
     FirewalldZonePortAdd |-> "text", FirewalldZonePortDel |-> "text"]
UserSends ==
    [CurrentUser |-> "record", AllUser |-> "list", AddLinuxUser |-> "text", DelUser |-> "text",
     ChangePermission |-> "text", ChangeFileOwner |-> "text"]
DiskSends ==
    [DiskUsage |-> "list", DiskInfo |-> "list", DiskMount |-> "text", DiskUMount |-> "text",
     DiskFormat |-> "text"]
FileSends == [ReadFile |-> "text", UpdateFile |-> "record"]
NetworkSends ==
    [NetTCP |-> "list", NetUDP |-> "list", NetIOCounter |-> "list", NetNICConfig |-> "list",
     GetNetWorkConnectInfo |-> "list", GetNetWorkConnInfo |-> "record",
     RestartNetWork |-> "nothing", GetNICName |-> "text"]
MachineSends ==
    [GetOSInfo |-> "record", GetCPUInfo |-> "record", GetMemoryInfo |-> "record",
     GetTimeInfo |-> "text"]
CommandSends == [RunCommand |-> "record", RunScript |-> "record"]

Sends ==
    [op \in Op |->
        CASE op \in DOMAIN RpmSends -> RpmSends[op]
          [] op \in DOMAIN ServiceSends -> ServiceSends[op]
          [] op \in DOMAIN SysctlSends -> SysctlSends[op]
          [] op \in DOMAIN FirewallSends -> FirewallSends[op]
          [] op \in DOMAIN UserSends -> UserSends[op]
          [] op \in DOMAIN DiskSends -> DiskSends[op]
          [] op \in DOMAIN FileSends -> FileSends[op]
          [] op \in DOMAIN NetworkSends -> NetworkSends[op]
          [] op \in DOMAIN MachineSends -> MachineSends[op]
          [] op \in DOMAIN CommandSends -> CommandSends[op]]

\* A card without settings is a nil slice, which is sent as null.
Shape(op, facts) ==
    IF op = "GetNetWorkConnectInfo" /\ "settings" \notin facts THEN "null" ELSE Sends[op]

\* These handlers drop the error of the host function: status 0, empty data.
ServiceDrops == {"ServiceList", "ServiceStatus"}
SysctlDrops  == {"GetSysctlInfo", "ChangeSysctl", "SysctlView"}
TimeDrops    == {"GetTimeInfo"}
DropsError   == ServiceDrops \cup SysctlDrops \cup TimeDrops

------------------------------------------------------------------------------
\* The methods of Agent: the shape they take the data for.  "nothing": they do
\* not look at it.

RpmTakes     == [AllRpm |-> "list", RpmSource |-> "record", RpmInfo |-> "record",
                 InstallRpm |-> "text", RemoveRpm |-> "text"]
RepoTakes    == [GetRepoSource |-> "list"]
ServiceTakes == ServiceSends
SysctlTakes  == SysctlSends
FirewallTakes == FirewallSends
UserTakes    == UserSends
DiskTakes    == [DiskSends EXCEPT !.DiskInfo = "record"]
FileTakes    == [ReadFile |-> "text", UpdateFile |-> "record"]
NetReadTakes == [NetTCP |-> "record", NetUDP |-> "record", NetIOCounter |-> "record",
                 NetNICConfig |-> "record"]
NetworkTakes == [GetNetWorkConnectInfo |-> "table", GetNetWorkConnInfo |-> "record",
                 GetNICName |-> "text", RestartNetWork |-> "nothing"]
MachineTakes == [GetOSInfo |-> "record", GetCPUInfo |-> "record", GetMemoryInfo |-> "record"]
TimeTakes    == [GetTimeInfo |-> "text"]
CommandTakes == [RunCommand |-> "record", RunScript |-> "record"]

Takes ==
    [op \in Op |->
        CASE op \in DOMAIN RpmTakes -> RpmTakes[op]
          [] op \in DOMAIN RepoTakes -> RepoTakes[op]
          [] op \in DOMAIN ServiceTakes -> ServiceTakes[op]
          [] op \in DOMAIN SysctlTakes -> SysctlTakes[op]
          [] op \in DOMAIN FirewallTakes -> FirewallTakes[op]
          [] op \in DOMAIN UserTakes -> UserTakes[op]
          [] op \in DOMAIN DiskTakes -> DiskTakes[op]
          [] op \in DOMAIN FileTakes -> FileTakes[op]
          [] op \in DOMAIN NetReadTakes -> NetReadTakes[op]
          [] op \in DOMAIN NetworkTakes -> NetworkTakes[op]
          [] op \in DOMAIN MachineTakes -> MachineTakes[op]
          [] op \in DOMAIN TimeTakes -> TimeTakes[op]
          [] op \in DOMAIN CommandTakes -> CommandTakes[op]]

\* mapstructure.Decode, without weak input: null is good for anything, and a
\* list is no record and no table.
Fits(sent, taken) == sent \in {"null", taken} \/ taken = "nothing"

\* Agent.RunCommand and Agent.RunScript do not look at the status.
IgnoresStatus == {"RunCommand", "RunScript"}

\* A failed call that comes back without an error.
FailureUnseen(op) == op \in DropsError \cup IgnoresStatus

\* The call returns no error, of a host function that did all it had to, or
\* did not.
Accepted(op, did, facts) ==
    IF did THEN Fits(Shape(op, facts), Takes[op]) ELSE FailureUnseen(op)
=============================================================================
