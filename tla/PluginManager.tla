---------------------------- MODULE PluginManager ----------------------------
(***************************************************************************)
(* The plugins of the server: the table of plugins, the map loadedPlugin   *)
(* that is kept beside it in memory, the start of the server, which        *)
(* restores the map while requests are already served, and the requests    *)
(* that add, toggle and remove a plugin.  The map has a lock; Remove and   *)
(* UpdatePlugin write the table before they take it.                       *)
(***************************************************************************)
EXTENDS Naturals, FiniteSets

CONSTANTS PluginName,   \* names plugins tell in the handshake
          MaxPlugins,   \* bound: plugins ever added
          MaxStarts,    \* bound: starts of the server
          MaxHalfway    \* bound: requests between their two steps

ASSUME PluginAssumption ==
    /\ MaxPlugins \in Nat \ {0} /\ MaxStarts \in Nat \ {0} /\ MaxHalfway \in Nat \ {0}

UUID == 1 .. MaxPlugins     \* in the order in which Create gives the ids of rows
Status == {0, 1}            \* PluginDisabled, PluginEnabled
Record == [name : PluginName, enabled : Status]

VARIABLES
    given,     \* UUIDs given out so far
    rows,      \* table plugin: a function from the UUIDs in it
    loaded,    \* loadedPlugin: the plugins in memory, a function from their UUIDs
    boot,      \* ServiceInit: about to query, about to restore, or done
    queried,   \* what QueryPlugins returned
    halfway,   \* requests between their statement and their change in memory
    starts,    \* starts of the server so far
    early,     \* names added before the restore was done
    undead,    \* names of plugins whose row could not be deleted
    raced      \* plugins removed before the restore was done

pluginVars == <<given, rows, loaded, boot, queried, halfway, starts, early, undead, raced>>

PluginInit ==
    /\ given = 0 /\ rows = << >> /\ loaded = << >>
    /\ boot = "query" /\ queried = << >>
    /\ halfway = {} /\ starts = 1
    /\ early = {} /\ undead = {} /\ raced = {}

Named(table, name) == {u \in DOMAIN table : table[u].name = name}
Latest(S) == CHOOSE u \in S : \A v \in S : v <= u
Without(table, u) == [v \in DOMAIN table \ {u} |-> table[v]]
With(table, u, r) == [v \in DOMAIN table \cup {u} |-> IF v = u THEN r ELSE table[v]]

------------------------------------------------------------------------------
\* The start.  main starts the HTTP server before it restores the plugins.

QueryPlugins ==
    /\ boot = "query"
    /\ queried' = rows
    /\ boot' = "restore"
    /\ UNCHANGED <<given, rows, loaded, halfway, starts, early, undead, raced>>

\* Variant: the map is only what was read.
RestoreAll ==
    /\ boot = "restore"
    /\ boot' = "done"
    /\ loaded' = queried
    /\ queried' = << >>
    /\ UNCHANGED <<given, rows, halfway, starts, early, undead, raced>>

\* RestorePluginInfo: every row read takes its name in the map, the last one of
\* a name for good.
RestorePluginInfo ==
    /\ boot = "restore"
    /\ boot' = "done"
    /\ LET stay == {u \in DOMAIN loaded : Named(queried, loaded[u].name) = {}}
           come == {u \in DOMAIN queried : u = Latest(Named(queried, queried[u].name))}
       IN  loaded' = [u \in stay \cup come |-> IF u \in come THEN queried[u] ELSE loaded[u]]
    /\ queried' = << >>
    /\ UNCHANGED <<given, rows, halfway, starts, early, undead, raced>>

\* The server stops, at any moment, and starts again.
Restart ==
    /\ starts < MaxStarts
    /\ starts' = starts + 1
    /\ loaded' = << >> /\ queried' = << >> /\ halfway' = {}
    /\ boot' = "query"
    /\ UNCHANGED <<given, rows, early, undead, raced>>

------------------------------------------------------------------------------
\* Requests.

\* Variant: the map is looked at before the lock is taken, and no more.
AddUnseen(name) ==
    /\ given < MaxPlugins
    /\ given' = given + 1
    /\ rows' = With(rows, given + 1, [name |-> name, enabled |-> 1])
    /\ loaded' = With([v \in DOMAIN loaded \ Named(loaded, name) |-> loaded[v]],
                      given + 1, [name |-> name, enabled |-> 0])
    /\ early' = IF boot = "done" THEN early ELSE early \cup {name}
    /\ UNCHANGED <<boot, queried, halfway, starts, undead, raced>>

\* AddPlugin, after the handshake: under the lock a name that is loaded is
\* refused, the row is written as enabled, and the plugin put in the map as
\* Handshake made it, which is not enabled.
AddPlugin(name) ==
    /\ given < MaxPlugins
    /\ Named(loaded, name) = {}
    /\ given' = given + 1
    /\ rows' = With(rows, given + 1, [name |-> name, enabled |-> 1])
    /\ loaded' = With(loaded, given + 1, [name |-> name, enabled |-> 0])
    /\ early' = IF boot = "done" THEN early ELSE early \cup {name}
    /\ UNCHANGED <<boot, queried, halfway, starts, undead, raced>>

\* Remove: the row, whose error is logged and passed over ...
DeletePlugin(u) ==
    /\ u <= given /\ Cardinality(halfway) < MaxHalfway
    /\ \/ rows' = Without(rows, u) /\ UNCHANGED undead
       \/ UNCHANGED rows /\ undead' = undead \cup {rows[v].name : v \in DOMAIN rows \cap {u}}
    /\ halfway' = halfway \cup {[op |-> "remove", uuid |-> u, status |-> 0]}
    /\ raced' = IF boot = "done" THEN raced ELSE raced \cup {u}
    /\ UNCHANGED <<given, loaded, boot, queried, starts, early>>

\* Variant: only a plugin with a row is taken from the map.
RemoveIfThere(r) ==
    /\ r.op = "remove"
    /\ halfway' = halfway \ {r}
    /\ loaded' = IF r.uuid \in DOMAIN rows THEN Without(loaded, r.uuid) ELSE loaded
    /\ UNCHANGED <<given, rows, boot, queried, starts, early, undead, raced>>

\* ... then the plugin in the map, if it is there.
Remove(r) ==
    /\ r.op = "remove"
    /\ halfway' = halfway \ {r}
    /\ loaded' = Without(loaded, r.uuid)
    /\ UNCHANGED <<given, rows, boot, queried, starts, early, undead, raced>>

\* UpdatePlugin stores the opposite of the status in the request ...
UpdatePluginEnabled(u, enable) ==
    /\ u <= given /\ Cardinality(halfway) < MaxHalfway
    /\ LET status == 1 - enable
       IN  /\ rows' = IF u \in DOMAIN rows THEN [rows EXCEPT ![u].enabled = status] ELSE rows
           /\ halfway' = halfway \cup {[op |-> "toggle", uuid |-> u, status |-> status]}
    /\ UNCHANGED <<given, loaded, boot, queried, starts, early, undead, raced>>

\* ... and looks at the first plugin of the map, whichever that is, only.
UpdatePlugin(r) ==
    /\ r.op = "toggle"
    /\ halfway' = halfway \ {r}
    /\ \/ DOMAIN loaded = {} /\ UNCHANGED loaded
       \/ \E first \in DOMAIN loaded :
             loaded' = IF first = r.uuid THEN [loaded EXCEPT ![first].enabled = r.status]
                       ELSE loaded
    /\ UNCHANGED <<given, rows, boot, queried, starts, early, undead, raced>>

PluginNext ==
    \/ QueryPlugins \/ RestorePluginInfo \/ Restart
    \/ \E name \in PluginName : AddPlugin(name)
    \/ \E u \in UUID : DeletePlugin(u) \/ \E enable \in Status : UpdatePluginEnabled(u, enable)
    \/ \E r \in halfway : Remove(r) \/ UpdatePlugin(r)

PluginSpec == PluginInit /\ [][PluginNext]_pluginVars
------------------------------------------------------------------------------
(***************************************************************************)
(* Properties.                                                             *)
(***************************************************************************)

\* The variables hold what the code can put in them, and the map has one
\* plugin of a name.
PluginTypeOK ==
    /\ given \in 0 .. MaxPlugins /\ starts \in 1 .. MaxStarts
    /\ \A table \in {rows, loaded, queried} :
          DOMAIN table \subseteq 1 .. given /\ table \in [DOMAIN table -> Record]
    /\ \A u, v \in DOMAIN loaded : loaded[u].name = loaded[v].name => u = v
    /\ boot \in {"query", "restore", "done"}
    /\ halfway \subseteq [op : {"remove", "toggle"}, uuid : UUID, status : Status]
    /\ early \subseteq PluginName /\ undead \subseteq PluginName /\ raced \subseteq UUID

\* The map refuses a second plugin of a name, and so the table has one row for
\* it, which survives restarts.  Two cases let a second row in, which hides the
\* first after the next start: the plugin was added while the server had not
\* restored the map yet, or the row of the first could not be deleted when the
\* map let it go.
OneRowPerName ==
    \A u, v \in DOMAIN rows :
       rows[u].name = rows[v].name => u = v \/ rows[u].name \in early \cup undead

\* A plugin the server lists is in the table, and so is there after the next
\* start, except while its removal is half way, and when it was removed between
\* the query and the restore of a start, which brings it back in the map.
ListedIsRecorded ==
    \A u \in DOMAIN loaded \ raced :
       \/ u \in DOMAIN rows
       \/ \E r \in halfway : r.op = "remove" /\ r.uuid = u
=============================================================================
