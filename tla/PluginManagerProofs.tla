-------------------------- MODULE PluginManagerProofs ------------------------
(***************************************************************************)
(* Proofs about PluginManager, for every number of plugins, names, starts  *)
(* and requests half way.                                                  *)
(***************************************************************************)
EXTENDS PluginManager, TLAPS

\* Names for which the code lets a second row in.
Excused == early \cup undead

\* A row that the map should have: while the server starts, what was queried;
\* afterwards, the map itself.
Known ==
    \A u \in DOMAIN rows : rows[u].name \notin Excused =>
       /\ boot = "restore" => u \in DOMAIN queried /\ queried[u].name = rows[u].name
       /\ boot = "done" => u \in DOMAIN loaded /\ loaded[u].name = rows[u].name

\* What was queried has one row of a name, and is in the table but for what was
\* removed meanwhile.
Snapshot ==
    /\ boot # "restore" => DOMAIN queried = {}
    /\ \A u, v \in DOMAIN queried :
          queried[u].name = queried[v].name => u = v \/ queried[u].name \in Excused
    /\ \A u \in DOMAIN queried : u \in DOMAIN rows \cup raced

\* The row of a plugin being removed is gone for good, or could not be deleted.
Removed ==
    \A r \in halfway :
       /\ r.uuid <= given
       /\ r.op = "remove" /\ r.uuid \in DOMAIN rows => rows[r.uuid].name \in undead

Inductive == PluginTypeOK /\ Known /\ Snapshot /\ Removed /\ OneRowPerName /\ ListedIsRecorded

\* Nothing is recorded, nothing loaded.
LEMMA InductiveInit == PluginInit => Inductive
BY PluginAssumption DEF PluginInit, Inductive, PluginTypeOK, Known, Snapshot, Removed,
   OneRowPerName, ListedIsRecorded

------------------------------------------------------------------------------
\* Tables.

\* A table of records.
Table(t) == DOMAIN t \subseteq 1 .. given /\ t \in [DOMAIN t -> Record]

\* The type invariant in the terms of the tables.
LEMMA TypeByTables ==
    PluginTypeOK <=>
       /\ given \in 0 .. MaxPlugins /\ starts \in 1 .. MaxStarts
       /\ Table(rows) /\ Table(loaded) /\ Table(queried)
       /\ \A u, v \in DOMAIN loaded : loaded[u].name = loaded[v].name => u = v
       /\ boot \in {"query", "restore", "done"}
       /\ halfway \subseteq [op : {"remove", "toggle"}, uuid : UUID, status : Status]
       /\ early \subseteq PluginName /\ undead \subseteq PluginName /\ raced \subseteq UUID
BY DEF PluginTypeOK, Table

------------------------------------------------------------------------------
\* Every action keeps the invariant.

\* AddPlugin: a row and an entry of the table, under a number of their own.
LEMMA AddPluginStep ==
    ASSUME Inductive, NEW name \in PluginName, AddPlugin(name)
    PROVE  Inductive'
<1> DEFINE u == given + 1
           r == [name |-> name, enabled |-> 1]
           l == [name |-> name, enabled |-> 0]
<1> USE DEF Inductive
<1>1. /\ given' = u /\ u \in 1 .. MaxPlugins /\ given \in Nat
      /\ rows' = With(rows, u, r) /\ loaded' = With(loaded, u, l)
      /\ early' = IF boot = "done" THEN early ELSE early \cup {name}
      /\ UNCHANGED <<boot, queried, halfway, starts, undead, raced>>
      /\ \A v \in DOMAIN loaded : loaded[v].name # name
  BY PluginAssumption DEF AddPlugin, PluginTypeOK, Named
<1>2. /\ u \notin DOMAIN rows /\ u \notin DOMAIN loaded /\ u \notin DOMAIN queried
      /\ 1 .. given \subseteq 1 .. given'
  BY <1>1 DEF PluginTypeOK
<1>3. r \in Record /\ l \in Record /\ r.name = name /\ l.name = name
  BY DEF Record, Status
<1> HIDE DEF u, r, l
<1>4. /\ DOMAIN rows' = DOMAIN rows \cup {u} /\ rows'[u] = r
      /\ \A v \in DOMAIN rows : rows'[v] = rows[v]
      /\ rows' = [v \in DOMAIN rows' |-> rows'[v]]
  BY <1>1, <1>2 DEF With
<1>5. /\ DOMAIN loaded' = DOMAIN loaded \cup {u} /\ loaded'[u] = l
      /\ \A v \in DOMAIN loaded : loaded'[v] = loaded[v]
      /\ loaded' = [v \in DOMAIN loaded' |-> loaded'[v]]
  BY <1>1, <1>2 DEF With
<1>6. PluginTypeOK'
  <2>1. Table(rows)' /\ Table(loaded)' /\ Table(queried)'
    <3>1. Table(rows) /\ Table(loaded) /\ Table(queried)
      BY TypeByTables
    <3>2. \A v \in DOMAIN rows' : rows'[v] \in Record
      BY <1>3, <1>4, <3>1 DEF Table
    <3>3. \A v \in DOMAIN loaded' : loaded'[v] \in Record
      BY <1>3, <1>5, <3>1 DEF Table
    <3>4. DOMAIN rows' \subseteq 1 .. given' /\ DOMAIN loaded' \subseteq 1 .. given'
      BY <1>1, <1>2, <1>4, <1>5, <3>1 DEF Table
    <3> QED
      BY <1>1, <1>2, <1>4, <1>5, <3>1, <3>2, <3>3, <3>4 DEF Table
  <2>2. \A v, w \in DOMAIN loaded' : loaded'[v].name = loaded'[w].name => v = w
    BY <1>1, <1>3, <1>5, TypeByTables
  <2>3. given' \in 0 .. MaxPlugins /\ early' \subseteq PluginName
    BY <1>1, PluginAssumption, TypeByTables
  <2> QED
    BY <1>1, <2>1, <2>2, <2>3, TypeByTables DEF PluginTypeOK, Table
<1>7. Known'
  BY <1>1, <1>3, <1>4, <1>5 DEF Known, Excused
<1>8. Snapshot'
  BY <1>1, <1>4 DEF Snapshot, Excused
<1>9. Removed'
  <2>1. \A q \in halfway : q.uuid \in UUID /\ q.uuid # u /\ q.uuid <= given'
    BY <1>1, PluginAssumption DEF Removed, PluginTypeOK, UUID, u
  <2> QED
    BY <1>1, <1>4, <2>1 DEF Removed
<1>10. OneRowPerName'
  <2>1. ASSUME NEW v \in DOMAIN rows, rows[v].name = name PROVE name \in Excused'
    <3>1. CASE boot = "done"
      BY <1>1, <2>1, <3>1 DEF Known, Excused
    <3>2. CASE boot # "done"
      BY <1>1, <3>2 DEF Excused
    <3> QED
      BY <3>1, <3>2
  <2> QED
    BY <1>1, <1>3, <1>4, <2>1 DEF OneRowPerName, Excused
<1>11. ListedIsRecorded'
  BY <1>1, <1>4, <1>5 DEF ListedIsRecorded
<1> QED
  BY <1>6, <1>7, <1>8, <1>9, <1>10, <1>11

\* QueryPlugins: the start of the server reads the rows that are there.
LEMMA QueryPluginsStep ==
    ASSUME Inductive, QueryPlugins
    PROVE  Inductive'
<1> USE DEF Inductive
<1>1. /\ boot = "query" /\ boot' = "restore" /\ queried' = rows
      /\ UNCHANGED <<given, rows, loaded, halfway, starts, early, undead, raced>>
  BY DEF QueryPlugins
<1>2. PluginTypeOK'
  BY <1>1 DEF PluginTypeOK
<1>3. Known'
  BY <1>1 DEF Known, Excused
<1>4. Snapshot'
  BY <1>1 DEF Snapshot, OneRowPerName, Excused
<1>5. Removed' /\ OneRowPerName' /\ ListedIsRecorded'
  BY <1>1 DEF Removed, OneRowPerName, ListedIsRecorded
<1> QED
  BY <1>2, <1>3, <1>4, <1>5

\* A name that is not excused has one row in what was queried, and so takes it.
LEMMA RestorePluginInfoStep ==
    ASSUME Inductive, RestorePluginInfo
    PROVE  Inductive'
<1> DEFINE stay == {u \in DOMAIN loaded : Named(queried, loaded[u].name) = {}}
           come == {u \in DOMAIN queried : u = Latest(Named(queried, queried[u].name))}
<1> USE DEF Inductive
<1>1. /\ boot = "restore" /\ boot' = "done" /\ queried' = << >>
      /\ loaded' = [u \in stay \cup come |-> IF u \in come THEN queried[u] ELSE loaded[u]]
      /\ UNCHANGED <<given, rows, halfway, starts, early, undead, raced>>
  BY DEF RestorePluginInfo
<1>2. /\ stay \subseteq DOMAIN loaded /\ come \subseteq DOMAIN queried
      /\ \A u \in stay, v \in come : loaded[u].name # queried[v].name
      /\ \A u, v \in come : queried[u].name = queried[v].name => u = v
  BY DEF Named
<1>3. ASSUME NEW u \in DOMAIN rows, rows[u].name \notin Excused
      PROVE  u \in come /\ queried[u].name = rows[u].name
  <2>1. u \in DOMAIN queried /\ queried[u].name = rows[u].name
    BY <1>1, <1>3 DEF Known
  <2>2. Named(queried, queried[u].name) = {u}
    BY <1>3, <2>1 DEF Snapshot, Named
  <2>3. Latest({u}) = u
    <3>1. u <= u
      BY <2>1 DEF PluginTypeOK
    <3> QED
      BY <3>1 DEF Latest
  <2> QED
    BY <2>1, <2>2, <2>3
<1> HIDE DEF stay, come
<1>4. PluginTypeOK'
  <2>1. Table(rows) /\ Table(loaded) /\ Table(queried)
    BY TypeByTables
  <2>2. \A u \in DOMAIN loaded' : loaded'[u] \in Record
    BY <1>1, <1>2, <2>1 DEF Table
  <2>3. Table(loaded)'
    BY <1>1, <1>2, <2>1, <2>2 DEF Table
  <2>4. Table(rows)' /\ Table(queried)'
    BY <1>1, <2>1 DEF Table
  <2>5. \A u, v \in DOMAIN loaded :
           loaded[u].name = loaded[v].name => u = v
    BY TypeByTables
  <2>6. \A u, v \in DOMAIN loaded' : loaded'[u].name = loaded'[v].name => u = v
    BY <1>1, <1>2, <2>5
  <2> QED
    BY <1>1, <2>3, <2>4, <2>6, TypeByTables DEF PluginTypeOK, Table
<1>5. Known'
  BY <1>1, <1>3 DEF Known, Excused
<1>6. Snapshot'
  BY <1>1 DEF Snapshot
<1>7. Removed' /\ OneRowPerName'
  BY <1>1 DEF Removed, OneRowPerName
<1>8. ListedIsRecorded'
  BY <1>1, <1>2 DEF ListedIsRecorded, Snapshot
<1> QED
  BY <1>4, <1>5, <1>6, <1>7, <1>8

\* Restart: the table and the calls halfway are lost, the rows stay.
LEMMA RestartStep ==
    ASSUME Inductive, Restart
    PROVE  Inductive'
<1> USE DEF Inductive
<1>1. /\ starts' \in 1 .. MaxStarts
      /\ DOMAIN loaded' = {} /\ DOMAIN queried' = {} /\ halfway' = {} /\ boot' = "query"
      /\ UNCHANGED <<given, rows, early, undead, raced>>
  BY PluginAssumption DEF Restart, PluginTypeOK
<1>2. PluginTypeOK'
  BY <1>1 DEF PluginTypeOK, Restart
<1>3. Known' /\ Snapshot' /\ Removed' /\ OneRowPerName' /\ ListedIsRecorded'
  BY <1>1 DEF Known, Snapshot, Removed, OneRowPerName, ListedIsRecorded
<1> QED
  BY <1>2, <1>3

\* The row goes, or its name is noted.
LEMMA DeletePluginStep ==
    ASSUME Inductive, NEW u \in UUID, DeletePlugin(u)
    PROVE  Inductive'
<1> DEFINE q == [op |-> "remove", uuid |-> u, status |-> 0]
<1> USE DEF Inductive
<1>1. /\ u <= given /\ halfway' = halfway \cup {q}
      /\ raced' = IF boot = "done" THEN raced ELSE raced \cup {u}
      /\ UNCHANGED <<given, loaded, boot, queried, starts, early>>
  BY DEF DeletePlugin
<1>2. /\ DOMAIN rows' \subseteq DOMAIN rows
      /\ \A v \in DOMAIN rows' : rows'[v] = rows[v]
      /\ \A v \in DOMAIN rows \ {u} : v \in DOMAIN rows'
      /\ rows' = [v \in DOMAIN rows' |-> rows[v]]
      /\ undead \subseteq undead' /\ undead' \subseteq PluginName
      /\ u \in DOMAIN rows' => rows[u].name \in undead'
  BY DEF DeletePlugin, Without, PluginTypeOK, Record
<1>3. q.op = "remove" /\ q.uuid = u
      /\ q \in [op : {"remove", "toggle"}, uuid : UUID, status : Status]
  BY DEF Status
<1> HIDE DEF q
<1>4. PluginTypeOK'
  <2>1. Table(rows)'
    BY <1>1, <1>2, TypeByTables DEF Table
  <2> QED
    BY <1>1, <1>2, <1>3, <2>1 DEF PluginTypeOK, Table
<1>5. Known'
  BY <1>1, <1>2 DEF Known, Excused
<1>6. Snapshot'
  BY <1>1, <1>2 DEF Snapshot, Excused
<1>7. Removed'
  BY <1>1, <1>2, <1>3 DEF Removed
<1>8. OneRowPerName'
  BY <1>1, <1>2 DEF OneRowPerName
<1>9. ListedIsRecorded'
  BY <1>1, <1>2, <1>3 DEF ListedIsRecorded
<1> QED
  BY <1>4, <1>5, <1>6, <1>7, <1>8, <1>9

\* The map lets go of a plugin whose row is gone or noted.
LEMMA RemoveStep ==
    ASSUME Inductive, NEW r \in halfway, Remove(r)
    PROVE  Inductive'
<1> USE DEF Inductive
<1>1. /\ r.op = "remove" /\ halfway' = halfway \ {r}
      /\ DOMAIN loaded' = DOMAIN loaded \ {r.uuid}
      /\ \A v \in DOMAIN loaded' : loaded'[v] = loaded[v]
      /\ loaded' = [v \in DOMAIN loaded' |-> loaded[v]]
      /\ UNCHANGED <<given, rows, boot, queried, starts, early, undead, raced>>
  BY DEF Remove, Without
<1>2. PluginTypeOK'
  <2>1. Table(loaded)'
    BY <1>1, TypeByTables DEF Table
  <2> QED
    BY <1>1, <2>1 DEF PluginTypeOK, Table
<1>3. Known'
  BY <1>1 DEF Known, Excused, Removed
<1>4. Snapshot' /\ Removed' /\ OneRowPerName'
  BY <1>1 DEF Snapshot, Excused, Removed, OneRowPerName
<1>5. ListedIsRecorded'
  BY <1>1 DEF ListedIsRecorded
<1> QED
  BY <1>2, <1>3, <1>4, <1>5

\* Names stay as they are.
LEMMA UpdatePluginEnabledStep ==
    ASSUME Inductive, NEW u \in UUID, NEW enable \in Status, UpdatePluginEnabled(u, enable)
    PROVE  Inductive'
<1> DEFINE q == [op |-> "toggle", uuid |-> u, status |-> 1 - enable]
<1> USE DEF Inductive
<1>1. /\ u <= given /\ halfway' = halfway \cup {q}
      /\ rows' = IF u \in DOMAIN rows THEN [rows EXCEPT ![u].enabled = 1 - enable] ELSE rows
      /\ UNCHANGED <<given, loaded, boot, queried, starts, early, undead, raced>>
  BY DEF UpdatePluginEnabled
<1>2. /\ 1 - enable \in Status /\ q.op = "toggle" /\ q.uuid = u
      /\ q \in [op : {"remove", "toggle"}, uuid : UUID, status : Status]
  BY DEF Status
<1> HIDE DEF q
<1>3. /\ DOMAIN rows' = DOMAIN rows /\ rows' \in [DOMAIN rows -> Record]
      /\ \A v \in DOMAIN rows : rows'[v].name = rows[v].name
  BY <1>1, <1>2 DEF PluginTypeOK, Record
<1>4. PluginTypeOK'
  BY <1>1, <1>2, <1>3 DEF PluginTypeOK
<1>5. Known'
  BY <1>1, <1>3 DEF Known, Excused
<1>6. Snapshot'
  BY <1>1, <1>3 DEF Snapshot, Excused
<1>7. Removed'
  BY <1>1, <1>2, <1>3 DEF Removed
<1>8. OneRowPerName'
  BY <1>1, <1>3 DEF OneRowPerName
<1>9. ListedIsRecorded'
  BY <1>1, <1>3 DEF ListedIsRecorded
<1> QED
  BY <1>4, <1>5, <1>6, <1>7, <1>8, <1>9

\* UpdatePlugin: the row has been written, now the entry of the table is.
LEMMA UpdatePluginStep ==
    ASSUME Inductive, NEW r \in halfway, UpdatePlugin(r)
    PROVE  Inductive'
<1> USE DEF Inductive
<1>1. /\ r.op = "toggle" /\ halfway' = halfway \ {r} /\ r.status \in Status
      /\ UNCHANGED <<given, rows, boot, queried, starts, early, undead, raced>>
  BY DEF UpdatePlugin, PluginTypeOK
<1>2. /\ DOMAIN loaded' = DOMAIN loaded /\ loaded' \in [DOMAIN loaded -> Record]
      /\ \A v \in DOMAIN loaded : loaded'[v].name = loaded[v].name
  <2>1. CASE UNCHANGED loaded
    BY <2>1 DEF PluginTypeOK
  <2>2. ASSUME NEW f \in DOMAIN loaded, loaded' = [loaded EXCEPT ![f].enabled = r.status]
        PROVE  /\ DOMAIN loaded' = DOMAIN loaded /\ loaded' \in [DOMAIN loaded -> Record]
               /\ \A v \in DOMAIN loaded : loaded'[v].name = loaded[v].name
    BY <1>1, <2>2 DEF PluginTypeOK, Record
  <2> QED
    BY <2>1, <2>2 DEF UpdatePlugin
<1>3. PluginTypeOK'
  BY <1>1, <1>2 DEF PluginTypeOK
<1>4. Known'
  BY <1>1, <1>2 DEF Known, Excused
<1>5. Snapshot' /\ Removed' /\ OneRowPerName'
  BY <1>1 DEF Snapshot, Excused, Removed, OneRowPerName
<1>6. ListedIsRecorded'
  BY <1>1, <1>2 DEF ListedIsRecorded
<1> QED
  BY <1>3, <1>4, <1>5, <1>6

------------------------------------------------------------------------------

\* Every step keeps the invariant.
LEMMA InductiveStep == Inductive /\ [PluginNext]_pluginVars => Inductive'
<1> SUFFICES ASSUME Inductive, [PluginNext]_pluginVars PROVE Inductive'
  OBVIOUS
<1>1. CASE QueryPlugins
  BY <1>1, QueryPluginsStep
<1>2. CASE RestorePluginInfo
  BY <1>2, RestorePluginInfoStep
<1>3. CASE Restart
  BY <1>3, RestartStep
<1>4. ASSUME NEW name \in PluginName, AddPlugin(name) PROVE Inductive'
  BY <1>4, AddPluginStep
<1>5. ASSUME NEW u \in UUID, DeletePlugin(u) PROVE Inductive'
  BY <1>5, DeletePluginStep
<1>6. ASSUME NEW u \in UUID, NEW enable \in Status, UpdatePluginEnabled(u, enable)
      PROVE  Inductive'
  BY <1>6, UpdatePluginEnabledStep
<1>7. ASSUME NEW r \in halfway, Remove(r) PROVE Inductive'
  BY <1>7, RemoveStep
<1>8. ASSUME NEW r \in halfway, UpdatePlugin(r) PROVE Inductive'
  BY <1>8, UpdatePluginStep
<1>9. CASE UNCHANGED pluginVars
  BY <1>9 DEF pluginVars, Inductive, PluginTypeOK, Known, Excused, Snapshot, Removed,
     OneRowPerName, ListedIsRecorded
<1> QED
  BY <1>1, <1>2, <1>3, <1>4, <1>5, <1>6, <1>7, <1>8, <1>9 DEF PluginNext

\* The invariant holds in every state.
LEMMA InductiveAlways == PluginSpec => []Inductive
BY InductiveInit, InductiveStep, PTL DEF PluginSpec

\* The table has one row of a name, over any number of starts of the server,
\* unless the plugin was added before a start had restored the map, or its row
\* could not be deleted (Add, Remove, RestorePluginInfo).
THEOREM OneRow == PluginSpec => []OneRowPerName
<1>1. Inductive => OneRowPerName
  BY DEF Inductive
<1> QED
  BY <1>1, InductiveAlways, PTL

\* A plugin the server lists has its row, unless it is being removed or was
\* removed during a start (Add, Remove, RestorePluginInfo).
THEOREM Recorded == PluginSpec => []ListedIsRecorded
<1>1. Inductive => ListedIsRecorded
  BY DEF Inductive
<1> QED
  BY <1>1, InductiveAlways, PTL
=============================================================================
