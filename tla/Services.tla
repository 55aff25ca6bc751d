------------------------------- MODULE Services ------------------------------
(***************************************************************************)
(* Four services of the server that keep rows beside each other and share  *)
(* no state: scheduled tasks (CronTask), configuration files               *)
(* (ConfigHistory), plugins (PluginManager) and batches (Batches).  Since  *)
(* none reads or writes what another does, what holds of each one on its   *)
(* own holds of all together, and a behaviour is one of a single service,  *)
(* chosen at the start, with the others standing still.                    *)
(***************************************************************************)
EXTENDS CronTask, PluginManager, Sequences

CONSTANTS MaxFiles, MaxVersions, MaxServed, FormName, Text, \* of ConfigHistory
          Machine, Department, Root, Below, MaxRows, MaxBatches, \* of Batches
          MaxChosen, NoMachine

ASSUME FilesAssumption ==
    /\ MaxFiles \in Nat \ {0} /\ MaxVersions \in Nat \ {0} /\ MaxServed \in Nat
    /\ FormName \subseteq {"empty", "plain", "dash", "front", "back", "tail"}
    /\ Empty \notin Text

\* The departments below one are those of a tree, each of them once.
ASSUME BatchesAssumption ==
    /\ MaxRows \in Nat /\ MaxBatches \in Nat
    /\ Root \in Department /\ NoMachine \notin Machine
    /\ Below \in [Department -> Seq(Department)]
    /\ \A d \in Department : \A i, j \in DOMAIN Below[d] :
          Below[d][i] # d /\ (Below[d][i] = Below[d][j] => i = j)

VARIABLES part,
          saved, files, kept, history, past, serving, served, losing,
          inserted, member, asked, making, batches

fileVars == <<saved, files, kept, history, past, serving, served, losing>>
batchVars == <<inserted, member, asked, making, batches>>

F == INSTANCE ConfigHistory WITH excused <- losing, MaxRequests <- MaxServed
B == INSTANCE Batches WITH row <- member, request <- making

allVars == <<part, vars, fileVars, pluginVars, batchVars>>

ServicesInit ==
    /\ part \in {"cron", "files", "plugins", "batches"}
    /\ Init /\ F!Init /\ PluginInit /\ B!Init

CronStep == part = "cron" /\ Next /\ UNCHANGED <<part, fileVars, pluginVars, batchVars>>
FileStep == part = "files" /\ F!Next /\ UNCHANGED <<part, vars, pluginVars, batchVars>>
PluginStep == part = "plugins" /\ PluginNext /\ UNCHANGED <<part, vars, fileVars, batchVars>>
BatchStep == part = "batches" /\ B!Next /\ UNCHANGED <<part, vars, fileVars, pluginVars>>

ServicesNext == CronStep \/ FileStep \/ PluginStep \/ BatchStep

ServicesSpec == ServicesInit /\ [][ServicesNext]_allVars
------------------------------------------------------------------------------
(***************************************************************************)
(* Properties, beside those of CronTask and PluginManager.                 *)
(***************************************************************************)

\* The variables of the other services hold what the code can put in them.
ServicesTypeOK == F!TypeOK /\ PluginTypeOK /\ B!TypeOK

\* What a configuration file has held can be gone back to: see ConfigHistory
\* (service/file: Update, LastFileRollBack).
NoVersionLost == F!NoVersionLost

\* A file has one version that is marked as the latest: see ConfigHistory
\* (dao: SaveLatestFile, UpdateLastFile).
AtMostOneLatest == F!AtMostOneLatest

\* A broadcast to a batch addresses the machines it was made for: see Batches
\* (service/batch: CreateBatch; dao: BatchIds2UUIDs).
ReachesItsMachines == B!ReachesItsMachines
=============================================================================
