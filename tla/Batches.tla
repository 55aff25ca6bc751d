------------------------------- MODULE Batches -------------------------------
(***************************************************************************)
(* Batches: lists of row ids of machines, put together from departments or *)
(* from ids the page sends, and turned into UUIDs again when a file is     *)
(* broadcast.  The machines of the chosen departments are read department  *)
(* by department, while other requests move, delete and register machines. *)
(* The names and descriptions of batches, and changes of the tree of       *)
(* departments (module Organisation), are left out.                        *)
(***************************************************************************)
EXTENDS Naturals, FiniteSets, SequencesExt

CONSTANTS Machine,     \* UUIDs
          Department,
          Root,        \* the department a machine registers in
          Below,       \* the departments below one, in the order of the walk
          MaxRows,     \* bound: rows of machines ever inserted
          MaxBatches,  \* bound: batches ever asked for
          MaxChosen,   \* bound: departments chosen for a batch
          NoMachine    \* the empty UUID, not in Machine

Id == 1 .. MaxRows
NoRow == [id |-> 0, dept |-> Root]
NoList == [i \in Id |-> 0]
NoRequest == [departs |-> << >>, list |-> NoList, open |-> FALSE,
              cover |-> {}, nested |-> FALSE, stayed |-> {}, seen |-> {}]

VARIABLES
    inserted,  \* ids of machine rows given out so far
    row,       \* table machine_node: id and department of each machine
    asked,     \* batches asked for so far
    request,   \* a CreateBatch: the departments it still has to read and how
               \* often it has read each id; beside it, for the properties, the
               \* departments found below those chosen, whether some twice, the
               \* ids that have been in the same one of them all the time and
               \* those that were in one at a time
    batches    \* table batch

vars == <<inserted, row, asked, request, batches>>

Init ==
    /\ inserted = 0
    /\ row = [m \in Machine |-> NoRow]
    /\ asked = 0
    /\ request = NoRequest
    /\ batches = {}

Present(m) == row[m].id # 0
In(D) == {row[m].id : m \in {n \in Machine : Present(n) /\ row[n].dept \in D}}

------------------------------------------------------------------------------
\* The rows of machines, as other requests and the handshakes write them.

\* What an open request may see of a machine that changes.
Leaves(i) == [request EXCEPT !.stayed = @ \ {i}]
Comes(i, d) ==
    IF d \in request.cover THEN [Leaves(i) EXCEPT !.seen = @ \cup {i}] ELSE Leaves(i)

\* AddAgents2DB: a new row in the root department, with an id of its own.
AddAgent(m) ==
    /\ ~Present(m) /\ inserted < MaxRows
    /\ inserted' = inserted + 1
    /\ row' = [row EXCEPT ![m] = [id |-> inserted + 1, dept |-> Root]]
    /\ request' = Comes(inserted + 1, Root)
    /\ UNCHANGED <<asked, batches>>

ModifyMachineDepart(m, d) ==
    /\ Present(m) /\ row[m].dept # d
    /\ row' = [row EXCEPT ![m].dept = d]
    /\ request' = Comes(row[m].id, d)
    /\ UNCHANGED <<inserted, asked, batches>>

DeleteMachine(m) ==
    /\ Present(m)
    /\ row' = [row EXCEPT ![m] = NoRow]
    /\ request' = Leaves(row[m].id)
    /\ UNCHANGED <<inserted, asked, batches>>

------------------------------------------------------------------------------
\* Batches.

Tree(d) == {d} \cup ToSet(Below[d])

\* ReturnSpecifiedDepart: a department and those below it, less those below one
\* whose SubDepartId failed, which is logged and not returned.
Found(d, failed) ==
    LET missed == UNION {ToSet(Below[x]) : x \in failed}
    IN  <<d>> \o FlattenSeq([i \in DOMAIN Below[d] |->
                               IF Below[d][i] \in missed THEN << >> ELSE <<Below[d][i]>>])

\* Variant: the departments chosen, without those below them.
ChosenAlone(chosen, failed) == chosen

\* Departids: what is found of each of the departments chosen.
Departids(chosen, failed) ==
    FlattenSeq([n \in DOMAIN chosen |-> Found(chosen[n], failed[n])])

Batch(r) == [list |-> r.list, stayed |-> r.stayed, seen |-> r.seen, nested |-> r.nested]

\* CreateBatch with ids of machines, which are not looked up.
CreateOfMachines(S) ==
    /\ asked < MaxBatches /\ ~request.open
    /\ asked' = asked + 1
    /\ batches' = batches \cup {Batch([list |-> [i \in Id |-> IF i \in S THEN 1 ELSE 0],
                                     stayed |-> S, seen |-> S, nested |-> FALSE])}
    /\ UNCHANGED <<inserted, row, request>>

\* CreateBatch with departments: the statements of ReturnSpecifiedDepart, those
\* of some departments failing ...
CreateOfDeparts(chosen, failed) ==
    /\ asked < MaxBatches /\ ~request.open
    /\ \A n \in DOMAIN chosen : failed[n] \subseteq Tree(chosen[n])
    /\ asked' = asked + 1
    /\ LET Within(n) == ToSet(Found(chosen[n], failed[n]))
           cover == UNION {Within(n) : n \in DOMAIN chosen}
       IN  request' = [departs |-> Departids(chosen, failed), list |-> NoList, open |-> TRUE,
                       cover |-> cover, stayed |-> In(cover), seen |-> In(cover),
                       nested |-> \E n, k \in DOMAIN chosen :
                                     n < k /\ Within(n) \cap Within(k) # {}]
    /\ UNCHANGED <<inserted, row, batches>>

\* ... MachineList, one statement for each ...
MachineList ==
    /\ request.departs # << >>
    /\ LET found == In({Head(request.departs)})
       IN  request' = [request EXCEPT !.departs = Tail(@),
                          !.list = [i \in Id |-> IF i \in found THEN @[i] + 1 ELSE @[i]]]
    /\ UNCHANGED <<inserted, row, asked, batches>>

\* ... and the row, unless there are no machines or a statement has failed.
CreateBatchMessage ==
    /\ request.open /\ request.departs = << >>
    /\ batches' = IF request.list = NoList THEN batches
                  ELSE batches \cup {Batch(request)}
    /\ request' = NoRequest
    /\ UNCHANGED <<inserted, row, asked>>

CreateFails ==
    /\ request.open
    /\ request' = NoRequest
    /\ UNCHANGED <<inserted, row, asked, batches>>

DeleteBatch(b) ==
    /\ batches' = batches \ {b}
    /\ UNCHANGED <<inserted, row, asked, request>>

\* BatchIds2UUIDs: how often a broadcast to the batch addresses a UUID, and the
\* empty one in the place of each id without a row and of each whose SELECT
\* failed, which is logged.  (When the SELECT of the batch fails, the list is
\* one id without a row: no machine is addressed, as if all had failed.)
Owner(i) == IF i \in In(Department) THEN CHOOSE m \in Machine : row[m].id = i ELSE NoMachine
Addressed(b, failed) ==
    [m \in Machine \cup {NoMachine} |->
        SumFunctionOnSet(b.list,
            {i \in Id : (IF i \in failed THEN NoMachine ELSE Owner(i)) = m})]

Next ==
    \/ \E m \in Machine : \/ AddAgent(m) \/ DeleteMachine(m)
                          \/ \E d \in Department : ModifyMachineDepart(m, d)
    \/ \E S \in SUBSET (1 .. inserted) \ {{}} : CreateOfMachines(S)
    \/ \E n \in 1 .. MaxChosen :
          \E chosen \in [1 .. n -> Department], failed \in [1 .. n -> SUBSET Department] :
             CreateOfDeparts(chosen, failed)
    \/ MachineList \/ CreateBatchMessage \/ CreateFails
    \/ \E b \in batches : DeleteBatch(b)

Spec == Init /\ [][Next]_vars
------------------------------------------------------------------------------
(***************************************************************************)
(* Properties.                                                             *)
(***************************************************************************)

\* The variables hold what the code can put in them.
TypeOK ==
    /\ inserted \in 0 .. MaxRows /\ asked \in 0 .. MaxBatches
    /\ row \in [Machine -> [id : 0 .. inserted, dept : Department]]
    /\ request.departs \in Seq(Department) /\ request.list \in [Id -> Nat]
    /\ \A r \in {request} \cup batches : r.stayed \subseteq Id /\ r.seen \subseteq Id
    /\ \A b \in batches : b.list \in [Id -> Nat]

\* A broadcast to a batch reaches the machines it was made for: one that was in
\* a department found all the time the batch was made, and whose row is still
\* the same, is addressed, and once unless the departments chosen lie in one
\* another; one that never was in them is not addressed, whatever moves,
\* deletions and registrations came in between.  Two kinds of failed statements
\* take machines out and are not told to anyone: SubDepartId when the batch is
\* made (its departments are then not found) and the SELECT of the machine when
\* it is addressed.  They take out no other machine, and add none.
ReachesItsMachines ==
    \A b \in batches, m \in Machine, failed \in SUBSET Id :
       LET times == Addressed(b, failed)[m]
       IN  /\ row[m].id \in b.stayed \ failed => times >= 1 /\ (~b.nested => times = 1)
           /\ times > 0 => row[m].id \in b.seen
=============================================================================
