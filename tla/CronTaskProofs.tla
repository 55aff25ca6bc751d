---------------------------- MODULE CronTaskProofs ---------------------------
(***************************************************************************)
(* Proofs about CronTask, for every number of tasks, requests, restarts    *)
(* and requests served at a time.                                          *)
(***************************************************************************)
EXTENDS CronTask, TLAPS

Busy(s) == request[s].pc # "idle"

\* A handler stops a task only as the first or second step of these requests.
Stopping == \A s \in Slot : request[s].pc = "stop" => request[s].op \in {"delete", "update", "pause"}

\* Nothing is known of a task that was not created yet.
Fresh ==
    /\ \A t \in Task : t > made => row[t] = NoRow /\ job[t] = NoJob
    /\ \A s \in Slot : Busy(s) => request[s].task <= made

\* Two requests open on a task overlap.
Alone ==
    \A s, z \in Slot :
       Busy(s) /\ Busy(z) /\ s # z /\ request[s].task = request[z].task
          => request[s].task \in overlapped

\* A row is dropped when its task is stopped, and stays so.
Erasing ==
    \A s \in Slot :
       request[s].pc = "erase" => job[request[s].task] = NoJob \/ request[s].task \in overlapped

\* A task is started that has a row; where there was none, there is nothing to
\* start.
Starting ==
    \A s \in Slot :
       request[s].pc = "start" /\ request[s].work # Blank
          => row[request[s].task].exists \/ request[s].task \in overlapped

Inductive == TypeOK /\ Stopping /\ Fresh /\ Alone /\ Erasing /\ Starting /\ NoOrphanJob

\* What a row holds after an update is a work, the form itself if it is whole.
LEMMA MergedFacts ==
    ASSUME NEW old \in Work, NEW w \in Work
    PROVE  Merged(old, w) \in Work /\ (Whole(w) => Merged(old, w) = w)
BY DEF Merged, Whole, Work

\* Id2CronInfo reads a work, also without a row.
LEMMA BlankIsWork ==
    Blank \in Work /\ NoJob \in Work /\ NoRow.work = Blank /\ ~NoRow.exists
BY DEF Blank, Work, NoRow, NoJob

\* No task and no request yet.
LEMMA InductiveInit == Init => Inductive
BY CronAssumption, BlankIsWork DEF Init, Inductive, TypeOK, Stopping, Fresh, Alone, Erasing, Starting,
   NoOrphanJob, Task, Row, NoRow, NoJob, Request, Idle, Busy

------------------------------------------------------------------------------

PC == {"idle", "read", "stop", "start", "erase"}
Op == {"none", "create", "delete", "update", "pause", "resume"}

\* A request has come to slot s; the others are as they were, up to clear, and
\* those on the same task have their task among the overlapped ones.
Came(s, op, t, w, pc) ==
    /\ request' \in [Slot -> Request]
    /\ requests' \in 0 .. MaxRequests
    /\ overlapped' \subseteq Task /\ overlapped \subseteq overlapped'
    /\ \A z \in Slot \ {s} : /\ request'[z].pc = request[z].pc
                             /\ request'[z].op = request[z].op
                             /\ request'[z].task = request[z].task
                             /\ request'[z].work = request[z].work
                             /\ Busy(z) /\ request[z].task = t => t \in overlapped'
    /\ request'[s].pc = pc
    /\ pc # "idle" => /\ request'[s].op = op /\ request'[s].task = t
                      /\ request'[s].work = w

\* That is what Arrive does.
LEMMA ArriveFacts ==
    ASSUME TypeOK, NEW s \in Slot, NEW op \in Op, NEW t \in Task, NEW w \in Work,
           NEW pc \in PC, NEW fine \in BOOLEAN, Arrive(s, op, t, w, pc, fine)
    PROVE  Came(s, op, t, w, pc)
<1> DEFINE new == [op |-> op, task |-> t, work |-> w, pc |-> pc, clear |-> fine /\ Open(t) = {}]
<1> USE DEF TypeOK, Busy
<1>1. new \in Request
  BY DEF Request, PC, Op
<1>2. \A z \in Slot : [request[z] EXCEPT !.clear = FALSE] \in Request
  BY DEF Request
<1>3. s \notin Open(t)
  BY DEF Arrive, Open
<1>4. request' = [z \in Slot |-> IF z = s /\ pc # "idle" THEN new
                                 ELSE IF z \in Open(t) THEN [request[z] EXCEPT !.clear = FALSE]
                                 ELSE request[z]]
  BY DEF Arrive
<1> HIDE DEF new
<1>5. request' \in [Slot -> Request]
  BY <1>1, <1>2, <1>4
<1>6. requests' \in 0 .. MaxRequests
  BY CronAssumption DEF Arrive
<1>7. overlapped' \subseteq Task /\ overlapped \subseteq overlapped'
  BY DEF Arrive
<1>8. ASSUME NEW z \in Slot \ {s}
      PROVE  /\ request'[z].pc = request[z].pc
             /\ request'[z].op = request[z].op
             /\ request'[z].task = request[z].task
             /\ request'[z].work = request[z].work
             /\ Busy(z) /\ request[z].task = t => t \in overlapped'
  <2>1. request'[z] = IF z \in Open(t) THEN [request[z] EXCEPT !.clear = FALSE] ELSE request[z]
    BY <1>4
  <2>2. request[z] \in Request
    OBVIOUS
  <2>3. Busy(z) /\ request[z].task = t => t \in overlapped'
    BY DEF Arrive, Open
  <2> QED
    BY <2>1, <2>2, <2>3 DEF Request
<1>9. request'[s] = IF pc # "idle" THEN new ELSE request[s]
  BY <1>3, <1>4
<1>10. request[s].pc = "idle"
  BY DEF Arrive
<1> QED
  BY <1>5, <1>6, <1>7, <1>8, <1>9, <1>10 DEF new, Came

\* Where a handler goes on, only its pc changes.
LEMMA GoOnFacts ==
    ASSUME TypeOK, NEW s \in Slot, NEW pc \in PC, GoOn(s, pc)
    PROVE  /\ request' \in [Slot -> Request]
           /\ \A z \in Slot \ {s} : request'[z] = request[z]
           /\ request'[s].pc = pc /\ request'[s].op = request[s].op
           /\ request'[s].task = request[s].task /\ request'[s].work = request[s].work
BY DEF GoOn, TypeOK, Request, PC

\* A handler that has answered leaves its slot idle.
LEMMA LeaveFacts ==
    ASSUME TypeOK, NEW s \in Slot, Leave(s)
    PROVE  /\ request' \in [Slot -> Request]
           /\ \A z \in Slot \ {s} : request'[z] = request[z]
           /\ request'[s].pc = "idle"
<1>1. Idle \in Request
  BY CronAssumption, BlankIsWork DEF Idle, Request, Task
<1>2. request' = [request EXCEPT ![s] = Idle]
  BY DEF Leave
<1> QED
  BY <1>1, <1>2 DEF Idle, TypeOK

\* A request that comes shares its task only with those it overlaps.
LEMMA CameAlone ==
    ASSUME Alone, NEW s \in Slot, NEW op, NEW t, NEW w, NEW pc, Came(s, op, t, w, pc)
    PROVE  Alone'
BY DEF Alone, Came, Busy

\* A handler goes on with its task or leaves, the other slots are as they were.
Went(s) ==
    /\ request' \in [Slot -> Request]
    /\ \A z \in Slot \ {s} : request'[z] = request[z]
    /\ \/ request'[s].pc = "idle"
       \/ /\ Busy(s) /\ request'[s].task = request[s].task
          /\ request'[s].op = request[s].op

\* So nothing comes to overlap.
LEMMA WentAlone ==
    ASSUME Alone, NEW s \in Slot, Went(s), UNCHANGED overlapped
    PROVE  Alone'
BY DEF Alone, Went, Busy

\* A handler does not change the task it works on, and no task is created.
LEMMA WentFresh ==
    ASSUME Fresh, NEW s \in Slot, Went(s), UNCHANGED made
    PROVE  \A z \in Slot : Busy(z)' => request'[z].task <= made'
BY DEF Fresh, Went, Busy

------------------------------------------------------------------------------
\* Every action keeps the invariant.

\* CreatCron: a new task gets the next number, which no request and no entry has.
LEMMA CreatCronStep ==
    ASSUME Inductive, NEW s \in Slot, NEW w \in Work, NEW on \in BOOLEAN, CreatCron(s, w, on)
    PROVE  Inductive'
<1> DEFINE t == made + 1
           pc == IF on THEN "read" ELSE "idle"
<1> USE DEF Inductive
<1>1. /\ t \in Task /\ t > made
      /\ made' = t
      /\ row' = [row EXCEPT ![t] = [work |-> w, on |-> on, exists |-> TRUE]]
      /\ UNCHANGED <<job, restarts, excused>>
  BY CronAssumption DEF CreatCron, TypeOK, Task
<1>2. Came(s, "create", t, w, pc)
  <2>1. Arrive(s, "create", t, w, pc, TRUE)
    BY DEF CreatCron
  <2>2. pc \in PC /\ "create" \in Op /\ w \in Work
    BY DEF PC, Op
  <2> HIDE DEF t, pc
  <2>3. QED
    BY <1>1, <2>1, <2>2, ArriveFacts
<1>3. pc \in {"read", "idle"}
  OBVIOUS
<1> HIDE DEF t, pc
<1>4. TypeOK'
  <2>1. made' \in 0 .. MaxTasks
    BY <1>1, CronAssumption DEF Task
  <2>2. row' \in [Task -> Row]
    BY <1>1 DEF TypeOK, Row
  <2> QED
    BY <1>1, <1>2, <2>1, <2>2 DEF TypeOK, Came
<1>5. Stopping'
  BY <1>2, <1>3 DEF Stopping, Came
<1>6. Fresh'
  <2>1. \A u \in Task : u > t => u > made /\ u # t
    BY <1>1, CronAssumption DEF TypeOK, Task
  <2>2. \A u \in Task : u > made' => row'[u] = NoRow /\ job'[u] = NoJob
    BY <1>1, <2>1 DEF Fresh, TypeOK
  <2>3. \A z \in Slot : Busy(z)' => request'[z].task <= made'
    <3> SUFFICES ASSUME NEW z \in Slot, Busy(z)' PROVE request'[z].task <= made'
      OBVIOUS
    <3>1. CASE z = s
      BY <1>1, <1>2, <3>1, CronAssumption DEF Came, Busy, Task, TypeOK
    <3>2. CASE z # s
      <4>1. request[z].task <= made /\ request[z].task \in Task
        BY <1>2, <3>2 DEF Fresh, Came, Busy, TypeOK, Request
      <4>2. request'[z].task = request[z].task
        BY <1>2, <3>2 DEF Came
      <4> QED
        BY <1>1, <4>1, <4>2, CronAssumption DEF TypeOK, Task, t
    <3> QED
      BY <3>1, <3>2
  <2> QED
    BY <2>2, <2>3 DEF Fresh
<1>7. Alone'
  BY <1>2, CameAlone
<1>8. Erasing'
  BY <1>1, <1>2, <1>3 DEF Erasing, Came, Busy
<1>9. Starting'
  BY <1>1, <1>2, <1>3 DEF Starting, Came, Busy, TypeOK, Row, Request
<1>10. NoOrphanJob'
  BY <1>1, <1>2 DEF NoOrphanJob, Came, TypeOK
<1> QED
  BY <1>4, <1>5, <1>6, <1>7, <1>8, <1>9, <1>10
\* A request on a task that was created before: what all of those have in
\* common, whatever becomes of the row.
LEMMA CameStep ==
    ASSUME Inductive, NEW s \in Slot, NEW op \in Op, NEW t \in Task, NEW w \in Work,
           NEW pc \in {"idle", "read", "stop"}, NEW fine \in BOOLEAN,
           Arrive(s, op, t, w, pc, fine), t <= made, pc = "stop" => op \in {"delete", "update", "pause"},
           UNCHANGED <<made, job, restarts>>, excused' \subseteq Task,
           row' \in [Task -> Row],
           \A u \in Task : row'[u].exists = row[u].exists,
           \A u \in Task \ {t} : row'[u] = row[u]
    PROVE  Inductive'
<1> USE DEF Inductive
<1>1. Came(s, op, t, w, pc)
  BY ArriveFacts DEF PC
<1>2. TypeOK'
  BY <1>1 DEF TypeOK, Came
<1>3. Stopping'
  BY <1>1 DEF Stopping, Came
<1>4. Fresh'
  <2>1. \A u \in Task : u > made' => row'[u] = NoRow /\ job'[u] = NoJob
    BY CronAssumption DEF Fresh, TypeOK, Task
  <2>2. \A z \in Slot : Busy(z)' => request'[z].task <= made'
    BY <1>1 DEF Fresh, Came, Busy
  <2> QED
    BY <2>1, <2>2 DEF Fresh
<1>5. Alone'
  BY <1>1, CameAlone
<1>6. Erasing'
  BY <1>1 DEF Erasing, Came, Busy
<1>7. Starting'
  BY <1>1 DEF Starting, Came, Busy, TypeOK, Request
<1>8. NoOrphanJob'
  BY <1>1 DEF NoOrphanJob, Came
<1> QED
  BY <1>2, <1>3, <1>4, <1>5, <1>6, <1>7, <1>8

\* DeleteCronTask: a request arrives that first stops the task.
LEMMA DeleteCronTaskStep ==
    ASSUME Inductive, NEW s \in Slot, NEW t \in Task, DeleteCronTask(s, t)
    PROVE  Inductive'
<1>1. /\ t <= made /\ Arrive(s, "delete", t, Blank, "stop", TRUE)
      /\ UNCHANGED <<made, row, job, restarts, excused>>
  BY DEF DeleteCronTask
<1>2. row' \in [Task -> Row] /\ excused' \subseteq Task
  BY <1>1 DEF Inductive, TypeOK
<1> QED
  BY <1>1, <1>2, BlankIsWork, CameStep DEF Op

\* The row an update writes is there before and after.
LEMMA UpdateCronStep ==
    ASSUME Inductive, NEW s \in Slot, NEW t \in Task, NEW w \in Work, NEW on \in BOOLEAN,
           UpdateCron(s, t, w, on)
    PROVE  Inductive'
<1> DEFINE pc == IF on THEN "stop" ELSE "idle"
<1>1. PICK saved \in BOOLEAN :
         /\ row' = IF Written(t, saved)
                   THEN [row EXCEPT ![t] = [work |-> Merged(row[t].work, w),
                                            on |-> on, exists |-> TRUE]]
                   ELSE row
         /\ Arrive(s, "update", t, w, pc, saved /\ Whole(w))
  BY DEF UpdateCron
<1>2. /\ t <= made /\ UNCHANGED <<made, job, restarts>>
      /\ excused' = IF on THEN excused ELSE excused \cup {t}
  BY DEF UpdateCron
<1>3. pc \in {"idle", "read", "stop"}
  OBVIOUS
<1> HIDE DEF pc
<1>4. /\ row' \in [Task -> Row]
      /\ \A u \in Task : row'[u].exists = row[u].exists
      /\ \A u \in Task \ {t} : row'[u] = row[u]
  <2>1. row[t].exists => Merged(row[t].work, w) \in Work
    <3>1. row[t] \in Row
      BY DEF Inductive, TypeOK
    <3> QED
      BY <3>1, MergedFacts, BlankIsWork DEF Row
  <2> QED
    BY <1>1, <2>1 DEF Written, Inductive, TypeOK, Row
<1>5. excused' \subseteq Task
  BY <1>2 DEF Inductive, TypeOK
<1> QED
  BY <1>1, <1>2, <1>3, <1>4, <1>5, CameStep DEF Op

\* Nor does a change of its status.
LEMMA CronTaskStatusStep ==
    ASSUME Inductive, NEW s \in Slot, NEW t \in Task, NEW status \in BOOLEAN,
           CronTaskStatus(s, t, status)
    PROVE  Inductive'
<1>1. PICK saved \in BOOLEAN :
         /\ row' = IF Written(t, saved) THEN FlipStatus(t, status) ELSE row
         /\ IF status THEN Arrive(s, "pause", t, Blank, "stop", saved)
                      ELSE Arrive(s, "resume", t, Blank, "read", saved)
  BY DEF CronTaskStatus
<1>2. t <= made /\ UNCHANGED <<made, job, restarts, excused>>
  BY DEF CronTaskStatus
<1>3. FlipStatus(t, status) = [row EXCEPT ![t].on = ~status]
  BY DEF FlipStatus
<1>4. row[t] \in Row /\ row \in [Task -> Row]
  BY DEF Inductive, TypeOK
<1> DEFINE shown == ~status
           flipped == [row[t] EXCEPT !.on = shown]
<1>a. shown \in BOOLEAN
  OBVIOUS
<1> HIDE DEF shown
<1>5. row[t].exists => flipped \in Row /\ flipped.exists = row[t].exists
  <2> SUFFICES ASSUME row[t].exists PROVE flipped \in Row /\ flipped.exists = row[t].exists
    OBVIOUS
  <2>1. row[t] \in [work : Work, on : BOOLEAN, exists : {TRUE}]
    <3>1. NoRow.exists = FALSE
      BY DEF NoRow
    <3>2. row[t] # NoRow
      BY <3>1
    <3> QED
      BY <1>4, <3>2 DEF Row
  <2>2. flipped \in [work : Work, on : BOOLEAN, exists : {TRUE}]
    BY <2>1, <1>a
  <2> QED
    BY <2>1, <2>2 DEF Row
<1> HIDE DEF flipped
<1>6. /\ row' \in [Task -> Row]
      /\ \A u \in Task : row'[u].exists = row[u].exists
      /\ \A u \in Task \ {t} : row'[u] = row[u]
  <2>1. CASE Written(t, saved)
    <3>1. row' = [row EXCEPT ![t] = flipped]
      BY <1>1, <1>3, <2>1, <1>4 DEF flipped, shown
    <3> QED
      BY <2>1, <3>1, <1>4, <1>5 DEF Written
  <2>2. CASE ~Written(t, saved)
    BY <1>1, <1>4, <2>2
  <2> QED
    BY <2>1, <2>2
<1>7. excused' \subseteq Task
  BY <1>2 DEF Inductive, TypeOK
<1> QED
  BY <1>1, <1>2, <1>6, <1>7, BlankIsWork, CameStep DEF Op

------------------------------------------------------------------------------
\* Steps of a handler.

\* The row goes of a task that runs no more, unless another request is at it.
LEMMA DeleteTaskStep ==
    ASSUME Inductive, NEW s \in Slot, DeleteTask(s)
    PROVE  Inductive'
<1> DEFINE t == request[s].task
<1> USE DEF Inductive
<1>1. /\ request[s].pc = "erase" /\ Busy(s) /\ t \in Task
      /\ row' = [row EXCEPT ![t] = NoRow] \/ UNCHANGED row
      /\ Leave(s) /\ excused' \subseteq Task
      /\ UNCHANGED <<made, job, requests, restarts, overlapped>>
  BY DEF DeleteTask, Succeed, Leave, TypeOK, Request, Busy
<1>2. Went(s) /\ request'[s].pc = "idle"
  BY <1>1, LeaveFacts DEF Went
<1> HIDE DEF t
<1>3. row' \in [Task -> Row]
  BY <1>1 DEF TypeOK, Row
<1>4. TypeOK'
  BY <1>1, <1>2, <1>3 DEF TypeOK, Went
<1>5. Stopping'
  BY <1>2 DEF Stopping, Went
<1>6. Fresh'
  BY <1>1, <1>2, WentFresh DEF Fresh, TypeOK
<1>7. Alone'
  BY <1>1, <1>2, WentAlone
<1>8. Erasing'
  BY <1>1, <1>2 DEF Erasing, Went
<1>9. Starting'
  <2> SUFFICES ASSUME NEW z \in Slot, request'[z].pc = "start", request'[z].work # Blank,
                      request'[z].task \notin overlapped
               PROVE  row'[request'[z].task].exists
    BY <1>1 DEF Starting
  <2>1. z # s /\ request'[z] = request[z] /\ Busy(z)
    BY <1>2 DEF Went, Busy
  <2>2. request[z].task # t
    BY <1>1, <2>1 DEF Alone, t
  <2>3. row[request[z].task].exists /\ request[z].task \in Task
    BY <2>1 DEF Starting, TypeOK, Request
  <2> QED
    BY <1>1, <2>1, <2>2, <2>3 DEF TypeOK
<1>10. NoOrphanJob'
  <2>1. job[t] = NoJob \/ t \in overlapped
    BY <1>1 DEF Erasing, t
  <2> QED
    BY <1>1, <2>1 DEF NoOrphanJob, TypeOK
<1> QED
  BY <1>4, <1>5, <1>6, <1>7, <1>8, <1>9, <1>10

\* The expression and command of the row, or nothing to start.
LEMMA Id2CronInfoStep ==
    ASSUME Inductive, NEW s \in Slot, Id2CronInfo(s)
    PROVE  Inductive'
<1> DEFINE t == request[s].task
<1> USE DEF Inductive
<1>1. /\ request[s].pc = "read" /\ Busy(s) /\ t \in Task
      /\ request' = [request EXCEPT ![s].work = row[t].work, ![s].pc = "start"]
      /\ UNCHANGED <<made, row, job, requests, restarts, overlapped, excused>>
  BY DEF Id2CronInfo, TypeOK, Request, Busy
<1>2. row[t].work \in Work /\ (row[t].work # Blank => row[t].exists)
  <2>1. row[t] \in Row
    BY <1>1 DEF TypeOK
  <2>2. CASE row[t] = NoRow
    BY <2>2, BlankIsWork
  <2>3. CASE row[t] \in [work : Work, on : BOOLEAN, exists : {TRUE}]
    BY <2>3
  <2> QED
    BY <2>1, <2>2, <2>3 DEF Row
<1>3. /\ Went(s) /\ request'[s].pc = "start"
      /\ request'[s].task = t /\ request'[s].work = row[t].work
  BY <1>1, <1>2 DEF Went, TypeOK, Request, Busy
<1> HIDE DEF t
<1>4. TypeOK'
  BY <1>1, <1>3 DEF TypeOK, Went
<1>5. Stopping'
  BY <1>3 DEF Stopping, Went
<1>6. Fresh'
  BY <1>1, <1>3, WentFresh DEF Fresh
<1>7. Alone'
  BY <1>1, <1>3, WentAlone
<1>8. Erasing'
  BY <1>1, <1>3 DEF Erasing, Went
<1>9. Starting'
  BY <1>1, <1>2, <1>3 DEF Starting, Went
<1>10. NoOrphanJob'
  BY <1>1 DEF NoOrphanJob
<1> QED
  BY <1>4, <1>5, <1>6, <1>7, <1>8, <1>9, <1>10

\* A call to the agent: the handler goes on to pc or leaves, and the task is
\* stopped, or started with a row or an overlap, or left as it was.  Where it
\* goes on to erase the row, the task is stopped; where it goes on to start
\* the task, the row is there.
LEMMA CallStep ==
    ASSUME Inductive, NEW s \in Slot, Went(s), request'[s].pc \in {"idle", "erase", "start"},
           UNCHANGED <<made, row, requests, restarts, overlapped>>, excused' \subseteq Task,
           NEW t \in Task, t = request[s].task, Busy(s),
           job' \in [Task -> Work \cup {Cut}],
           \A u \in Task \ {t} : job'[u] = job[u],
           job'[t] \in {NoJob, job[t]} \/ row[t].exists \/ t \in overlapped,
           request'[s].pc = "erase" => job'[t] = NoJob,
           request'[s].pc = "start" => row[t].exists \/ t \in overlapped
    PROVE  Inductive'
<1> USE DEF Inductive
<1>1. t <= made /\ made' = made /\ overlapped' = overlapped /\ row' = row
  BY DEF Fresh
<1>2. TypeOK'
  BY DEF TypeOK, Went
<1>3. Stopping'
  BY DEF Stopping, Went
<1>4. Fresh'
  <2>1. \A u \in Task : u > made => u # t
    BY <1>1, CronAssumption DEF Task, TypeOK
  <2> QED
    BY <1>1, <2>1, WentFresh DEF Fresh
<1>5. Alone'
  BY <1>1, WentAlone
<1>6. Erasing'
  <2> SUFFICES ASSUME NEW z \in Slot, request'[z].pc = "erase", request'[z].task \notin overlapped
               PROVE  job'[request'[z].task] = NoJob
    BY <1>1 DEF Erasing
  <2>1. CASE z = s
    BY <2>1 DEF Went
  <2>2. CASE z # s
    <3>1. request'[z] = request[z] /\ Busy(z)
      BY <2>2 DEF Went, Busy
    <3>2. request[z].task # t /\ request[z].task \in Task
      BY <2>2, <3>1 DEF Alone, TypeOK, Request
    <3> QED
      BY <3>1, <3>2 DEF Erasing
  <2> QED
    BY <2>1, <2>2
<1>7. Starting'
  BY <1>1 DEF Starting, Went
<1>8. NoOrphanJob'
  BY <1>1 DEF NoOrphanJob
<1> QED
  BY <1>2, <1>3, <1>4, <1>5, <1>6, <1>7, <1>8

\* A task that is stopped had a row, or requests overlapped on it.
LEMMA StopAndDelStep ==
    ASSUME Inductive, NEW s \in Slot, StopAndDel(s)
    PROVE  Inductive'
<1> DEFINE t == request[s].task
<1> USE DEF Inductive
<1>1. /\ request[s].pc = "stop" /\ Busy(s) /\ t \in Task
      /\ job[t] # NoJob /\ job' = [job EXCEPT ![t] = NoJob]
      /\ request[s].op \in {"delete", "update", "pause"}
      /\ UNCHANGED <<made, row, requests, restarts, overlapped>>
  BY DEF StopAndDel, DeleteByID, TypeOK, Request, Busy, Stopping
<1>2. row[t].exists \/ t \in overlapped
  BY <1>1 DEF NoOrphanJob
<1>3. Went(s) /\ request'[s].pc \in {"idle", "erase", "start"} /\ excused' \subseteq Task
  <2>1. CASE request[s].op = "delete"
    <3>1. GoOn(s, "erase") /\ UNCHANGED excused
      BY <2>1 DEF StopAndDel
    <3> QED
      BY <1>1, <3>1, GoOnFacts DEF Went, PC, TypeOK
  <2>2. CASE request[s].op = "update"
    <3>1. GoOn(s, "start") /\ UNCHANGED excused
      BY <2>2 DEF StopAndDel
    <3> QED
      BY <1>1, <3>1, GoOnFacts DEF Went, PC, TypeOK
  <2>3. CASE request[s].op = "pause"
    <3>1. Succeed(s)
      BY <2>3 DEF StopAndDel
    <3> QED
      BY <1>1, <3>1, LeaveFacts DEF Went, Succeed, TypeOK
  <2> QED
    BY <1>1, <2>1, <2>2, <2>3
<1>4. /\ job' \in [Task -> Work \cup {Cut}] /\ job'[t] = NoJob
      /\ \A u \in Task \ {t} : job'[u] = job[u]
  BY <1>1, BlankIsWork DEF TypeOK
<1> HIDE DEF t
<1> QED
  BY <1>1, <1>2, <1>3, <1>4, CallStep DEF t

\* What AddByFunc starts.
LEMMA AddByFuncFacts ==
    ASSUME Inductive, NEW s \in Slot, request[s].pc = "start", NEW t \in Task,
           t = request[s].task, AddByFunc(t, request[s].work)
    PROVE  /\ job' \in [Task -> Work \cup {Cut}]
           /\ \A u \in Task \ {t} : job'[u] = job[u]
           /\ row[t].exists \/ t \in overlapped
<1>1. request[s].work \in Work
  BY DEF Inductive, TypeOK, Request
<1>2. Parsed(request[s].work) \in Work \cup {Cut}
  BY <1>1 DEF Parsed
<1> QED
  BY <1>2 DEF Inductive, TypeOK, Starting, AddByFunc, Blank

\* CronStart: the engine of the agent gets an entry.
LEMMA CronStartStep ==
    ASSUME Inductive, NEW s \in Slot, CronStart(s)
    PROVE  Inductive'
<1> DEFINE t == request[s].task
<1>1. /\ request[s].pc = "start" /\ AddByFunc(t, request[s].work) /\ Succeed(s)
      /\ t \in Task /\ Busy(s) /\ TypeOK
      /\ UNCHANGED <<made, row, requests, restarts, overlapped>>
  BY DEF CronStart, Inductive, TypeOK, Request, Busy
<1>2. Leave(s) /\ excused' \subseteq Task
  BY <1>1 DEF Succeed, TypeOK
<1>3. Went(s) /\ request'[s].pc = "idle"
  BY <1>1, <1>2, LeaveFacts DEF Went
<1> HIDE DEF t
<1> QED
  BY <1>1, <1>2, <1>3, AddByFuncFacts, CallStep DEF t

\* CallFails: the task of the request is excused, and the request ends.
LEMMA CallFailsStep ==
    ASSUME Inductive, NEW s \in Slot, CallFails(s)
    PROVE  Inductive'
<1> DEFINE t == request[s].task
<1>1. /\ request[s].pc \in {"stop", "start"} /\ t \in Task /\ Busy(s) /\ TypeOK
      /\ UNCHANGED <<made, row, requests, restarts, overlapped>>
  BY DEF CallFails, Inductive, TypeOK, Request, Busy
<1>2. Leave(s) /\ excused' \subseteq Task
  BY <1>1 DEF CallFails, GiveUp, TypeOK
<1>3. Went(s) /\ request'[s].pc = "idle"
  BY <1>1, <1>2, LeaveFacts DEF Went
<1>4. CASE UNCHANGED job
  <2>1. job' \in [Task -> Work \cup {Cut}]
    BY <1>1, <1>4 DEF TypeOK
  <2> HIDE DEF t
  <2> QED
    BY <1>1, <1>2, <1>3, <1>4, <2>1, CallStep DEF t
<1>5. CASE request[s].pc = "stop" /\ DeleteByID(t)
  <2>1. /\ job' \in [Task -> Work \cup {Cut}] /\ job'[t] = NoJob
        /\ \A u \in Task \ {t} : job'[u] = job[u]
    BY <1>1, <1>5, BlankIsWork DEF DeleteByID, TypeOK
  <2> HIDE DEF t
  <2> QED
    BY <1>1, <1>2, <1>3, <2>1, CallStep DEF t
<1>6. CASE request[s].pc = "start" /\ AddByFunc(t, request[s].work)
  <2> HIDE DEF t
  <2> QED
    BY <1>1, <1>2, <1>3, <1>6, AddByFuncFacts, CallStep DEF t
<1> QED
  BY <1>1, <1>4, <1>5, <1>6 DEF CallFails

\* A restart of the agent leaves no task.
LEMMA CronInitStep ==
    ASSUME Inductive, CronInit
    PROVE  Inductive'
<1> USE DEF Inductive
<1>1. TypeOK'
  BY CronAssumption, BlankIsWork DEF CronInit, TypeOK
<1>2. Stopping' /\ Alone'
  BY DEF CronInit, Stopping, Alone, Busy
<1>3. Fresh'
  BY DEF CronInit, Fresh, Busy
<1>4. Erasing' /\ Starting' /\ NoOrphanJob'
  BY DEF CronInit, Erasing, Starting, NoOrphanJob, TypeOK, Request
<1> QED
  BY <1>1, <1>2, <1>3, <1>4

------------------------------------------------------------------------------
(***************************************************************************)
(* Agreement.  It says what holds once no request is open; its proof needs *)
(* what holds while one is.                                                *)
(***************************************************************************)

\* A request that is still clear is the only one open on its task.
ClearAlone ==
    \A s, z \in Slot :
       Busy(s) /\ Busy(z) /\ s # z /\ request[s].task = request[z].task
          => ~request[s].clear

\* A clear request has written into the row what it is about to ask of the
\* agent: to run the work of the row, or to stop the task.
RowSays(s) ==
    LET r == request[s]
        w == row[r.task]
    IN  /\ r.pc = "read" => w.on
        /\ r.pc = "start" => w.on /\ r.work = w.work
        /\ r.pc = "stop" /\ r.op = "update" => w.on /\ r.work = w.work
        /\ r.pc = "stop" /\ r.op = "pause" => ~w.on

RowFirst ==
    \A s \in Slot :
       Busy(s) /\ request[s].clear /\ row[request[s].task].exists => RowSays(s)

\* Only deletes are open on the task, and none of them has stopped it.
Untouched(t) ==
    \A s \in Slot : Busy(s) /\ request[s].task = t
                       => request[s].op = "delete" /\ request[s].pc # "erase"

\* A delete that gives up is no excuse, so a row and its job agree beside
\* deletes that have done nothing yet.
Settled == \A t \in Task : row[t].exists /\ t \notin excused /\ Untouched(t) => Agrees(t)

AgreeInv == ClearAlone /\ RowFirst /\ Settled

\* No task yet.
LEMMA AgreeInit == Init => AgreeInv
BY CronAssumption DEF Init, AgreeInv, ClearAlone, RowFirst, Settled, Idle, NoRow, Busy

\* A request that comes is clear only alone and if nothing went wrong, and the
\* others on its task no longer are.
CameClear(s, t, pc, fine) ==
    /\ \A z \in Slot \ {s} : request'[z].clear
          => request[z].clear /\ ~(Busy(z) /\ request[z].task = t)
    /\ pc # "idle" /\ request'[s].clear
          => fine /\ \A z \in Slot : Busy(z) => request[z].task # t

\* A request is clear only if it comes to a task that no other request is open on.
LEMMA ArriveClear ==
    ASSUME TypeOK, NEW s \in Slot, NEW op \in Op, NEW t \in Task, NEW w \in Work,
           NEW pc \in PC, NEW fine \in BOOLEAN, Arrive(s, op, t, w, pc, fine)
    PROVE  CameClear(s, t, pc, fine)
<1> DEFINE new == [op |-> op, task |-> t, work |-> w, pc |-> pc, clear |-> fine /\ Open(t) = {}]
<1>1. request' = [z \in Slot |-> IF z = s /\ pc # "idle" THEN new
                                 ELSE IF z \in Open(t) THEN [request[z] EXCEPT !.clear = FALSE]
                                 ELSE request[z]]
  BY DEF Arrive
<1>2. new.clear => fine /\ Open(t) = {}
  OBVIOUS
<1> HIDE DEF new
<1>3. ASSUME NEW z \in Slot \ {s}, request'[z].clear
      PROVE  request[z].clear /\ ~(Busy(z) /\ request[z].task = t)
  <2>1. request'[z] = IF z \in Open(t) THEN [request[z] EXCEPT !.clear = FALSE] ELSE request[z]
    BY <1>1
  <2>2. request[z] \in Request
    BY DEF TypeOK
  <2>3. [request[z] EXCEPT !.clear = FALSE].clear = FALSE
    BY <2>2 DEF Request
  <2>4. z \notin Open(t) /\ request[z].clear
    BY <1>3, <2>1, <2>3
  <2> QED
    BY <2>4 DEF Open, Busy
<1>4. ASSUME pc # "idle", request'[s].clear
      PROVE  fine /\ \A z \in Slot : Busy(z) => request[z].task # t
  <2>1. request'[s] = new
    BY <1>1, <1>4
  <2>2. fine /\ Open(t) = {}
    BY <1>2, <1>4, <2>1
  <2> QED
    BY <2>2 DEF Open, Busy
<1> QED
  BY <1>3, <1>4 DEF CameClear

\* So a clear request stays the only one.
LEMMA CameClearAlone ==
    ASSUME ClearAlone, NEW s \in Slot, NEW op, NEW t, NEW w, NEW pc, NEW fine,
           Came(s, op, t, w, pc), CameClear(s, t, pc, fine)
    PROVE  ClearAlone'
<1> SUFFICES ASSUME NEW y \in Slot, NEW z \in Slot, y # z, Busy(y)', Busy(z)',
                    request'[y].task = request'[z].task, request'[y].clear
             PROVE  FALSE
  BY DEF ClearAlone
<1>1. CASE y = s
  BY <1>1 DEF Came, CameClear, Busy
<1>2. CASE z = s
  BY <1>2 DEF Came, CameClear, Busy
<1>3. CASE y # s /\ z # s
  BY <1>3 DEF Came, CameClear, Busy, ClearAlone
<1> QED
  BY <1>1, <1>2, <1>3

\* Where the new request leaves the other rows and all jobs alone, and is
\* clear only with the row it needs, the rows come first still.
LEMMA CameRowFirst ==
    ASSUME RowFirst, NEW s \in Slot, NEW op, NEW t \in Task, NEW w, NEW pc, NEW fine,
           Came(s, op, t, w, pc), CameClear(s, t, pc, fine), TypeOK,
           \A u \in Task \ {t} : row'[u] = row[u],
           pc # "idle" /\ request'[s].clear /\ row'[t].exists => RowSays(s)'
    PROVE  RowFirst'
<1> SUFFICES ASSUME NEW z \in Slot, Busy(z)', request'[z].clear, row'[request'[z].task].exists
             PROVE  RowSays(z)'
  BY DEF RowFirst
<1>1. CASE z = s
  BY <1>1 DEF Came, Busy
<1>2. CASE z # s
  <2>1. Busy(z) /\ request[z].clear /\ request[z].task # t /\ request[z].task \in Task
    BY <1>2 DEF Came, CameClear, Busy, TypeOK, Request
  <2>2. row'[request'[z].task] = row[request[z].task]
    BY <1>2, <2>1 DEF Came
  <2>3. RowSays(z)
    BY <2>1, <2>2 DEF RowFirst
  <2> QED
    BY <1>2, <2>2, <2>3 DEF Came, RowSays
<1> QED
  BY <1>1, <1>2

\* Tasks other than that of the new request are settled as before.
LEMMA CameSettled ==
    ASSUME Settled, NEW s \in Slot, NEW op, NEW t \in Task, NEW w, NEW pc,
           Came(s, op, t, w, pc), UNCHANGED job, request[s].pc = "idle",
           excused \subseteq excused',
           \A u \in Task \ {t} : row'[u] = row[u],
           row'[t].exists /\ t \notin excused' /\ Untouched(t)' => Agrees(t)'
    PROVE  Settled'
<1> SUFFICES ASSUME NEW u \in Task, u # t, row'[u].exists, u \notin excused', Untouched(u)'
             PROVE  Agrees(u)'
  BY DEF Settled
<1>1. Untouched(u)
  BY DEF Untouched, Came, Busy
<1>2. Agrees(u)
  BY <1>1 DEF Settled
<1> QED
  BY <1>2 DEF Agrees

------------------------------------------------------------------------------
\* Requests that come.

\* A task is created with a row that says what it is to do, and does nothing yet.
LEMMA CreatCronAgrees ==
    ASSUME Inductive, AgreeInv, NEW s \in Slot, NEW w \in Work, NEW on \in BOOLEAN,
           CreatCron(s, w, on)
    PROVE  AgreeInv'
<1> USE DEF Inductive, AgreeInv
<1>0. PICK t \in Task : t = made + 1
  BY CronAssumption DEF CreatCron, TypeOK, Task
<1> DEFINE pc == IF on THEN "read" ELSE "idle"
<1>a. t > made
  BY <1>0, CronAssumption DEF TypeOK, Task
<1>b. Arrive(s, "create", t, w, pc, TRUE)
  BY <1>0 DEF CreatCron
<1>c. /\ row' = [row EXCEPT ![t] = [work |-> w, on |-> on, exists |-> TRUE]]
      /\ UNCHANGED <<job, excused>>
  BY <1>0 DEF CreatCron
<1>1. /\ t > made
      /\ row' = [row EXCEPT ![t] = [work |-> w, on |-> on, exists |-> TRUE]]
      /\ UNCHANGED <<job, excused>>
      /\ Arrive(s, "create", t, w, pc, TRUE)
  BY <1>a, <1>b, <1>c
<1>2. request[s].pc = "idle"
  BY <1>1 DEF Arrive
<1>3. Came(s, "create", t, w, pc) /\ CameClear(s, t, pc, TRUE)
  <2>1. pc \in PC /\ "create" \in Op /\ w \in Work
    BY DEF PC, Op
  <2> HIDE DEF pc
  <2> QED
    BY <1>1, <2>1, ArriveFacts, ArriveClear
<1>4. job'[t] = NoJob
  BY <1>1 DEF Fresh
<1>5. pc = IF on THEN "read" ELSE "idle"
  OBVIOUS
<1> HIDE DEF pc
<1>6. row'[t].on = on /\ \A u \in Task \ {t} : row'[u] = row[u]
  BY <1>1 DEF TypeOK
<1>7. ClearAlone'
  BY <1>3, CameClearAlone
<1>8. RowFirst'
  <2>1. pc # "idle" => RowSays(s)'
    BY <1>3, <1>5, <1>6 DEF Came, RowSays
  <2> QED
    BY <1>1, <1>3, <1>6, <2>1, CameRowFirst
<1>9. Settled'
  <2>1. Untouched(t)' => ~on
    BY <1>3, <1>5 DEF Untouched, Busy, Came
  <2>2. ~on => Agrees(t)'
    BY <1>4, <1>6 DEF Agrees
  <2> QED
    BY <1>1, <1>2, <1>3, <1>6, <2>1, <2>2, CameSettled
<1> QED
  BY <1>7, <1>8, <1>9

\* A delete that comes has done nothing yet.
LEMMA DeleteCronTaskAgrees ==
    ASSUME Inductive, AgreeInv, NEW s \in Slot, NEW t \in Task, DeleteCronTask(s, t)
    PROVE  AgreeInv'
<1> USE DEF Inductive, AgreeInv
<1>1. /\ Arrive(s, "delete", t, Blank, "stop", TRUE) /\ request[s].pc = "idle"
      /\ UNCHANGED <<row, job, excused>>
  BY DEF DeleteCronTask, Arrive
<1>2. Came(s, "delete", t, Blank, "stop") /\ CameClear(s, t, "stop", TRUE)
  BY <1>1, BlankIsWork, ArriveFacts, ArriveClear DEF PC, Op
<1>3. ClearAlone'
  BY <1>2, CameClearAlone
<1>4. RowFirst'
  <2>1. RowSays(s)'
    BY <1>2 DEF Came, RowSays
  <2> QED
    BY <1>1, <1>2, <2>1, CameRowFirst
<1>5. Settled'
  <2>1. Untouched(t)' => Untouched(t)
    BY <1>1, <1>2 DEF Untouched, Came, Busy
  <2>2. row'[t].exists /\ t \notin excused' /\ Untouched(t)' => Agrees(t)'
    BY <1>1, <2>1 DEF Settled, Agrees
  <2> QED
    BY <1>1, <1>2, <2>2, CameSettled
<1> QED
  BY <1>3, <1>4, <1>5

\* An update writes the whole row, or is not clear, or excuses the task.
LEMMA UpdateCronAgrees ==
    ASSUME Inductive, AgreeInv, NEW s \in Slot, NEW t \in Task, NEW w \in Work,
           NEW on \in BOOLEAN, UpdateCron(s, t, w, on)
    PROVE  AgreeInv'
<1> USE DEF Inductive, AgreeInv
<1> DEFINE pc == IF on THEN "stop" ELSE "idle"
<1>1. PICK saved \in BOOLEAN :
         /\ row' = IF Written(t, saved)
                   THEN [row EXCEPT ![t] = [work |-> Merged(row[t].work, w),
                                            on |-> on, exists |-> TRUE]]
                   ELSE row
         /\ Arrive(s, "update", t, w, pc, saved /\ Whole(w))
  BY DEF UpdateCron
<1>2. /\ UNCHANGED job /\ request[s].pc = "idle"
      /\ excused' = IF on THEN excused ELSE excused \cup {t}
  BY DEF UpdateCron, Arrive
<1>3. pc \in PC /\ pc = IF on THEN "stop" ELSE "idle"
  BY DEF PC
<1> HIDE DEF pc
<1>4. Came(s, "update", t, w, pc) /\ CameClear(s, t, pc, saved /\ Whole(w))
  <2>1. (saved /\ Whole(w)) \in BOOLEAN
    BY DEF Whole
  <2> QED
    BY <1>1, <1>3, <2>1, ArriveFacts, ArriveClear DEF Op
<1>5. /\ \A u \in Task \ {t} : row'[u] = row[u]
      /\ row'[t].exists = row[t].exists
      /\ saved /\ Whole(w) /\ row[t].exists => row'[t].on = on /\ row'[t].work = w
  <2>1. row[t].exists /\ Whole(w) => Merged(row[t].work, w) = w
    <3>1. row[t] \in Row
      BY DEF TypeOK
    <3> QED
      BY <3>1, MergedFacts, BlankIsWork DEF Row
  <2> QED
    BY <1>1, <2>1 DEF TypeOK, Written
<1>6. ClearAlone'
  BY <1>4, CameClearAlone
<1>7. RowFirst'
  <2>1. pc # "idle" /\ request'[s].clear /\ row'[t].exists => RowSays(s)'
    BY <1>3, <1>4, <1>5 DEF Came, CameClear, RowSays
  <2> QED
    BY <1>4, <1>5, <2>1, CameRowFirst
<1>8. Settled'
  <2>1. on => ~Untouched(t)'
    BY <1>3, <1>4 DEF Untouched, Came, Busy
  <2>2. excused \subseteq excused' /\ (~on => t \in excused')
    BY <1>2
  <2> QED
    BY <1>2, <1>4, <1>5, <2>1, <2>2, CameSettled
<1> QED
  BY <1>6, <1>7, <1>8

\* A change of the status writes its opposite, or is not clear.
LEMMA CronTaskStatusAgrees ==
    ASSUME Inductive, AgreeInv, NEW s \in Slot, NEW t \in Task, NEW status \in BOOLEAN,
           CronTaskStatus(s, t, status)
    PROVE  AgreeInv'
<1> USE DEF Inductive, AgreeInv
<1> DEFINE op == IF status THEN "pause" ELSE "resume"
           pc == IF status THEN "stop" ELSE "read"
<1>1. PICK saved \in BOOLEAN :
         /\ row' = IF Written(t, saved) THEN FlipStatus(t, status) ELSE row
         /\ Arrive(s, op, t, Blank, pc, saved)
  BY DEF CronTaskStatus
<1>2. UNCHANGED <<job, excused>> /\ request[s].pc = "idle"
  BY <1>1 DEF CronTaskStatus, Arrive
<1>3. pc \in PC /\ op \in Op /\ op # "delete" /\ pc # "start" /\ pc # "idle" /\ op # "update"
  BY DEF PC, Op
<1>4. (pc = "read" => ~status) /\ (pc = "stop" => status)
  OBVIOUS
<1> HIDE DEF pc, op
<1>5. Came(s, op, t, Blank, pc) /\ CameClear(s, t, pc, saved)
  BY <1>1, <1>3, BlankIsWork, ArriveFacts, ArriveClear
<1>6. /\ \A u \in Task \ {t} : row'[u] = row[u]
      /\ saved /\ row[t].exists => row'[t].on = ~status
      /\ row'[t].exists = row[t].exists
  <2>1. CASE Written(t, saved)
    <3>1. row[t] # NoRow /\ row[t] \in Row
      <4>1. ~NoRow.exists
        BY DEF NoRow
      <4> QED
        BY <2>1, <4>1 DEF Written, TypeOK
    <3>2. row[t] \in [work : Work, on : BOOLEAN, exists : {TRUE}]
      BY <3>1 DEF Row
    <3>3. row' = [row EXCEPT ![t].on = ~status]
      BY <1>1, <2>1 DEF FlipStatus
    <3>4. row'[t] = [row[t] EXCEPT !.on = ~status]
      BY <3>3 DEF TypeOK
    <3> QED
      BY <3>2, <3>3, <3>4 DEF TypeOK
  <2>2. CASE ~Written(t, saved)
    BY <1>1, <2>2 DEF Written
  <2> QED
    BY <2>1, <2>2
<1>7. ClearAlone'
  BY <1>5, CameClearAlone
<1>8. RowFirst'
  <2>1. request'[s].clear /\ row'[t].exists => row'[t].on = ~status
    BY <1>3, <1>5, <1>6 DEF CameClear
  <2>2. request'[s].clear /\ row'[t].exists => RowSays(s)'
    BY <1>3, <1>4, <1>5, <2>1 DEF Came, RowSays
  <2> QED
    BY <1>5, <1>6, <2>2, CameRowFirst
<1>9. Settled'
  <2>1. ~Untouched(t)'
    BY <1>3, <1>5 DEF Untouched, Came, Busy
  <2> QED
    BY <1>2, <1>5, <1>6, <2>1, CameSettled
<1> QED
  BY <1>7, <1>8, <1>9

------------------------------------------------------------------------------
\* Steps of a handler.

\* A handler that goes on keeps what makes it clear; one that leaves is no
\* longer open.
LEMMA WentClearAlone ==
    ASSUME ClearAlone, NEW s \in Slot, Went(s),
           request'[s].pc # "idle" => request'[s].clear = request[s].clear
    PROVE  ClearAlone'
<1> SUFFICES ASSUME NEW y \in Slot, NEW z \in Slot, y # z, Busy(y)', Busy(z)',
                    request'[y].task = request'[z].task, request'[y].clear
             PROVE  FALSE
  BY DEF ClearAlone
<1>1. Busy(y) /\ request'[y].task = request[y].task /\ request[y].clear
  BY DEF Went, Busy
<1>2. Busy(z) /\ request'[z].task = request[z].task
  BY DEF Went, Busy
<1> QED
  BY <1>1, <1>2 DEF ClearAlone

\* The rows still come first for the others: what a clear request has written,
\* no other handler erases.
LEMMA WentRowFirst ==
    ASSUME TypeOK, RowFirst, ClearAlone, NEW s \in Slot, Went(s), Busy(s),
           NEW t \in Task, t = request[s].task,
           \A u \in Task \ {t} : row'[u] = row[u],
           request'[s].pc # "idle" /\ request'[s].clear /\ row'[t].exists => RowSays(s)'
    PROVE  RowFirst'
<1> SUFFICES ASSUME NEW z \in Slot, Busy(z)', request'[z].clear, row'[request'[z].task].exists
             PROVE  RowSays(z)'
  BY DEF RowFirst
<1>1. CASE z = s
  BY <1>1 DEF Went, Busy
<1>2. CASE z # s
  <2>1. request'[z] = request[z] /\ Busy(z)
    BY <1>2 DEF Went, Busy
  <2>2. request[z].task # t /\ request[z].task \in Task
    BY <1>2, <2>1 DEF ClearAlone, TypeOK, Request
  <2>3. row'[request'[z].task] = row[request[z].task]
    BY <2>1, <2>2
  <2>4. RowSays(z)
    BY <2>1, <2>3 DEF RowFirst
  <2> QED
    BY <2>1, <2>3, <2>4 DEF RowSays
<1> QED
  BY <1>1, <1>2

\* A handler settles or unsettles its own task only.
LEMMA WentSettled ==
    ASSUME Settled, NEW s \in Slot, Went(s), Busy(s), NEW t \in Task, t = request[s].task,
           excused \subseteq excused' \cup {t},
           \A u \in Task \ {t} : row'[u] = row[u] /\ job'[u] = job[u],
           row'[t].exists /\ t \notin excused' /\ Untouched(t)' => Agrees(t)'
    PROVE  Settled'
<1> SUFFICES ASSUME NEW u \in Task, u # t, row'[u].exists, u \notin excused', Untouched(u)'
             PROVE  Agrees(u)'
  BY DEF Settled
<1>1. Untouched(u)
  <2> SUFFICES ASSUME NEW z \in Slot, Busy(z), request[z].task = u
               PROVE  request[z].op = "delete" /\ request[z].pc # "erase"
    BY DEF Untouched
  <2>1. z # s
    OBVIOUS
  <2>2. request'[z] = request[z]
    BY <2>1 DEF Went
  <2> QED
    BY <2>2 DEF Untouched, Busy
<1>2. Agrees(u)
  BY <1>1 DEF Settled
<1> QED
  BY <1>2 DEF Agrees

\* The row goes, or the task is excused.
LEMMA DeleteTaskAgrees ==
    ASSUME Inductive, AgreeInv, NEW s \in Slot, DeleteTask(s)
    PROVE  AgreeInv'
<1> USE DEF Inductive, AgreeInv
<1>1. PICK t \in Task : t = request[s].task
  BY DEF TypeOK, Request
<1>2. /\ Busy(s) /\ Leave(s) /\ UNCHANGED job
      /\ \/ row' = [row EXCEPT ![t] = NoRow]
         \/ UNCHANGED row /\ t \in excused'
      /\ excused \subseteq excused' \cup {t}
  BY <1>1 DEF DeleteTask, Succeed, Busy
<1>3. Went(s) /\ request'[s].pc = "idle"
  BY <1>2, LeaveFacts DEF Went
<1>4. /\ \A u \in Task \ {t} : row'[u] = row[u]
      /\ row'[t].exists => t \in excused'
  BY <1>2 DEF TypeOK, NoRow
<1> QED
  BY <1>1, <1>2, <1>3, <1>4, WentClearAlone, WentRowFirst, WentSettled

\* What is read is what the row says.
LEMMA Id2CronInfoAgrees ==
    ASSUME Inductive, AgreeInv, NEW s \in Slot, Id2CronInfo(s)
    PROVE  AgreeInv'
<1> USE DEF Inductive, AgreeInv
<1>1. PICK t \in Task : t = request[s].task
  BY DEF TypeOK, Request
<1>2. /\ Busy(s) /\ UNCHANGED <<row, job, excused>> /\ request[s].pc = "read"
      /\ request' = [request EXCEPT ![s].work = row[t].work, ![s].pc = "start"]
  BY <1>1 DEF Id2CronInfo, Busy
<1>3. request[s] \in Request
  BY DEF TypeOK
<1>4. request'[s] = [request[s] EXCEPT !.work = row[t].work, !.pc = "start"]
  BY <1>2 DEF TypeOK
<1>5. /\ request'[s].pc = "start" /\ request'[s].work = row[t].work
      /\ request'[s].task = t /\ request'[s].op = request[s].op
      /\ request'[s].clear = request[s].clear
  BY <1>1, <1>3, <1>4 DEF Request
<1>6. Went(s)
  <2>1. \A z \in Slot \ {s} : request'[z] = request[z]
    BY <1>2 DEF TypeOK
  <2>2. Inductive'
    BY Id2CronInfoStep
  <2> QED
    BY <1>1, <1>2, <1>5, <2>1, <2>2 DEF Went, TypeOK
<1>7. request'[s].clear /\ row'[t].exists => RowSays(s)'
  BY <1>1, <1>2, <1>5 DEF RowFirst, RowSays
<1>8. row'[t].exists /\ t \notin excused' /\ Untouched(t)' => Agrees(t)'
  <2>1. Untouched(t)' => Untouched(t)
    BY <1>1, <1>2, <1>5, <1>6 DEF Untouched, Went, Busy
  <2> QED
    BY <1>2, <2>1 DEF Settled, Agrees
<1> QED
  BY <1>1, <1>2, <1>5, <1>6, <1>7, <1>8, WentClearAlone, WentRowFirst, WentSettled

\* A task that is stopped is one to be erased, to be started again with the
\* work of its row, or one whose row is off.
LEMMA StopAndDelAgrees ==
    ASSUME Inductive, AgreeInv, NEW s \in Slot, StopAndDel(s)
    PROVE  AgreeInv'
<1> USE DEF Inductive, AgreeInv
<1>1. PICK t \in Task : t = request[s].task
  BY DEF TypeOK, Request
<1>2. /\ Busy(s) /\ UNCHANGED row /\ request[s].pc = "stop"
      /\ job' = [job EXCEPT ![t] = NoJob]
  BY <1>1 DEF StopAndDel, DeleteByID, Busy
<1>3. /\ \A u \in Task \ {t} : row'[u] = row[u] /\ job'[u] = job[u]
      /\ job'[t] = NoJob
  BY <1>2 DEF TypeOK
<1>4. ASSUME NEW pc \in {"erase", "start"}, GoOn(s, pc), UNCHANGED excused,
             pc = "start" => request[s].op = "update"
      PROVE  AgreeInv'
  <2>1. /\ Went(s) /\ request'[s].pc = pc
        /\ request'[s].work = request[s].work /\ request'[s].task = t
        /\ request'[s].op = request[s].op
    BY <1>1, <1>2, <1>4, GoOnFacts DEF Went, PC
  <2>2. request'[s].clear = request[s].clear
    BY <1>4 DEF GoOn, TypeOK, Request
  <2>3. request'[s].clear /\ row'[t].exists => RowSays(s)'
    BY <1>1, <1>2, <1>4, <2>1, <2>2 DEF RowFirst, RowSays
  <2>4. ~Untouched(t)'
    BY <1>4, <2>1 DEF Untouched, Busy
  <2> QED
    BY <1>1, <1>2, <1>3, <1>4, <2>1, <2>2, <2>3, <2>4, WentClearAlone, WentRowFirst, WentSettled
<1>5. ASSUME request[s].op = "pause", Succeed(s) PROVE AgreeInv'
  <2>1. Went(s) /\ request'[s].pc = "idle"
    BY <1>5, LeaveFacts DEF Went, Succeed
  <2>2. excused' = IF request[s].clear THEN excused \ {t} ELSE excused \cup {t}
    BY <1>1, <1>5 DEF Succeed
  <2>3. request[s].clear /\ row[t].exists => ~row[t].on
    BY <1>1, <1>2, <1>5 DEF RowFirst, RowSays
  <2>4. row'[t].exists /\ t \notin excused' => Agrees(t)'
    BY <1>2, <1>3, <2>2, <2>3 DEF Agrees
  <2> QED
    BY <1>1, <1>2, <1>3, <2>1, <2>2, <2>4, WentClearAlone, WentRowFirst, WentSettled
<1>6. request[s].op \in {"delete", "update", "pause"}
  BY <1>2 DEF Stopping
<1>7. \/ GoOn(s, "erase") /\ UNCHANGED excused
      \/ request[s].op = "update" /\ GoOn(s, "start") /\ UNCHANGED excused
      \/ request[s].op = "pause" /\ Succeed(s)
  <2>1. CASE request[s].op = "delete"
    BY <2>1 DEF StopAndDel
  <2>2. CASE request[s].op = "update"
    BY <2>2 DEF StopAndDel
  <2>3. CASE request[s].op = "pause"
    BY <2>3 DEF StopAndDel
  <2> QED
    BY <1>6, <2>1, <2>2, <2>3
<1>8. CASE GoOn(s, "erase") /\ UNCHANGED excused
  BY <1>4, <1>8
<1>9. CASE request[s].op = "update" /\ GoOn(s, "start") /\ UNCHANGED excused
  BY <1>4, <1>9
<1>10. CASE request[s].op = "pause" /\ Succeed(s)
  BY <1>5, <1>10
<1> QED
  BY <1>7, <1>8, <1>9, <1>10

\* The agent starts what the row says, as far as it can parse it.
LEMMA CronStartAgrees ==
    ASSUME Inductive, AgreeInv, NEW s \in Slot, CronStart(s)
    PROVE  AgreeInv'
<1> USE DEF Inductive, AgreeInv
<1>1. PICK t \in Task : t = request[s].task
  BY DEF TypeOK, Request
<1>2. /\ Busy(s) /\ UNCHANGED row /\ request[s].pc = "start" /\ Succeed(s)
      /\ request[s].work # Blank
      /\ job' = [job EXCEPT ![t] = Parsed(request[s].work)]
  BY <1>1 DEF CronStart, AddByFunc, Busy, Blank
<1>3. /\ \A u \in Task \ {t} : row'[u] = row[u] /\ job'[u] = job[u]
      /\ job'[t] = Parsed(request[s].work)
  BY <1>2 DEF TypeOK
<1>4. Parsed(request[s].work) # NoJob
  BY <1>2, BlankIsWork, CronAssumption DEF Parsed, NoJob
<1>5. Went(s) /\ request'[s].pc = "idle"
  BY <1>2, LeaveFacts DEF Went, Succeed
<1>6. excused' = IF request[s].clear THEN excused \ {t} ELSE excused \cup {t}
  BY <1>1, <1>2 DEF Succeed
<1>7. request[s].clear /\ row[t].exists => row[t].on /\ request[s].work = row[t].work
  BY <1>1, <1>2 DEF RowFirst, RowSays
<1>8. row'[t].exists /\ t \notin excused' => Agrees(t)'
  <2> SUFFICES ASSUME row[t].exists, request[s].clear PROVE Agrees(t)'
    BY <1>2, <1>6
  <2>1. row'[t].on /\ job'[t] # NoJob
    BY <1>2, <1>3, <1>4, <1>7
  <2>2. job'[t] = Parsed(row'[t].work)
    BY <1>2, <1>3, <1>7
  <2> QED
    BY <2>1, <2>2 DEF Agrees, Parsed
<1> QED
  BY <1>1, <1>2, <1>3, <1>5, <1>6, <1>8, WentClearAlone, WentRowFirst, WentSettled

\* A call that fails excuses the task, unless it is that of a delete and has
\* done nothing.
LEMMA CallFailsAgrees ==
    ASSUME Inductive, AgreeInv, NEW s \in Slot, CallFails(s)
    PROVE  AgreeInv'
<1> USE DEF Inductive, AgreeInv
<1>1. PICK t \in Task : t = request[s].task
  BY DEF TypeOK, Request
<1>2. Busy(s) /\ UNCHANGED row /\ Leave(s) /\ request[s].pc \in {"stop", "start"}
  BY DEF CallFails, GiveUp, Busy
<1>3. Went(s) /\ request'[s].pc = "idle"
  BY <1>2, LeaveFacts DEF Went
<1>4. \A u \in Task \ {t} : row'[u] = row[u] /\ job'[u] = job[u]
  BY <1>1, <1>2 DEF CallFails, DeleteByID, AddByFunc, TypeOK
<1>5. \/ t \in excused' /\ excused \subseteq excused'
      \/ request[s].op = "delete" /\ UNCHANGED <<excused, job>>
  BY <1>1 DEF CallFails, GiveUp
<1>6. row'[t].exists /\ t \notin excused' /\ Untouched(t)' => Agrees(t)'
  <2> SUFFICES ASSUME row[t].exists, request[s].op = "delete", UNCHANGED <<excused, job>>,
                      t \notin excused, Untouched(t)'
               PROVE  Agrees(t)'
    BY <1>2, <1>5
  <2>1. request[s].pc # "erase"
    BY <1>2
  <2>2. Untouched(t)
    <3> SUFFICES ASSUME NEW z \in Slot, Busy(z), request[z].task = t
                 PROVE  request[z].op = "delete" /\ request[z].pc # "erase"
      BY DEF Untouched
    <3>1. CASE z = s
      BY <2>1, <3>1
    <3>2. CASE z # s
      <4>1. request'[z] = request[z]
        BY <1>3, <3>2 DEF Went
      <4> QED
        BY <4>1 DEF Untouched, Busy
    <3> QED
      BY <3>1, <3>2
  <2> QED
    BY <1>2, <2>2 DEF Settled, Agrees
<1> QED
  BY <1>1, <1>2, <1>3, <1>4, <1>5, <1>6, WentClearAlone, WentRowFirst, WentSettled

\* A restart of the agent excuses the tasks it had.
LEMMA CronInitAgrees ==
    ASSUME Inductive, AgreeInv, CronInit
    PROVE  AgreeInv'
<1> USE DEF Inductive, AgreeInv
<1>1. /\ UNCHANGED <<row, request>>
      /\ job' = [t \in Task |-> NoJob]
      /\ excused' = excused \cup {t \in Task : job[t] # NoJob}
  BY DEF CronInit
<1>2. ClearAlone'
  BY <1>1 DEF ClearAlone, Busy
<1>3. RowFirst'
  BY <1>1 DEF RowFirst, RowSays, Busy
<1>4. Settled'
  <2> SUFFICES ASSUME NEW t \in Task, row[t].exists, t \notin excused', Untouched(t)'
               PROVE  Agrees(t)'
    BY <1>1 DEF Settled
  <2>1. t \notin excused /\ job[t] = NoJob /\ job'[t] = NoJob
    BY <1>1
  <2>2. Untouched(t)
    BY <1>1 DEF Untouched, Busy
  <2>3. Agrees(t)
    BY <2>1, <2>2 DEF Settled
  <2> QED
    BY <1>1, <2>1, <2>3 DEF Agrees
<1> QED
  BY <1>2, <1>3, <1>4

------------------------------------------------------------------------------

\* Every step keeps the invariant.
LEMMA InductiveStep == Inductive /\ [Next]_vars => Inductive'
<1> SUFFICES ASSUME Inductive, [Next]_vars PROVE Inductive'
  OBVIOUS
<1>1. ASSUME NEW s \in Slot, NEW w \in Work, NEW on \in BOOLEAN, CreatCron(s, w, on)
      PROVE  Inductive'
  BY <1>1, CreatCronStep
<1>2. ASSUME NEW s \in Slot, NEW t \in Task, DeleteCronTask(s, t) PROVE Inductive'
  BY <1>2, DeleteCronTaskStep
<1>3. ASSUME NEW s \in Slot, NEW t \in Task, NEW w \in Work, NEW on \in BOOLEAN,
             UpdateCron(s, t, w, on)
      PROVE  Inductive'
  BY <1>3, UpdateCronStep
<1>4. ASSUME NEW s \in Slot, NEW t \in Task, NEW status \in BOOLEAN,
             CronTaskStatus(s, t, status)
      PROVE  Inductive'
  BY <1>4, CronTaskStatusStep
<1>5. ASSUME NEW s \in Slot, DeleteTask(s) PROVE Inductive'
  BY <1>5, DeleteTaskStep
<1>6. ASSUME NEW s \in Slot, Id2CronInfo(s) PROVE Inductive'
  BY <1>6, Id2CronInfoStep
<1>7. ASSUME NEW s \in Slot, StopAndDel(s) PROVE Inductive'
  BY <1>7, StopAndDelStep
<1>8. ASSUME NEW s \in Slot, CronStart(s) PROVE Inductive'
  BY <1>8, CronStartStep
<1>9. ASSUME NEW s \in Slot, CallFails(s) PROVE Inductive'
  BY <1>9, CallFailsStep
<1>10. CASE CronInit
  BY <1>10, CronInitStep
<1>11. CASE UNCHANGED vars
  BY <1>11 DEF vars, Inductive, TypeOK, Stopping, Fresh, Alone, Erasing, Starting, NoOrphanJob, Busy
<1> QED
  BY <1>1, <1>2, <1>3, <1>4, <1>5, <1>6, <1>7, <1>8, <1>9, <1>10, <1>11 DEF Next

\* The invariant holds in every state.
LEMMA InductiveAlways == Spec => []Inductive
BY InductiveInit, InductiveStep, PTL DEF Spec

\* The rows, the engine and the handlers hold what the code can put in them.
THEOREM TypeCorrect == Spec => []TypeOK
<1>1. Inductive => TypeOK
  BY DEF Inductive
<1> QED
  BY <1>1, InductiveAlways, PTL

\* A task the agent runs has a row through which it can be stopped, unless
\* requests on it have overlapped (CreatCron, DeleteCronTask, UpdateCron,
\* CronTaskStatus), whatever calls fail or are lost and whenever the agent
\* restarts.
THEOREM OrphanFree == Spec => []NoOrphanJob
<1>1. Inductive => NoOrphanJob
  BY DEF Inductive
<1> QED
  BY <1>1, InductiveAlways, PTL

\* Every step keeps rows and jobs in agreement.
LEMMA AgreeStep == Inductive /\ AgreeInv /\ [Next]_vars => AgreeInv'
<1> SUFFICES ASSUME Inductive, AgreeInv, [Next]_vars PROVE AgreeInv'
  OBVIOUS
<1>1. ASSUME NEW s \in Slot, NEW w \in Work, NEW on \in BOOLEAN, CreatCron(s, w, on)
      PROVE  AgreeInv'
  BY <1>1, CreatCronAgrees
<1>2. ASSUME NEW s \in Slot, NEW t \in Task, DeleteCronTask(s, t) PROVE AgreeInv'
  BY <1>2, DeleteCronTaskAgrees
<1>3. ASSUME NEW s \in Slot, NEW t \in Task, NEW w \in Work, NEW on \in BOOLEAN,
             UpdateCron(s, t, w, on)
      PROVE  AgreeInv'
  BY <1>3, UpdateCronAgrees
<1>4. ASSUME NEW s \in Slot, NEW t \in Task, NEW status \in BOOLEAN,
             CronTaskStatus(s, t, status)
      PROVE  AgreeInv'
  BY <1>4, CronTaskStatusAgrees
<1>5. ASSUME NEW s \in Slot, DeleteTask(s) PROVE AgreeInv'
  BY <1>5, DeleteTaskAgrees
<1>6. ASSUME NEW s \in Slot, Id2CronInfo(s) PROVE AgreeInv'
  BY <1>6, Id2CronInfoAgrees
<1>7. ASSUME NEW s \in Slot, StopAndDel(s) PROVE AgreeInv'
  BY <1>7, StopAndDelAgrees
<1>8. ASSUME NEW s \in Slot, CronStart(s) PROVE AgreeInv'
  BY <1>8, CronStartAgrees
<1>9. ASSUME NEW s \in Slot, CallFails(s) PROVE AgreeInv'
  BY <1>9, CallFailsAgrees
<1>10. CASE CronInit
  BY <1>10, CronInitAgrees
<1>11. CASE UNCHANGED vars
  BY <1>11 DEF vars, AgreeInv, ClearAlone, RowFirst, RowSays, Settled, Untouched, Agrees, Busy
<1> QED
  BY <1>1, <1>2, <1>3, <1>4, <1>5, <1>6, <1>7, <1>8, <1>9, <1>10, <1>11 DEF Next

\* AgreeInv always holds.
LEMMA AgreeAlways == Spec => []AgreeInv
BY InductiveAlways, AgreeInit, AgreeStep, PTL DEF Spec

\* Once no request is open on a task, its row in crontab_list says what the
\* agent's engine does, unless the task is excused: by a restart of the agent,
\* a call that failed or was lost, an error the handler passed over, a form
\* saved switched off, or requests that overlapped.  A later request that is
\* alone and succeeds ends the excuse, so the agreement is restored, whatever
\* happened before.
THEOREM RowsTellTheTruth == Spec => []Agreement
<1>1. TypeOK /\ AgreeInv => Agreement
  <2> SUFFICES ASSUME TypeOK, AgreeInv, NEW t \in Task,
                      Open(t) = {}, t \notin excused, row[t].exists
               PROVE  Agrees(t)
    BY DEF Agreement
  <2>1. Untouched(t)
    BY DEF Open, Untouched, Busy
  <2> QED
    BY <2>1 DEF AgreeInv, Settled
<1> QED
  BY <1>1, TypeCorrect, AgreeAlways, PTL
=============================================================================
