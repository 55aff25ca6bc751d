------------------------------ MODULE CronTask -------------------------------
(***************************************************************************)
(* Scheduled tasks of one machine: the rows of crontab_list on the server, *)
(* the crontab engine in the agent's memory, and the requests that change  *)
(* both.  A request writes the row and calls the agent in steps of its     *)
(* own; gin serves any number of requests at once.  A task is its row id,  *)
(* which is also the id it has on the agent.  A work is the cron           *)
(* expression and the command of a task, each of them possibly empty.      *)
(***************************************************************************)
EXTENDS Naturals, FiniteSets

CONSTANTS MaxTasks,     \* bound: rows ever created
          Slot,         \* requests being served at a time
          MaxRequests,  \* bound: requests made
          MaxRestarts,  \* bound: restarts of the agent
          Expression,   \* cron expressions, without the two characters cut off
          Command,      \* commands
          Empty,        \* the empty string
          Comma,        \* the expressions and commands with a comma in them
          Cut           \* what the agent makes of a work with a comma

Work == [spec : Expression \cup {Empty}, cmd : Command \cup {Empty}]
\* What Id2CronInfo reads without a row.
Blank == [spec |-> Empty, cmd |-> Empty]

ASSUME CronAssumption ==
    /\ MaxTasks \in Nat \ {0} /\ MaxRequests \in Nat /\ MaxRestarts \in Nat
    /\ Cut \notin Work

Task == 1 .. MaxTasks
NoRow == [work |-> Blank, on |-> FALSE, exists |-> FALSE]
NoJob == Blank
\* An entry has an expression, so none is like no entry.
Row == {NoRow} \cup [work : Work, on : BOOLEAN, exists : {TRUE}]
Idle == [op |-> "none", task |-> 1, work |-> Blank, pc |-> "idle", clear |-> TRUE]
Request == [op    : {"none", "create", "delete", "update", "pause", "resume"},
            task  : Task,
            work  : Work,
            pc    : {"idle", "read", "stop", "start", "erase"},
            clear : BOOLEAN]

VARIABLES
    made,        \* rows created so far
    row,         \* table crontab_list
    job,         \* Crontab.EntryIDs and the entries of Inner they name
    request,     \* the handler goroutine in each slot
    requests,    \* requests made so far
    restarts,    \* restarts of the agent so far
    overlapped,  \* tasks two requests have worked on at the same time
    excused      \* tasks whose row and job may disagree, see Agreement

vars == <<made, row, job, request, requests, restarts, overlapped, excused>>

Open(t) == {s \in Slot : request[s].pc # "idle" /\ request[s].task = t}

Init ==
    /\ made = 0
    /\ row = [t \in Task |-> NoRow]
    /\ job = [t \in Task |-> NoJob]
    /\ request = [s \in Slot |-> Idle]
    /\ requests = 0 /\ restarts = 0
    /\ overlapped = {} /\ excused = {}

------------------------------------------------------------------------------
\* How a request begins, goes on and ends.

\* A request on task t arrives, and goes on at pc if there is more to do.  It
\* is clear if nothing went wrong so far and no other request on t is open;
\* those that are open no longer are.
Arrive(s, op, t, w, pc, fine) ==
    /\ request[s].pc = "idle"
    /\ requests < MaxRequests
    /\ requests' = requests + 1
    /\ request' = [z \in Slot |->
          IF z = s /\ pc # "idle"
          THEN [op |-> op, task |-> t, work |-> w, pc |-> pc, clear |-> fine /\ Open(t) = {}]
          ELSE IF z \in Open(t) THEN [request[z] EXCEPT !.clear = FALSE]
          ELSE request[z]]
    /\ overlapped' = IF Open(t) = {} THEN overlapped ELSE overlapped \cup {t}

GoOn(s, pc) == request' = [request EXCEPT ![s].pc = pc]

\* The handler has answered, or hangs for ever: it does nothing any more.
Leave(s) == request' = [request EXCEPT ![s] = Idle]

\* It has answered that all is done.
Succeed(s) ==
    /\ Leave(s)
    /\ excused' = IF request[s].clear THEN excused \ {request[s].task}
                  ELSE excused \cup {request[s].task}

\* It has answered an error, or hangs: the row it has written stays.
GiveUp(s) ==
    /\ Leave(s)
    /\ excused' = IF request[s].op = "delete" THEN excused
                  ELSE excused \cup {request[s].task}

------------------------------------------------------------------------------
\* The engine on the agent.

\* CronStartHandler splits id,expression,command at every comma.
Parsed(w) == IF w.spec \in Comma \/ w.cmd \in Comma THEN Cut ELSE w

\* AddByFunc refuses a task that has an entry, and an expression it cannot
\* parse; it takes any command.
AddByFunc(t, w) ==
    /\ job[t] = NoJob /\ w.spec # Empty
    /\ job' = [job EXCEPT ![t] = Parsed(w)]

\* DeleteByID refuses a task without an entry.
DeleteByID(t) ==
    /\ job[t] # NoJob
    /\ job' = [job EXCEPT ![t] = NoJob]

\* CronInit: the agent starts again with an empty crontab.
CronInit ==
    /\ restarts < MaxRestarts
    /\ restarts' = restarts + 1
    /\ job' = [t \in Task |-> NoJob]
    /\ excused' = excused \cup {t \in Task : job[t] # NoJob}
    /\ UNCHANGED <<made, row, request, requests, overlapped>>

------------------------------------------------------------------------------
\* The handlers of the server.

\* CreatCron: a name that is taken, an empty name, expression or command ends
\* the request before it has done anything, and an expression of one character
\* makes it panic; one of two characters is stored empty.  The row is there
\* before the agent is asked; a task created switched off is done.
CreatCron(s, w, on) ==
    /\ made < MaxTasks
    /\ w.cmd # Empty
    /\ LET t == made + 1
       IN  /\ made' = t
           /\ row' = [row EXCEPT ![t] = [work |-> w, on |-> on, exists |-> TRUE]]
           /\ Arrive(s, "create", t, w, IF on THEN "read" ELSE "idle", TRUE)
    /\ UNCHANGED <<job, restarts, excused>>

\* Variant: the row goes whether or not the agent has stopped the task.
DeleteAnyway(s, t) ==
    /\ t <= made
    /\ Arrive(s, "delete", t, Blank, "erase", TRUE)
    /\ UNCHANGED <<made, row, job, restarts, excused>>

\* DeleteCronTask, for each id: stop the task, and then only drop the row.
DeleteCronTask(s, t) ==
    /\ t <= made
    /\ Arrive(s, "delete", t, Blank, "stop", TRUE)
    /\ UNCHANGED <<made, row, job, restarts, excused>>

\* DeleteTask; its error is only logged, and the request succeeds.
DeleteTask(s) ==
    /\ request[s].pc = "erase"
    /\ LET t == request[s].task
       IN  \/ row' = [row EXCEPT ![t] = NoRow] /\ Succeed(s)
           \/ UNCHANGED row /\ Leave(s) /\ excused' = excused \cup {t}
    /\ UNCHANGED <<made, job, requests, restarts, overlapped>>

\* Variant: a row is written whether or not there is one.
WrittenAnyway(t, saved) == saved

\* An update finds its row by the id; where there is none it changes nothing.
Written(t, saved) == saved /\ row[t].exists

\* gorm's Updates skips the fields of the form that are empty: they stay as
\* they are in the row.
Merged(old, w) == [spec |-> IF w.spec = Empty THEN old.spec ELSE w.spec,
                   cmd  |-> IF w.cmd = Empty THEN old.cmd ELSE w.cmd]
Whole(w) == w.spec # Empty /\ w.cmd # Empty

\* UpdateTask writes the form, if the row is there; no field is checked.  An
\* error is answered and the handler goes on, and gives the agent the form as
\* it came.  A task saved switched off is done: the agent is not told.
UpdateCron(s, t, w, on) ==
    /\ t <= made
    /\ \E saved \in BOOLEAN :
          /\ row' = IF Written(t, saved)
                    THEN [row EXCEPT ![t] = [work |-> Merged(row[t].work, w),
                                             on |-> on, exists |-> TRUE]]
                    ELSE row
          /\ Arrive(s, "update", t, w, IF on THEN "stop" ELSE "idle", saved /\ Whole(w))
    /\ excused' = IF on THEN excused ELSE excused \cup {t}
    /\ UNCHANGED <<made, job, restarts>>

\* Variant: the flag of the form is written as it comes.
WriteStatus(t, status) == [row EXCEPT ![t].on = status]

\* dao.CronTaskStatus stores the opposite of the status in the form, which is
\* the one the page shows.
FlipStatus(t, status) == [row EXCEPT ![t].on = ~status]

\* CronTaskStatus: IsTaskStatus compares two pointers and never refuses.  The
\* row is written first; a task shown as running is stopped, another one is
\* read and started.
CronTaskStatus(s, t, status) ==
    /\ t <= made
    /\ \E saved \in BOOLEAN :
          /\ row' = IF Written(t, saved) THEN FlipStatus(t, status) ELSE row
          /\ IF status THEN Arrive(s, "pause", t, Blank, "stop", saved)
                       ELSE Arrive(s, "resume", t, Blank, "read", saved)
    /\ UNCHANGED <<made, job, restarts, excused>>

\* Id2CronInfo: an empty expression when the row is gone.
Id2CronInfo(s) ==
    /\ request[s].pc = "read"
    /\ request' = [request EXCEPT ![s].work = row[request[s].task].work, ![s].pc = "start"]
    /\ UNCHANGED <<made, row, job, requests, restarts, overlapped, excused>>

------------------------------------------------------------------------------
\* Calls to the agent.  Answer lost: the task is changed on the agent, and the
\* handler waits for ever.

\* StopAndDel, and what the handler does next.
StopAndDel(s) ==
    /\ request[s].pc = "stop"
    /\ DeleteByID(request[s].task)
    /\ CASE request[s].op = "delete" -> GoOn(s, "erase") /\ UNCHANGED excused
         [] request[s].op = "update" -> GoOn(s, "start") /\ UNCHANGED excused
         [] request[s].op = "pause"  -> Succeed(s)
    /\ UNCHANGED <<made, row, requests, restarts, overlapped>>

\* CronStart, with the expression and command that were read or sent.
CronStart(s) ==
    /\ request[s].pc = "start"
    /\ AddByFunc(request[s].task, request[s].work)
    /\ Succeed(s)
    /\ UNCHANGED <<made, row, requests, restarts, overlapped>>

\* The agent refuses, is not connected, or the request or its answer is lost.
CallFails(s) ==
    /\ request[s].pc \in {"stop", "start"}
    /\ LET t == request[s].task
       IN  \/ UNCHANGED job /\ GiveUp(s)
           \/ /\ IF request[s].pc = "stop" THEN DeleteByID(t)
                                           ELSE AddByFunc(t, request[s].work)
              /\ Leave(s)
              /\ excused' = excused \cup {t}
    /\ UNCHANGED <<made, row, requests, restarts, overlapped>>

Next ==
    \/ \E s \in Slot :
          \/ \E w \in Work, on \in BOOLEAN : CreatCron(s, w, on)
          \/ \E t \in Task : \/ DeleteCronTask(s, t)
                             \/ \E w \in Work, on \in BOOLEAN : UpdateCron(s, t, w, on)
                             \/ \E status \in BOOLEAN : CronTaskStatus(s, t, status)
          \/ DeleteTask(s) \/ Id2CronInfo(s) \/ StopAndDel(s) \/ CronStart(s) \/ CallFails(s)
    \/ CronInit

Spec == Init /\ [][Next]_vars
------------------------------------------------------------------------------
(***************************************************************************)
(* Properties.                                                             *)
(***************************************************************************)

\* The variables hold what the code can put in them.
TypeOK ==
    /\ made \in 0 .. MaxTasks
    /\ row \in [Task -> Row]
    /\ job \in [Task -> Work \cup {Cut}]
    /\ request \in [Slot -> Request]
    /\ requests \in 0 .. MaxRequests /\ restarts \in 0 .. MaxRestarts
    /\ overlapped \subseteq Task /\ excused \subseteq Task

\* A task the agent runs has a row, through which it can be stopped.  Only two
\* requests on the same task at the same time can leave one without: a delete
\* that comes between the read of the row and the start.  DeleteTask comes
\* after a StopAndDel that succeeded.
NoOrphanJob ==
    \A t \in Task : job[t] # NoJob => row[t].exists \/ t \in overlapped

\* A row tells what the agent does: it is switched on if and only if the agent
\* has the task, with the work the row says, unless a comma cut it.  Excused
\* are the cases in which the code knowingly or silently leaves the two apart:
\* the agent has restarted, the last call failed or was lost after the row was
\* written, an error of the database was passed over, the form of an update
\* had an empty expression or command, which the row does not take over and
\* the agent does, the task was saved switched off by UpdateCron, or requests
\* overlapped.  The next request that is alone, whole and succeeds ends the
\* excuse.
Agrees(t) ==
    /\ row[t].on <=> job[t] # NoJob
    /\ job[t] # NoJob => job[t] = Parsed(row[t].work)

Agreement ==
    \A t \in Task : Open(t) = {} /\ t \notin excused /\ row[t].exists => Agrees(t)
=============================================================================
