---------------------------- MODULE Organisation -----------------------------
(***************************************************************************)
(* Departments, the machines in them, users and roles: four tables that    *)
(* requests read and write one SQL statement at a time, with no            *)
(* transaction and no foreign key.  gin serves any number of requests at   *)
(* once.  A step is one statement, or several in a row that no other       *)
(* request can tell apart.  A department, a user and a role is its id.     *)
(***************************************************************************)
EXTENDS Naturals, FiniteSets

CONSTANTS Parents,      \* the department table at the start: parents of 2, 3, ..
          FirstNames,   \* and the names of 1, 2, ..
          MaxDeparts,   \* bound: departments ever created
          Name,         \* names of departments
          RootName,     \* the name CreateOrganization gives
          Machine,
          MaxUsers,     \* bound: users ever created
          Email,
          AdminEmail,   \* admin@123.com
          RoleId,       \* ids roles get
          AdminRole,    \* the id of the first role
          Slot,         \* requests being served at a time
          MaxRequests   \* bound: requests made

None == 0
FirstDeparts == Cardinality(DOMAIN Parents) + 1

ASSUME OrganisationAssumption ==
    /\ MaxDeparts \in Nat /\ FirstDeparts \in 1 .. MaxDeparts
    /\ \A d \in 2 .. FirstDeparts : Parents[d] \in 1 .. d - 1
    /\ Name \subseteq Nat \ {None} /\ RootName \in Name
    /\ FirstNames \in [1 .. FirstDeparts -> Name]
    /\ RoleId \subseteq 1 .. 99 /\ AdminRole \in RoleId
    /\ MaxUsers \in Nat \ {0} /\ MaxRequests \in Nat
    /\ AdminEmail \in Email

Depart == 1 .. MaxDeparts
User   == 1 .. MaxUsers

\* Variant: ids counted from 0.
FirstId == 0

\* global.UncateloguedDepartId, where machines without a department are.
Uncatalogued == 1

VARIABLES
    depart,    \* table depart_node
    departs,   \* departments created so far
    place,     \* DepartId of each machine
    user,      \* table user
    users,     \* users created so far
    role,      \* ids in table user_role
    spent,     \* role ids given so far
    request,   \* the handler goroutine in each slot
    requests,  \* requests made so far
    loose,     \* machines, users and departments written with a form or a read
               \* that had become stale, see the properties
    stranded   \* departments deleted whose users were not

tables  == <<depart, departs, place, user, users, role, spent>>
vars    == <<tables, request, requests, loose, stranded>>

NoDepart == [exists |-> FALSE, root |-> FALSE, pid |-> 0, parent |-> None, name |-> None]
Root     == [exists |-> TRUE, root |-> TRUE, pid |-> 0, parent |-> None, name |-> RootName]
NoUser   == [exists |-> FALSE, email |-> AdminEmail, dept |-> 0, roles |-> {}]
NoForm   == [email |-> AdminEmail, dept |-> 0, roles |-> {}]
Idle     == [op |-> "none", pc |-> "idle", d |-> 0, parent |-> None, name |-> None,
             subs |-> {}, todo |-> {}, form |-> NoForm, role |-> 0]

InTable(d) == d \in Depart /\ depart[d].exists
Children(d) == {c \in Depart : depart[c].exists /\ depart[c].pid = d}
Roots == {d \in Depart : depart[d].exists /\ depart[d].root}
MachineStore(d) == {m \in Machine : place[m] = d}
IsEmailExist(e) == \E u \in User : user[u].exists /\ user[u].email = e

\* The start of the program with the table of departments it finds.
Init ==
    /\ depart = [d \in Depart |->
          IF d = 1 THEN [Root EXCEPT !.name = FirstNames[1]]
          ELSE IF d <= FirstDeparts
               THEN [exists |-> TRUE, root |-> FALSE, pid |-> Parents[d],
                     parent |-> FirstNames[Parents[d]], name |-> FirstNames[d]]
          ELSE NoDepart]
    /\ departs = FirstDeparts
    /\ place \in [Machine -> 1 .. FirstDeparts]
    /\ user = [u \in User |-> IF u = 1
                 THEN [exists |-> TRUE, email |-> AdminEmail, dept |-> Uncatalogued,
                       roles |-> {AdminRole}]
                 ELSE NoUser]
    /\ users = 1
    /\ role = {AdminRole} /\ spent = {AdminRole}
    /\ request = [s \in Slot |-> Idle]
    /\ requests = 0
    /\ loose = {} /\ stranded = {}

------------------------------------------------------------------------------
\* Requests.

\* A request takes a slot, as record r.
Arrive(s, r) ==
    /\ request[s].pc = "idle"
    /\ requests < MaxRequests
    /\ requests' = requests + 1
    /\ request' = [request EXCEPT ![s] = r]

\* A request that is one statement, or none that matters.
AtOnce(s) == Arrive(s, Idle)

GoOn(s, r) == request' = [request EXCEPT ![s] = r] /\ UNCHANGED requests
Leave(s) == GoOn(s, Idle)

Deleting(d) == \E s \in Slot : request[s].op = "delete" /\ d # 0
                                  /\ request[s].d \in {d, depart[d].pid}
Renaming(d) == \E s \in Slot : request[s].op = "rename" /\ request[s].d = d
Dropping(R) == \E s \in Slot : request[s].op = "drop" /\ request[s].role \in R
Adding(e) == {s \in Slot : request[s].op = "add user" /\ request[s].form.email = e}

\* A statement fails, which a handler of several ends with.
StatementFails(s) ==
    /\ request[s].pc # "idle"
    /\ stranded' = IF request[s].pc = "users" THEN stranded \cup {request[s].d} ELSE stranded
    /\ loose' = IF request[s].pc = "children"
                THEN loose \cup {<<"parent name", c>> : c \in Children(request[s].d)} ELSE loose
    /\ Leave(s)
    /\ UNCHANGED tables

------------------------------------------------------------------------------
\* Departments.

\* AddDepartMethod: the parent's id and the parent's name are looked up each
\* for itself.  No parent name is the form of a new root.
AddDepart(s, pid, parent, name) ==
    /\ InTable(pid)
    /\ ~\E d \in Depart : depart[d].exists /\ depart[d].parent = parent /\ depart[d].name = name
    /\ IF parent = None THEN Roots = {}
       ELSE \E d \in Depart : depart[d].exists /\ depart[d].name = parent
    /\ Arrive(s, [Idle EXCEPT !.op = "add", !.pc = "insert", !.d = pid,
                              !.parent = parent, !.name = name])
    /\ UNCHANGED <<tables, loose, stranded>>

AddDepartMessage(s) ==
    /\ request[s].op = "add"
    /\ departs < MaxDeparts
    /\ departs' = departs + 1
    /\ LET r == request[s]
       IN  /\ depart' = [depart EXCEPT ![departs + 1] =
                 [exists |-> TRUE, root |-> r.parent = None, pid |-> r.d,
                  parent |-> r.parent, name |-> r.name]]
           /\ loose' = loose
                 \cup (IF depart[r.d].name # r.parent \/ Renaming(r.d)
                       THEN {<<"parent name", departs + 1>>} ELSE {})
                 \cup (IF ~InTable(r.d) THEN {<<"orphan", departs + 1>>} ELSE {})
                 \cup (IF r.parent = None THEN {<<"orphan", d>> : d \in Roots} ELSE {})
    /\ Leave(s)
    /\ UNCHANGED <<place, user, users, role, spent, stranded>>

\* Variant: the copy of the name in the children is left.
RenameAlone(s, d, name) ==
    /\ depart' = IF InTable(d) THEN [depart EXCEPT ![d].name = name] ELSE depart
    /\ AtOnce(s)
    /\ UNCHANGED <<departs, place, user, users, role, spent, loose, stranded>>

\* UpdateDepart: the name, and in a second statement its copy in the children.
UpdateDepart(s, d, name) ==
    /\ depart' = IF InTable(d) THEN [depart EXCEPT ![d].name = name] ELSE depart
    /\ loose' = IF Renaming(d)
                THEN loose \cup {<<"parent name", c>> : c \in Children(d)} ELSE loose
    /\ Arrive(s, [Idle EXCEPT !.op = "rename", !.pc = "children", !.d = d, !.name = name])
    /\ UNCHANGED <<departs, place, user, users, role, spent, stranded>>

UpdateParentDepart(s) ==
    /\ request[s].pc = "children"
    /\ depart' = [d \in Depart |-> IF d \in Children(request[s].d)
                                   THEN [depart[d] EXCEPT !.parent = request[s].name]
                                   ELSE depart[d]]
    /\ Leave(s)
    /\ UNCHANGED <<departs, place, user, users, role, spent, loose, stranded>>

\* Variant: the machines of the departments below are forgotten.
DeleteOwnMachines(s, d) ==
    /\ InTable(d)
    /\ Arrive(s, [Idle EXCEPT !.op = "delete", !.pc = "rows", !.d = d])
    /\ place' = [m \in Machine |-> IF place[m] = d THEN Uncatalogued ELSE place[m]]
    /\ UNCHANGED <<depart, departs, user, users, role, spent, loose, stranded>>

\* DeleteDepartData: the department may be any, the root too.  Its machines
\* are read, then moved one by one; then the same for each child.
DeleteDepart(s, d) ==
    /\ InTable(d)
    /\ Arrive(s, [Idle EXCEPT !.op = "delete", !.pc = "own", !.d = d, !.todo = MachineStore(d)])
    /\ UNCHANGED <<tables, loose, stranded>>

\* ModifyMachineDepart2 for the machines read, then the next read: SubDepartId
\* after the department's own, MachineStore of a child, or Pid2Depart.
MoveMachines(s) ==
    /\ request[s].pc \in {"own", "sub"}
    /\ place' = [m \in Machine |-> IF m \in request[s].todo THEN Uncatalogued ELSE place[m]]
    /\ LET left == IF request[s].pc = "own" THEN Children(request[s].d) ELSE request[s].subs
       IN  IF left = {}
           THEN GoOn(s, [request[s] EXCEPT !.pc = "rows", !.subs = {}, !.todo = {}])
           ELSE \E c \in left : GoOn(s, [request[s] EXCEPT !.pc = "sub", !.subs = left \ {c},
                    !.todo = {m \in Machine : place'[m] = c}])
    /\ UNCHANGED <<depart, departs, user, users, role, spent, loose, stranded>>

\* Variant: the children of the department stay.
DeleteNodeAlone(s) ==
    /\ request[s].pc = "rows"
    /\ depart' = [depart EXCEPT ![request[s].d] = NoDepart]
    /\ GoOn(s, [request[s] EXCEPT !.pc = "users"])
    /\ UNCHANGED <<departs, place, user, users, role, spent, loose, stranded>>

\* DeleteDepartNode: the department and its children go; Insertdepartlist
\* reads the children of those and its result is dropped, so they stay.  An
\* error is only logged.
DeleteDepartNode(s) ==
    /\ request[s].pc = "rows"
    /\ LET d == request[s].d
       IN  \E gone \in SUBSET ({d} \cup Children(d)) :
              /\ depart' = [c \in Depart |-> IF c \in gone THEN NoDepart ELSE depart[c]]
              /\ stranded' = stranded \cup (gone \ {d})
              /\ loose' = loose \cup {<<"orphan", c>> : c \in UNION {Children(x) : x \in gone}}
    /\ GoOn(s, [request[s] EXCEPT !.pc = "users"])
    /\ UNCHANGED <<departs, place, user, users, role, spent>>

\* Variant: the users are asked for by the parent's id.
DelUserOfParent(s) ==
    /\ request[s].pc = "users"
    /\ user' = [u \in User |-> IF user[u].dept = depart[request[s].d].pid THEN NoUser ELSE user[u]]
    /\ Leave(s)
    /\ UNCHANGED <<depart, departs, place, users, role, spent, loose, stranded>>

\* DelUser: the users of the department itself.
DelUser(s) ==
    /\ request[s].pc = "users"
    /\ user' = [u \in User |-> IF user[u].dept = request[s].d THEN NoUser ELSE user[u]]
    /\ Leave(s)
    /\ UNCHANGED <<depart, departs, place, users, role, spent, loose, stranded>>

\* ModifyMachineDepart: the department is not looked up.
ModifyMachineDepart(s, m, d) ==
    /\ d <= departs
    /\ place' = [place EXCEPT ![m] = d]
    /\ loose' = IF InTable(d) /\ ~Deleting(d) THEN loose \ {<<"machine", m>>}
                ELSE loose \cup {<<"machine", m>>}
    /\ AtOnce(s)
    /\ UNCHANGED <<depart, departs, user, users, role, spent, stranded>>

------------------------------------------------------------------------------
\* Users and roles.

\* Variant: the email is not looked up.
RegisterAnyEmail(s, form) ==
    /\ Arrive(s, [Idle EXCEPT !.op = "add user", !.pc = "insert", !.form = form])
    /\ loose' = IF Adding(form.email) = {} THEN loose ELSE loose \cup {<<"email", form.email>>}
    /\ UNCHANGED <<tables, stranded>>

\* Register and a row of ReadFile: the email is looked up, and the row is
\* inserted in a later statement.  Import takes the ids of the department and
\* the role by their names, None when there is none; the form of Register has ids of its own.
Register(s, form) ==
    /\ ~IsEmailExist(form.email)
    /\ Arrive(s, [Idle EXCEPT !.op = "add user", !.pc = "insert", !.form = form])
    /\ loose' = IF Adding(form.email) = {} THEN loose ELSE loose \cup {<<"email", form.email>>}
    /\ UNCHANGED <<tables, stranded>>

AddUser(s) ==
    /\ request[s].op = "add user"
    /\ users < MaxUsers
    /\ users' = users + 1
    /\ LET f == request[s].form
       IN  /\ user' = [user EXCEPT ![users + 1] =
                 [exists |-> TRUE, email |-> f.email, dept |-> f.dept, roles |-> f.roles]]
           /\ loose' = loose
                 \cup (IF f.dept # 0 /\ InTable(f.dept) /\ ~Deleting(f.dept) THEN {}
                       ELSE {<<"user", users + 1>>})
                 \cup (IF f.roles \subseteq role /\ ~Dropping(f.roles) THEN {}
                       ELSE {<<"roles", users + 1>>})
    /\ Leave(s)
    /\ UNCHANGED <<depart, departs, place, role, spent, stranded>>

\* UpdateUser: the department is written unless the form repeats the stored
\* name.
UpdateUser(s, e, d) ==
    /\ d <= departs
    /\ LET them == {u \in User : user[u].exists /\ user[u].email = e}
       IN  /\ user' = [u \in User |-> IF u \in them THEN [user[u] EXCEPT !.dept = d] ELSE user[u]]
           /\ loose' = IF InTable(d) /\ ~Deleting(d) THEN loose \ {<<"user", u>> : u \in them}
                       ELSE loose \cup {<<"user", u>> : u \in them}
    /\ AtOnce(s)
    /\ UNCHANGED <<depart, departs, place, users, role, spent, stranded>>

DeleteUser(s, e) ==
    /\ user' = [u \in User |-> IF user[u].email = e THEN NoUser ELSE user[u]]
    /\ AtOnce(s)
    /\ UNCHANGED <<depart, departs, place, users, role, spent, loose, stranded>>

AddRole(s, r) ==
    /\ r \in RoleId \ spent
    /\ \A x \in spent : x < r
    /\ role' = role \cup {r} /\ spent' = spent \cup {r}
    /\ AtOnce(s)
    /\ UNCHANGED <<depart, departs, place, user, users, loose, stranded>>

\* Variant: only a user with this one role counts as bound.
BoundAlone(r) == \E u \in User : user[u].exists /\ user[u].roles = {r}

\* strings.Contains of the digits of r in the list of the user's role ids: a
\* role of one digit is bound by every role whose id has that digit.
IsUserBindingRole(r) ==
    \E u \in User : user[u].exists
        /\ \E q \in user[u].roles : q = r \/ (r < 10 /\ r \in {q % 10, q \div 10})

DeleteUserRole(s, r) ==
    /\ r \in spent
    /\ ~IsUserBindingRole(r)
    /\ Arrive(s, [Idle EXCEPT !.op = "drop", !.pc = "drop", !.role = r])
    /\ UNCHANGED <<tables, loose, stranded>>

DeleteRole(s) ==
    /\ request[s].pc = "drop"
    /\ role' = role \ {request[s].role}
    /\ Leave(s)
    /\ UNCHANGED <<depart, departs, place, user, users, spent, loose, stranded>>

\* The server starts again.  What handlers were doing stays undone, and
\* CreateOrganization adds a root if no row has the parent 0.
Restart ==
    /\ \E s \in Slot : request[s].pc # "idle"
    /\ request' = [s \in Slot |-> Idle]
    /\ LET at(pc) == {request[s].d : s \in {z \in Slot : request[z].pc = pc}}
           lacking == ~\E d \in Depart : depart[d].exists /\ depart[d].pid = 0
       IN  /\ stranded' = stranded \cup at("users")
           /\ IF lacking THEN /\ departs < MaxDeparts
                              /\ departs' = departs + 1
                              /\ depart' = [depart EXCEPT ![departs + 1] = Root]
              ELSE UNCHANGED <<depart, departs>>
           /\ loose' = loose
                 \cup {<<"parent name", c>> : c \in UNION {Children(d) : d \in at("children")}}
                 \cup (IF lacking THEN {<<"orphan", d>> : d \in Roots} ELSE {})
    /\ UNCHANGED <<place, user, users, role, spent, requests>>

\* CreateAdministratorUser at the start of the server: without a role of the
\* type of the first one it adds a role and a user, and looks at no user.
CreateAdministratorUser ==
    /\ \A s \in Slot : request[s].pc = "idle"
    /\ AdminRole \notin role
    /\ users < MaxUsers
    /\ users' = users + 1
    /\ \E r \in RoleId :
          /\ \A x \in spent : x < r
          /\ role' = role \cup {r} /\ spent' = spent \cup {r}
          /\ user' = [user EXCEPT ![users + 1] =
                [exists |-> TRUE, email |-> AdminEmail, dept |-> Uncatalogued, roles |-> {r}]]
    /\ loose' = loose \cup (IF InTable(Uncatalogued) THEN {} ELSE {<<"user", users + 1>>})
                     \cup (IF IsEmailExist(AdminEmail) THEN {<<"email", AdminEmail>>} ELSE {})
    /\ UNCHANGED <<depart, departs, place, request, requests, stranded>>

Form == [email : Email, dept : 0 .. departs, roles : {R \in SUBSET spent : R # {}}]

Next ==
    \/ \E s \in Slot :
          \/ \E d \in Depart :
                \/ \E n \in Name, p \in Name \cup {None} : AddDepart(s, d, p, n)
                \/ \E n \in Name : UpdateDepart(s, d, n)
                \/ DeleteDepart(s, d)
                \/ \E m \in Machine : ModifyMachineDepart(s, m, d)
                \/ \E e \in Email : UpdateUser(s, e, d)
          \/ \E f \in Form : Register(s, f)
          \/ \E e \in Email : DeleteUser(s, e)
          \/ \E r \in RoleId : AddRole(s, r) \/ DeleteUserRole(s, r)
          \/ AddDepartMessage(s) \/ UpdateParentDepart(s) \/ MoveMachines(s)
          \/ DeleteDepartNode(s) \/ DelUser(s) \/ AddUser(s) \/ DeleteRole(s)
          \/ StatementFails(s)
    \/ Restart \/ CreateAdministratorUser

Spec == Init /\ [][Next]_vars
------------------------------------------------------------------------------
(***************************************************************************)
(* Properties.                                                             *)
(***************************************************************************)

\* The variables hold what the code can put in them.
TypeOK ==
    /\ depart \in [Depart -> [exists : BOOLEAN, root : BOOLEAN, pid : 0 .. MaxDeparts,
                              parent : Name \cup {None}, name : Name \cup {None}]]
    /\ departs \in FirstDeparts .. MaxDeparts
    /\ place \in [Machine -> Depart]
    /\ users \in 1 .. MaxUsers
    /\ \A u \in User : user[u].email \in Email /\ user[u].dept \in 0 .. MaxDeparts
                        /\ user[u].roles \subseteq RoleId
    /\ role \subseteq spent /\ spent \subseteq RoleId
    /\ requests \in 0 .. MaxRequests

\* A machine is in a department of the table, so some list shows it: deleting
\* a department moves its machines and those of its children before any row
\* goes.  Except a machine that was moved to a department while that was
\* being deleted or after it, and every free machine once the root is gone.
MachinePlaced ==
    \A m \in Machine :
        InTable(place[m]) \/ <<"machine", m>> \in loose \/ place[m] = Uncatalogued

\* A user is in a department of the table.  Deleting a department deletes its
\* users, and leaves those of the departments deleted with it stranded; a form
\* or an import can name a department that is not there.
UserPlaced ==
    \A u \in User : user[u].exists =>
        \/ InTable(user[u].dept) \/ user[u].dept \in stranded
        \/ <<"user", u>> \in loose
        \/ \E s \in Slot : request[s].pc = "users" /\ request[s].d = user[u].dept

\* The copy of the parent's name in a department is the parent's name, unless
\* two requests wrote the names at once, one of them was cut short, or the
\* department was added with the name of another one.
ParentNamed ==
    \A d \in Depart :
        depart[d].exists /\ ~depart[d].root /\ InTable(depart[d].pid) =>
            \/ depart[d].parent = depart[depart[d].pid].name
            \/ <<"parent name", d>> \in loose \/ Renaming(depart[d].pid)

\* Returnptrchild keeps the last root, MakeTree hangs departments below it.
Shown[d \in Depart] ==
    /\ depart[d].exists
    /\ IF depart[d].root THEN \A r \in Roots : r <= d
       ELSE depart[d].pid \in 1 .. d - 1 /\ Shown[depart[d].pid]

\* It or a department above it was left behind.
Orphaned[d \in Depart] ==
    <<"orphan", d>> \in loose \/ (depart[d].pid \in 1 .. d - 1 /\ Orphaned[depart[d].pid])

\* The tree shows every department of the table, but for what DeleteDepart
\* leaves two levels below the department it deletes, what was added below a
\* department that had just gone, and what hangs on a root when there are two.
EveryDepartShown == \A d \in Depart : depart[d].exists => Shown[d] \/ Orphaned[d]

\* No two users have one email, unless two requests added it at once or a
\* start of the server added its administrator beside a user with that email.
UniqueEmail ==
    \A u, v \in User :
        user[u].exists /\ user[v].exists /\ user[u].email = user[v].email =>
            u = v \/ <<"email", user[u].email>> \in loose

\* A role some user has is not deleted, unless the user was added while the
\* role was being deleted, or with a role that was not there.
BoundRoleStays ==
    \A u \in User : user[u].exists => user[u].roles \subseteq role \/ <<"roles", u>> \in loose
=============================================================================
