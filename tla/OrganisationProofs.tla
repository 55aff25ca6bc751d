-------------------------- MODULE OrganisationProofs --------------------------
(***************************************************************************)
(* Proofs about Organisation, for every table of departments, every set of *)
(* machines, emails and roles and every number of requests at a time.      *)
(***************************************************************************)
EXTENDS Organisation, WellFoundedInduction, TLAPS

FormType == [email : Email, dept : 0 .. MaxDeparts, roles : SUBSET RoleId]

\* What a slot holds, and which steps a handler of each kind has.
Handler ==
    [op : {"none", "add", "rename", "delete", "add user", "drop"},
     pc : {"idle", "insert", "children", "own", "sub", "rows", "users", "drop"},
     d : 0 .. MaxDeparts, parent : Name \cup {None}, name : Name \cup {None},
     subs : SUBSET Depart, todo : SUBSET Machine, form : FormType, role : 0 .. 99]

Regular(r, n) ==
    /\ r.op = "none" <=> r.pc = "idle"
    /\ r.op \in {"add", "add user"} <=> r.pc = "insert"
    /\ r.op = "rename" <=> r.pc = "children"
    /\ r.op = "delete" <=> r.pc \in {"own", "sub", "rows", "users"}
    /\ r.op = "drop" <=> r.pc = "drop"
    /\ r.op \in {"add", "delete"} => r.d \in 1 .. n
    /\ r.pc = "rows" => r.subs = {} /\ r.todo = {}

Steps == \A s \in Slot : Regular(request[s], departs)

Account == [exists : BOOLEAN, email : Email, dept : 0 .. MaxDeparts, roles : SUBSET RoleId]
Node == [exists : BOOLEAN, root : BOOLEAN, pid : 0 .. MaxDeparts,
         parent : Name \cup {None}, name : Name \cup {None}]

Typed ==
    /\ TypeOK
    /\ user \in [User -> Account]
    /\ request \in [Slot -> Handler]

\* Ids are given once, and rows refer to ids that were given.
FreshDeparts ==
    \A d \in Depart : depart[d].pid \in 0 .. departs /\ (d > departs => ~depart[d].exists)
FreshPlaces == \A m \in Machine : place[m] \in 1 .. departs
FreshUsers  == \A u \in User : u > users => ~user[u].exists

Fresh == FreshDeparts /\ FreshPlaces /\ FreshUsers

\* Machine m has been moved while its department was being deleted, or is free.
Excused(m) == <<"machine", m>> \in loose \/ place[m] = Uncatalogued

\* The machines of a department are read before they are moved; once they
\* are, those of the children that are left; at last there are none.
Cleared ==
    \A s \in Slot, m \in Machine :
       /\ request[s].pc = "own" /\ place[m] = request[s].d
             => m \in request[s].todo \/ Excused(m)
       /\ request[s].pc \in {"sub", "rows"}
             /\ request[s].d \in {place[m], depart[place[m]].pid}
             => m \in request[s].todo \/ place[m] \in request[s].subs \/ Excused(m)

\* What a rename is about to copy to the children is the name of their parent.
Copied ==
    \A s \in Slot, c \in Depart :
       request[s].pc = "children" /\ depart[c].exists /\ depart[c].pid = request[s].d
          => \/ <<"parent name", c>> \in loose
             \/ ~InTable(request[s].d)
             \/ depart[request[s].d].name = request[s].name

\* The email of a user about to be added is not in the table, and only one
\* request is about to add it.
Unheard ==
    \A s \in Slot : request[s].op = "add user" =>
       /\ IsEmailExist(request[s].form.email) => <<"email", request[s].form.email>> \in loose
       /\ \A z \in Slot : request[z].op = "add user" /\ z # s
                             /\ request[z].form.email = request[s].form.email
                          => <<"email", request[s].form.email>> \in loose

\* No user has the role that is about to be deleted.
Unbound ==
    \A s \in Slot, u \in User :
       request[s].op = "drop" /\ user[u].exists /\ request[s].role \in user[u].roles
          => <<"roles", u>> \in loose

Inductive ==
    /\ Typed /\ Steps /\ Fresh
    /\ Cleared /\ MachinePlaced /\ UserPlaced
    /\ Copied /\ ParentNamed
    /\ Unheard /\ UniqueEmail
    /\ Unbound /\ BoundRoleStays

------------------------------------------------------------------------------
\* Slots.

\* An idle slot and an empty form have their types.
LEMMA IdleHandler == Idle \in Handler /\ NoForm \in FormType
BY OrganisationAssumption DEF Idle, NoForm, Handler, FormType, None

\* Slot s holds r and the others what they held.
Put(s, r) ==
    /\ request' \in [Slot -> Handler]
    /\ request'[s] = r
    /\ \A z \in Slot \ {s} : request'[z] = request[z]

\* A request that arrives takes a slot that was idle.
LEMMA ArriveFacts ==
    ASSUME Typed, NEW s \in Slot, NEW r \in Handler, Arrive(s, r)
    PROVE  Put(s, r) /\ request[s].pc = "idle" /\ requests' \in 0 .. MaxRequests
BY OrganisationAssumption DEF Typed, TypeOK, Arrive, Put

\* A handler that goes on keeps its slot.
LEMMA GoOnFacts ==
    ASSUME Typed, NEW s \in Slot, NEW r \in Handler, GoOn(s, r)
    PROVE  Put(s, r) /\ requests' = requests
BY DEF Typed, GoOn, Put

\* A handler that ends leaves its slot idle.
LEMMA LeaveFacts ==
    ASSUME Typed, NEW s \in Slot, Leave(s)
    PROVE  Put(s, Idle) /\ requests' = requests
BY GoOnFacts, IdleHandler DEF Leave

\* A request of one statement leaves the slots as they were.
LEMMA AtOnceFacts ==
    ASSUME Typed, NEW s \in Slot, AtOnce(s)
    PROVE  Put(s, Idle) /\ request[s].pc = "idle" /\ requests' \in 0 .. MaxRequests
BY ArriveFacts, IdleHandler DEF AtOnce

\* No request has come and the tables are what the start found.
LEMMA InductiveInit == Init => Inductive
<1> SUFFICES ASSUME Init PROVE Inductive
  OBVIOUS
<1> USE OrganisationAssumption
<1>1. Typed
  <2>1. depart \in [Depart -> Node]
    <3>1. NoDepart \in Node /\ [Root EXCEPT !.name = FirstNames[1]] \in Node
      <4>1. FirstNames[1] \in Name /\ RootName \in Name /\ MaxDeparts \in Nat
        OBVIOUS
      <4>2. NoDepart \in Node
        BY <4>1 DEF Node, NoDepart
      <4>3. Root \in Node
        BY <4>1 DEF Node, Root
      <4>4. [Root EXCEPT !.name = FirstNames[1]] \in Node
        BY <4>1, <4>3 DEF Node
      <4>5. QED
        BY <4>2, <4>4
    <3>2. ASSUME NEW d \in 2 .. FirstDeparts
          PROVE  [exists |-> TRUE, root |-> FALSE, pid |-> Parents[d],
                  parent |-> FirstNames[Parents[d]], name |-> FirstNames[d]] \in Node
      <4>1. Parents[d] \in 1 .. d - 1 /\ d \in 1 .. FirstDeparts
        OBVIOUS
      <4>2. Parents[d] \in 0 .. MaxDeparts /\ FirstNames[Parents[d]] \in Name /\ FirstNames[d] \in Name
        BY <4>1
      <4>3. QED
        BY <4>2 DEF Node
    <3>3. ASSUME NEW d \in Depart PROVE depart[d] \in Node
      <4>1. CASE d = 1
        BY <3>1, <4>1 DEF Init
      <4>2. CASE d # 1 /\ d <= FirstDeparts
        <5>1. d \in 2 .. FirstDeparts
          BY <4>2 DEF Depart
        <5>2. depart[d] = [exists |-> TRUE, root |-> FALSE, pid |-> Parents[d],
                  parent |-> FirstNames[Parents[d]], name |-> FirstNames[d]]
          BY <4>2 DEF Init
        <5>3. QED
          BY <3>2, <5>1, <5>2
      <4>3. CASE d # 1 /\ ~(d <= FirstDeparts)
        BY <3>1, <4>3 DEF Init
      <4>4. QED
        BY <4>1, <4>2, <4>3
    <3>4. QED
      BY <3>3 DEF Init
  <2>2. user \in [User -> Account]
    BY DEF Init, User, Account, NoUser, Uncatalogued
  <2>3. request \in [Slot -> Handler]
    BY IdleHandler DEF Init
  <2>4. place \in [Machine -> Depart]
    BY DEF Init, Depart
  <2>5. QED
    <3>1. /\ role \subseteq spent /\ spent \subseteq RoleId /\ users \in 1 .. MaxUsers
          /\ requests \in 0 .. MaxRequests /\ departs \in FirstDeparts .. MaxDeparts
      BY DEF Init
    <3>2. \A u \in User : user[u].email \in Email /\ user[u].dept \in 0 .. MaxDeparts
                            /\ user[u].roles \subseteq RoleId
      BY <2>2 DEF Account
    <3>3. QED
      BY <2>1, <2>2, <2>3, <2>4, <3>1, <3>2 DEF Typed, TypeOK, Node
<1>2. Steps
  BY DEF Init, Steps, Regular, Idle
<1>3. Fresh
  <2>1. FreshDeparts
    <3>1. ASSUME NEW d \in Depart
          PROVE  depart[d].pid \in 0 .. departs /\ (d > departs => ~depart[d].exists)
      BY DEF Init, Depart, NoDepart, Root
    <3>2. QED
      BY <3>1 DEF FreshDeparts
  <2>2. FreshPlaces /\ FreshUsers
    BY DEF Init, FreshPlaces, FreshUsers, User, NoUser
  <2>3. QED
    BY <2>1, <2>2 DEF Fresh
<1>4. Cleared /\ Copied /\ Unheard /\ Unbound
  BY DEF Init, Cleared, Copied, Unheard, Unbound, Idle
<1>5. MachinePlaced
  BY DEF Init, MachinePlaced, InTable, Depart, Root
<1>6. UserPlaced /\ UniqueEmail /\ BoundRoleStays
  BY DEF Init, UserPlaced, UniqueEmail, BoundRoleStays, InTable, Depart, User, NoUser, Uncatalogued, Root
<1>7. ParentNamed
  BY DEF Init, ParentNamed, InTable, Depart, Root, NoDepart
<1>8. QED
  BY <1>1, <1>2, <1>3, <1>4, <1>5, <1>6, <1>7 DEF Inductive

------------------------------------------------------------------------------
\* What the steps do, one lemma for each.

\* The tables as they are.
LEMMA TypedParts ==
    ASSUME Typed
    PROVE  /\ depart \in [Depart -> Node] /\ departs \in FirstDeparts .. MaxDeparts
           /\ place \in [Machine -> Depart]
           /\ user \in [User -> Account] /\ users \in 1 .. MaxUsers
           /\ role \subseteq spent /\ spent \subseteq RoleId
           /\ request \in [Slot -> Handler] /\ requests \in 0 .. MaxRequests
BY DEF Typed, TypeOK, Node

\* Departments are numbered from 1.
LEMMA Numbers ==
    ASSUME Typed
    PROVE  departs \in Nat /\ departs >= 1 /\ MaxDeparts \in Nat /\ departs <= MaxDeparts
BY OrganisationAssumption DEF Typed, TypeOK

\* A department to be added.
LEMMA AddDepartFacts ==
    ASSUME Typed, NEW s \in Slot, NEW d \in Depart, NEW p \in Name \cup {None}, NEW n \in Name,
           AddDepart(s, d, p, n)
    PROVE  /\ Put(s, request'[s]) /\ request[s].pc = "idle" /\ requests' \in 0 .. MaxRequests
           /\ request'[s].op = "add" /\ request'[s].pc = "insert"
           /\ request'[s].d = d /\ request'[s].parent = p /\ request'[s].name = n
           /\ InTable(d)
           /\ UNCHANGED <<depart, departs, place, user, users, role, spent, loose, stranded>>
<1> DEFINE r == [Idle EXCEPT !.op = "add", !.pc = "insert", !.d = d, !.parent = p, !.name = n]
<1>1. Idle \in Handler /\ d \in 0 .. MaxDeparts
  BY IdleHandler, OrganisationAssumption DEF Depart
<1>2. /\ r \in Handler /\ r.op = "add" /\ r.pc = "insert"
      /\ r.d = d /\ r.parent = p /\ r.name = n
  BY <1>1 DEF Handler
<1>3. Arrive(s, r) /\ InTable(d) /\ UNCHANGED <<tables, loose, stranded>>
  BY DEF AddDepart
<1> HIDE DEF r
<1>4. Put(s, r) /\ request[s].pc = "idle" /\ requests' \in 0 .. MaxRequests
  BY <1>2, <1>3, ArriveFacts
<1>5. QED
  BY <1>2, <1>3, <1>4 DEF Put, tables

\* A department is added below the parent of the request.
LEMMA AddDepartMessageFacts ==
    ASSUME Typed, NEW s \in Slot, AddDepartMessage(s)
    PROVE  /\ Put(s, Idle) /\ requests' = requests /\ request[s].op = "add"
           /\ departs' = departs + 1 /\ departs' \in Depart
           /\ depart' \in [Depart -> Node]
           /\ depart'[departs'].exists /\ depart'[departs'].pid = request[s].d
           /\ depart'[departs'].parent = request[s].parent
           /\ \A c \in Depart : c # departs' => depart'[c] = depart[c]
           /\ loose \subseteq loose'
           /\ depart[request[s].d].name # request[s].parent \/ Renaming(request[s].d)
                 => <<"parent name", departs'>> \in loose'
           /\ UNCHANGED <<place, user, users, role, spent, stranded>>
<1> DEFINE n == [exists |-> TRUE, root |-> request[s].parent = None, pid |-> request[s].d,
                 parent |-> request[s].parent, name |-> request[s].name]
<1>1. /\ request[s].op = "add" /\ departs < MaxDeparts /\ departs' = departs + 1
      /\ depart' = [depart EXCEPT ![departs'] = n]
      /\ Leave(s) /\ UNCHANGED <<place, user, users, role, spent, stranded>>
  BY DEF AddDepartMessage
<1>2. /\ loose \subseteq loose'
      /\ depart[request[s].d].name # request[s].parent \/ Renaming(request[s].d)
            => <<"parent name", departs'>> \in loose'
  BY DEF AddDepartMessage
<1>3. departs' \in Depart
  BY <1>1, Numbers DEF Depart
<1>4. n \in Node /\ n.exists /\ n.pid = request[s].d /\ n.parent = request[s].parent
  <2>1. request[s] \in Handler
    BY TypedParts
  <2>2. /\ request[s].d \in 0 .. MaxDeparts /\ request[s].parent \in Name \cup {None}
        /\ request[s].name \in Name \cup {None}
    BY <2>1 DEF Handler
  <2>3. QED
    BY <2>2 DEF Node
<1> HIDE DEF n
<1>5. depart \in [Depart -> Node]
  BY TypedParts
<1>6. /\ depart' \in [Depart -> Node] /\ depart'[departs'] = n
      /\ \A c \in Depart : c # departs' => depart'[c] = depart[c]
  BY <1>1, <1>3, <1>4, <1>5
<1>7. Put(s, Idle) /\ requests' = requests
  BY <1>1, LeaveFacts
<1>8. QED
  BY <1>1, <1>2, <1>3, <1>4, <1>6, <1>7

\* A department gets a name; it is to be copied to its children.
LEMMA UpdateDepartFacts ==
    ASSUME Typed, NEW s \in Slot, NEW d \in Depart, NEW n \in Name, UpdateDepart(s, d, n)
    PROVE  /\ Put(s, request'[s]) /\ request[s].pc = "idle" /\ requests' \in 0 .. MaxRequests
           /\ request'[s].op = "rename" /\ request'[s].pc = "children"
           /\ request'[s].d = d /\ request'[s].name = n
           /\ depart' \in [Depart -> Node]
           /\ \A c \in Depart :
                 /\ depart'[c].exists = depart[c].exists /\ depart'[c].root = depart[c].root
                 /\ depart'[c].pid = depart[c].pid /\ depart'[c].parent = depart[c].parent
                 /\ c # d \/ ~InTable(d) => depart'[c] = depart[c]
           /\ InTable(d) => depart'[d].name = n
           /\ loose \subseteq loose'
           /\ Renaming(d) => \A c \in Children(d) : <<"parent name", c>> \in loose'
           /\ UNCHANGED <<departs, place, user, users, role, spent, stranded>>
<1> DEFINE r == [Idle EXCEPT !.op = "rename", !.pc = "children", !.d = d, !.name = n]
<1>1. Idle \in Handler /\ d \in 0 .. MaxDeparts
  BY IdleHandler, OrganisationAssumption DEF Depart
<1>2. /\ r \in Handler /\ r.op = "rename" /\ r.pc = "children" /\ r.d = d /\ r.name = n
  BY <1>1 DEF Handler
<1>3. /\ Arrive(s, r) /\ UNCHANGED <<departs, place, user, users, role, spent, stranded>>
      /\ loose \subseteq loose'
      /\ Renaming(d) => \A c \in Children(d) : <<"parent name", c>> \in loose'
  BY DEF UpdateDepart
<1>4. depart' = IF InTable(d) THEN [depart EXCEPT ![d].name = n] ELSE depart
  BY DEF UpdateDepart
<1> HIDE DEF r
<1>5. Put(s, r) /\ request[s].pc = "idle" /\ requests' \in 0 .. MaxRequests
  BY <1>2, <1>3, ArriveFacts
<1>6. depart \in [Depart -> Node]
  BY TypedParts
<1>7. /\ depart' \in [Depart -> Node]
      /\ \A c \in Depart :
                 /\ depart'[c].exists = depart[c].exists /\ depart'[c].root = depart[c].root
                 /\ depart'[c].pid = depart[c].pid /\ depart'[c].parent = depart[c].parent
                 /\ c # d \/ ~InTable(d) => depart'[c] = depart[c]
      /\ InTable(d) => depart'[d].name = n
  BY <1>4, <1>6 DEF Node
<1>8. QED
  BY <1>2, <1>3, <1>5, <1>7 DEF Put

\* The children get the name of the request as their parent's.
LEMMA UpdateParentDepartFacts ==
    ASSUME Typed, NEW s \in Slot, UpdateParentDepart(s)
    PROVE  /\ Put(s, Idle) /\ requests' = requests /\ request[s].pc = "children"
           /\ depart' \in [Depart -> Node]
           /\ \A c \in Depart :
                 /\ depart'[c].exists = depart[c].exists /\ depart'[c].root = depart[c].root
                 /\ depart'[c].pid = depart[c].pid /\ depart'[c].name = depart[c].name
                 /\ c \notin Children(request[s].d) => depart'[c] = depart[c]
                 /\ c \in Children(request[s].d) => depart'[c].parent = request[s].name
           /\ UNCHANGED <<departs, place, user, users, role, spent, loose, stranded>>
<1>1. request[s] \in Handler /\ depart \in [Depart -> Node]
  BY TypedParts
<1>2. request[s].name \in Name \cup {None}
  BY <1>1 DEF Handler
<1>3. depart' = [c \in Depart |-> IF c \in Children(request[s].d)
                                  THEN [depart[c] EXCEPT !.parent = request[s].name]
                                  ELSE depart[c]]
  BY DEF UpdateParentDepart
<1>4. /\ depart' \in [Depart -> Node]
      /\ \A c \in Depart :
                 /\ depart'[c].exists = depart[c].exists /\ depart'[c].root = depart[c].root
                 /\ depart'[c].pid = depart[c].pid /\ depart'[c].name = depart[c].name
                 /\ c \notin Children(request[s].d) => depart'[c] = depart[c]
                 /\ c \in Children(request[s].d) => depart'[c].parent = request[s].name
  BY <1>1, <1>2, <1>3 DEF Node
<1>5. QED
  BY <1>4, LeaveFacts DEF UpdateParentDepart

\* A department to be deleted, with the machines read.
LEMMA DeleteDepartFacts ==
    ASSUME Typed, NEW s \in Slot, NEW d \in Depart, DeleteDepart(s, d)
    PROVE  /\ Put(s, request'[s]) /\ request[s].pc = "idle" /\ requests' \in 0 .. MaxRequests
           /\ request'[s].op = "delete" /\ request'[s].pc = "own" /\ request'[s].d = d
           /\ request'[s].todo = MachineStore(d)
           /\ InTable(d)
           /\ UNCHANGED <<depart, departs, place, user, users, role, spent, loose, stranded>>
<1> DEFINE r == [Idle EXCEPT !.op = "delete", !.pc = "own", !.d = d, !.todo = MachineStore(d)]
<1>1. Idle \in Handler /\ d \in 0 .. MaxDeparts
  BY IdleHandler, OrganisationAssumption DEF Depart
<1>2. /\ r \in Handler /\ r.op = "delete" /\ r.pc = "own" /\ r.d = d
      /\ r.todo = MachineStore(d)
  BY <1>1 DEF Handler, MachineStore
<1>3. Arrive(s, r) /\ InTable(d) /\ UNCHANGED <<tables, loose, stranded>>
  BY DEF DeleteDepart
<1> HIDE DEF r
<1>4. Put(s, r) /\ request[s].pc = "idle" /\ requests' \in 0 .. MaxRequests
  BY <1>2, <1>3, ArriveFacts
<1>5. QED
  BY <1>2, <1>3, <1>4 DEF Put, tables

\* The machines read are moved; those of the next child are read, or there is
\* none.
LEMMA MoveMachinesFacts ==
    ASSUME Typed, NEW s \in Slot, MoveMachines(s)
    PROVE  /\ Put(s, request'[s]) /\ requests' = requests
           /\ request'[s].op = request[s].op /\ request'[s].d = request[s].d
           /\ request[s].pc \in {"own", "sub"}
           /\ LET left == IF request[s].pc = "own" THEN Children(request[s].d) ELSE request[s].subs
              IN  \/ /\ left = {}
                     /\ request'[s].pc = "rows" /\ request'[s].subs = {} /\ request'[s].todo = {}
                  \/ \E c \in left : /\ request'[s].pc = "sub" /\ request'[s].subs = left \ {c}
                                     /\ request'[s].todo = {m \in Machine : place'[m] = c}
           /\ place' = [m \in Machine |-> IF m \in request[s].todo THEN Uncatalogued ELSE place[m]]
           /\ UNCHANGED <<depart, departs, user, users, role, spent, loose, stranded>>
<1> DEFINE left == IF request[s].pc = "own" THEN Children(request[s].d) ELSE request[s].subs
<1>1. /\ request[s].pc \in {"own", "sub"}
      /\ place' = [m \in Machine |-> IF m \in request[s].todo THEN Uncatalogued ELSE place[m]]
      /\ UNCHANGED <<depart, departs, user, users, role, spent, loose, stranded>>
  BY DEF MoveMachines
<1>2. request[s] \in Handler /\ left \subseteq Depart
  BY DEF Typed, Handler, Children
<1>3. CASE left = {}
  <2> DEFINE r == [request[s] EXCEPT !.pc = "rows", !.subs = {}, !.todo = {}]
  <2>1. /\ r \in Handler /\ r.op = request[s].op /\ r.d = request[s].d
        /\ r.pc = "rows" /\ r.subs = {} /\ r.todo = {}
    BY <1>2 DEF Handler
  <2>2. GoOn(s, r)
    BY <1>3 DEF MoveMachines
  <2> HIDE DEF r
  <2>3. QED
    BY <1>1, <1>3, <2>1, <2>2, GoOnFacts DEF Put
<1>4. CASE left # {}
  <2>1. PICK c \in left : GoOn(s, [request[s] EXCEPT !.pc = "sub", !.subs = left \ {c},
                                      !.todo = {m \in Machine : place'[m] = c}])
    BY <1>4 DEF MoveMachines
  <2> DEFINE r == [request[s] EXCEPT !.pc = "sub", !.subs = left \ {c},
                                     !.todo = {m \in Machine : place'[m] = c}]
  <2>2. /\ r \in Handler /\ r.op = request[s].op /\ r.d = request[s].d
        /\ r.pc = "sub" /\ r.subs = left \ {c} /\ r.todo = {m \in Machine : place'[m] = c}
    BY <1>2 DEF Handler
  <2>3. GoOn(s, r)
    BY <2>1
  <2> HIDE DEF r
  <2>4. QED
    BY <1>1, <1>4, <2>2, <2>3, GoOnFacts DEF Put
<1>5. QED
  BY <1>3, <1>4

\* Rows of the department and its children go; the users of the children are
\* stranded.
LEMMA DeleteDepartNodeFacts ==
    ASSUME Typed, NEW s \in Slot, DeleteDepartNode(s)
    PROVE  /\ Put(s, request'[s]) /\ requests' = requests
           /\ request'[s].op = request[s].op /\ request'[s].d = request[s].d
           /\ request'[s].pc = "users" /\ request[s].pc = "rows"
           /\ depart' \in [Depart -> Node]
           /\ \A c \in Depart :
                 \/ depart'[c] = depart[c]
                 \/ /\ depart'[c] = NoDepart
                    /\ c = request[s].d \/ (c \in Children(request[s].d) /\ c \in stranded')
           /\ loose \subseteq loose' /\ stranded \subseteq stranded'
           /\ UNCHANGED <<departs, place, user, users, role, spent>>
<1> DEFINE r == [request[s] EXCEPT !.pc = "users"]
<1>1. request[s] \in Handler /\ depart \in [Depart -> Node]
  BY TypedParts
<1>2. r \in Handler /\ r.op = request[s].op /\ r.d = request[s].d /\ r.pc = "users"
  BY <1>1 DEF Handler
<1>3. GoOn(s, r) /\ request[s].pc = "rows" /\ UNCHANGED <<departs, place, user, users, role, spent>>
  BY DEF DeleteDepartNode
<1> HIDE DEF r
<1>4. Put(s, r) /\ requests' = requests
  BY <1>2, <1>3, GoOnFacts
<1>5. PICK gone \in SUBSET ({request[s].d} \cup Children(request[s].d)) :
              /\ depart' = [c \in Depart |-> IF c \in gone THEN NoDepart ELSE depart[c]]
              /\ stranded' = stranded \cup (gone \ {request[s].d})
              /\ loose' = loose \cup {<<"orphan", c>> : c \in UNION {Children(x) : x \in gone}}
  BY DEF DeleteDepartNode
<1>6. NoDepart \in Node
  BY OrganisationAssumption DEF NoDepart, Node
<1>7. /\ depart' \in [Depart -> Node]
      /\ \A c \in Depart :
                 \/ depart'[c] = depart[c]
                 \/ /\ depart'[c] = NoDepart
                    /\ c = request[s].d \/ (c \in Children(request[s].d) /\ c \in stranded')
  BY <1>1, <1>5, <1>6
<1>8. loose \subseteq loose' /\ stranded \subseteq stranded'
  BY <1>5
<1>9. QED
  BY <1>2, <1>3, <1>4, <1>7, <1>8 DEF Put

\* The users of the department are deleted.
LEMMA DelUserFacts ==
    ASSUME Typed, NEW s \in Slot, DelUser(s)
    PROVE  /\ Put(s, Idle) /\ requests' = requests /\ request[s].pc = "users"
           /\ user' = [u \in User |-> IF user[u].dept = request[s].d THEN NoUser ELSE user[u]]
           /\ UNCHANGED <<depart, departs, place, users, role, spent, loose, stranded>>
BY LeaveFacts DEF DelUser

\* A machine is moved; it is placed if the department stays.
LEMMA ModifyMachineDepartFacts ==
    ASSUME Typed, NEW s \in Slot, NEW m \in Machine, NEW d \in Depart, ModifyMachineDepart(s, m, d)
    PROVE  /\ Put(s, Idle) /\ request[s].pc = "idle" /\ requests' \in 0 .. MaxRequests
           /\ d <= departs
           /\ place' = [place EXCEPT ![m] = d]
           /\ (InTable(d) /\ ~Deleting(d)) \/ <<"machine", m>> \in loose'
           /\ \A x \in loose : x # <<"machine", m>> => x \in loose'
           /\ UNCHANGED <<depart, departs, user, users, role, spent, stranded>>
BY AtOnceFacts DEF ModifyMachineDepart

\* A user to be added: nobody has the email, but another request may bring it.
LEMMA RegisterFacts ==
    ASSUME Typed, NEW s \in Slot, NEW f \in Form, Register(s, f)
    PROVE  /\ Put(s, request'[s]) /\ request[s].pc = "idle" /\ requests' \in 0 .. MaxRequests
           /\ request'[s].op = "add user" /\ request'[s].pc = "insert" /\ request'[s].form = f
           /\ ~IsEmailExist(f.email)
           /\ loose \subseteq loose'
           /\ Adding(f.email) # {} => <<"email", f.email>> \in loose'
           /\ UNCHANGED <<depart, departs, place, user, users, role, spent, stranded>>
<1>1. f \in FormType
  <2>1. 0 .. departs \subseteq 0 .. MaxDeparts /\ SUBSET spent \subseteq SUBSET RoleId
    BY OrganisationAssumption DEF Typed, TypeOK
  <2>2. /\ f = [email |-> f.email, dept |-> f.dept, roles |-> f.roles]
        /\ f.email \in Email /\ f.dept \in 0 .. departs /\ f.roles \in SUBSET spent
    BY DEF Form
  <2>3. QED
    BY <2>1, <2>2 DEF FormType
<1>2. Idle \in Handler
  BY IdleHandler
<1> DEFINE r == [Idle EXCEPT !.op = "add user", !.pc = "insert", !.form = f]
<1>3. r \in Handler /\ r.op = "add user" /\ r.pc = "insert" /\ r.form = f
  BY <1>1, <1>2 DEF Handler
<1>4. /\ Arrive(s, r) /\ ~IsEmailExist(f.email) /\ UNCHANGED <<tables, stranded>>
      /\ loose' = IF Adding(f.email) = {} THEN loose ELSE loose \cup {<<"email", f.email>>}
  BY DEF Register
<1> HIDE DEF r
<1>5. Put(s, r) /\ request[s].pc = "idle" /\ requests' \in 0 .. MaxRequests
  BY <1>3, <1>4, ArriveFacts
<1>6. QED
  BY <1>3, <1>4, <1>5 DEF Put, tables

\* A user is added.
LEMMA AddUserFacts ==
    ASSUME Typed, NEW s \in Slot, AddUser(s)
    PROVE  /\ Put(s, Idle) /\ requests' = requests /\ request[s].op = "add user"
           /\ users' = users + 1 /\ users' \in User
           /\ user' \in [User -> Account]
           /\ user'[users'].exists
           /\ user'[users'].email = request[s].form.email
           /\ user'[users'].dept = request[s].form.dept
           /\ user'[users'].roles = request[s].form.roles
           /\ \A u \in User : u # users' => user'[u] = user[u]
           /\ loose \subseteq loose'
           /\ \/ InTable(request[s].form.dept) /\ ~Deleting(request[s].form.dept)
              \/ <<"user", users'>> \in loose'
           /\ \/ request[s].form.roles \subseteq role /\ ~Dropping(request[s].form.roles)
              \/ <<"roles", users'>> \in loose'
           /\ UNCHANGED <<depart, departs, place, role, spent, stranded>>
<1> DEFINE f == request[s].form
           n == [exists |-> TRUE, email |-> f.email, dept |-> f.dept, roles |-> f.roles]
<1>1. /\ request[s].op = "add user" /\ users < MaxUsers /\ users' = users + 1
      /\ user' = [user EXCEPT ![users'] = n]
      /\ Leave(s) /\ UNCHANGED <<depart, departs, place, role, spent, stranded>>
  BY DEF AddUser
<1>2. /\ loose \subseteq loose'
      /\ (InTable(f.dept) /\ ~Deleting(f.dept)) \/ <<"user", users'>> \in loose'
      /\ (f.roles \subseteq role /\ ~Dropping(f.roles)) \/ <<"roles", users'>> \in loose'
  BY DEF AddUser
<1>3. request[s] \in Handler /\ user \in [User -> Account] /\ users \in 1 .. MaxUsers
  BY TypedParts
<1>4. users' \in User
  <2>1. users < MaxUsers /\ users' = users + 1
    BY <1>1
  <2>2. QED
    BY <1>3, <2>1, OrganisationAssumption DEF User
<1>5. f \in FormType
  BY <1>3 DEF Handler
<1>6. n \in Account /\ n.exists /\ n.email = f.email /\ n.dept = f.dept /\ n.roles = f.roles
  BY <1>5 DEF FormType, Account
<1> HIDE DEF n
<1>7. /\ user' \in [User -> Account] /\ user'[users'] = n
      /\ \A u \in User : u # users' => user'[u] = user[u]
  BY <1>1, <1>3, <1>4, <1>6
<1>8. Put(s, Idle) /\ requests' = requests
  BY <1>1, LeaveFacts
<1>9. QED
  BY <1>1, <1>2, <1>4, <1>6, <1>7, <1>8

\* The department of the users with an email is written.
LEMMA UpdateUserFacts ==
    ASSUME Typed, NEW s \in Slot, NEW e \in Email, NEW d \in Depart, UpdateUser(s, e, d)
    PROVE  /\ Put(s, Idle) /\ request[s].pc = "idle" /\ requests' \in 0 .. MaxRequests
           /\ user' \in [User -> Account]
           /\ \A u \in User :
                 /\ user'[u].exists = user[u].exists /\ user'[u].email = user[u].email
                 /\ user'[u].roles = user[u].roles
                 /\ \/ user'[u].dept = user[u].dept /\ (<<"user", u>> \in loose => <<"user", u>> \in loose')
                    \/ /\ user'[u].dept = d
                       /\ InTable(d) \/ <<"user", u>> \in loose'
           /\ \A x \in loose : (\A u \in User : x # <<"user", u>>) => x \in loose'
           /\ UNCHANGED <<depart, departs, place, users, role, spent, stranded>>
<1> DEFINE them == {u \in User : user[u].exists /\ user[u].email = e}
<1>1. /\ user' = [u \in User |-> IF u \in them THEN [user[u] EXCEPT !.dept = d] ELSE user[u]]
      /\ loose' = IF InTable(d) /\ ~Deleting(d) THEN loose \ {<<"user", u>> : u \in them}
                  ELSE loose \cup {<<"user", u>> : u \in them}
      /\ AtOnce(s)
      /\ UNCHANGED <<depart, departs, place, users, role, spent, stranded>>
  BY DEF UpdateUser
<1>2. user \in [User -> Account] /\ d \in 0 .. MaxDeparts
  BY TypedParts, OrganisationAssumption DEF Depart
<1>3. \A u \in User : user'[u] = IF u \in them THEN [user[u] EXCEPT !.dept = d] ELSE user[u]
  BY <1>1
<1>4. \A u \in User : <<"user", u>> \in {<<"user", v>> : v \in them} <=> u \in them
  OBVIOUS
<1>5. \A u \in User : IF u \in them THEN InTable(d) \/ <<"user", u>> \in loose'
                                    ELSE <<"user", u>> \in loose => <<"user", u>> \in loose'
  BY <1>1, <1>4
<1>6. \A x \in loose : (\A u \in User : x # <<"user", u>>) => x \in loose'
  BY <1>1
<1> HIDE DEF them
<1>7. user' \in [User -> Account]
  BY <1>1, <1>2 DEF Account
<1>8. \A u \in User :
         /\ user'[u].exists = user[u].exists /\ user'[u].email = user[u].email
         /\ user'[u].roles = user[u].roles
         /\ user'[u].dept = IF u \in them THEN d ELSE user[u].dept
  BY <1>2, <1>3 DEF Account
<1>9. Put(s, Idle) /\ request[s].pc = "idle" /\ requests' \in 0 .. MaxRequests
  BY <1>1, AtOnceFacts
<1>10. QED
  BY <1>1, <1>5, <1>6, <1>7, <1>8, <1>9

\* The users with an email are deleted.
LEMMA DeleteUserFacts ==
    ASSUME Typed, NEW s \in Slot, NEW e \in Email, DeleteUser(s, e)
    PROVE  /\ Put(s, Idle) /\ request[s].pc = "idle" /\ requests' \in 0 .. MaxRequests
           /\ user' = [u \in User |-> IF user[u].email = e THEN NoUser ELSE user[u]]
           /\ UNCHANGED <<depart, departs, place, users, role, spent, loose, stranded>>
BY AtOnceFacts DEF DeleteUser

\* A role is added.
LEMMA AddRoleFacts ==
    ASSUME Typed, NEW s \in Slot, NEW q \in RoleId, AddRole(s, q)
    PROVE  /\ Put(s, Idle) /\ request[s].pc = "idle" /\ requests' \in 0 .. MaxRequests
           /\ role' = role \cup {q} /\ spent' = spent \cup {q}
           /\ UNCHANGED <<depart, departs, place, user, users, loose, stranded>>
BY AtOnceFacts DEF AddRole

\* A role to be deleted: no user has it.
LEMMA DeleteUserRoleFacts ==
    ASSUME Typed, NEW s \in Slot, NEW q \in RoleId, DeleteUserRole(s, q)
    PROVE  /\ Put(s, request'[s]) /\ request[s].pc = "idle" /\ requests' \in 0 .. MaxRequests
           /\ request'[s].op = "drop" /\ request'[s].pc = "drop" /\ request'[s].role = q
           /\ \A u \in User : user[u].exists => q \notin user[u].roles
           /\ UNCHANGED <<depart, departs, place, user, users, role, spent, loose, stranded>>
<1> DEFINE r == [Idle EXCEPT !.op = "drop", !.pc = "drop", !.role = q]
<1>1. Idle \in Handler /\ q \in 0 .. 99
  BY IdleHandler, OrganisationAssumption
<1>2. r \in Handler /\ r.op = "drop" /\ r.pc = "drop" /\ r.role = q
  BY <1>1 DEF Handler
<1>3. Arrive(s, r) /\ ~IsUserBindingRole(q) /\ UNCHANGED <<tables, loose, stranded>>
  BY DEF DeleteUserRole
<1>4. \A u \in User : user[u].exists => q \notin user[u].roles
  BY <1>3 DEF IsUserBindingRole
<1> HIDE DEF r
<1>5. Put(s, r) /\ request[s].pc = "idle" /\ requests' \in 0 .. MaxRequests
  BY <1>2, <1>3, ArriveFacts
<1>6. QED
  BY <1>2, <1>3, <1>4, <1>5 DEF Put, tables

\* A role is deleted.
LEMMA DeleteRoleFacts ==
    ASSUME Typed, NEW s \in Slot, DeleteRole(s)
    PROVE  /\ Put(s, Idle) /\ requests' = requests /\ request[s].pc = "drop"
           /\ role' = role \ {request[s].role}
           /\ UNCHANGED <<depart, departs, place, user, users, spent, loose, stranded>>
BY LeaveFacts DEF DeleteRole

\* A handler ends before its last statement.
LEMMA StatementFailsFacts ==
    ASSUME Typed, NEW s \in Slot, StatementFails(s)
    PROVE  /\ Put(s, Idle) /\ requests' = requests
           /\ request[s].pc = "users" => request[s].d \in stranded'
           /\ request[s].pc = "children"
                 => \A c \in Children(request[s].d) : <<"parent name", c>> \in loose'
           /\ loose \subseteq loose' /\ stranded \subseteq stranded'
           /\ UNCHANGED <<depart, departs, place, user, users, role, spent>>
BY LeaveFacts DEF StatementFails, tables

\* All handlers end; a root may be added.
LEMMA RestartFacts ==
    ASSUME Typed, Restart
    PROVE  /\ \A s \in Slot : request'[s] = Idle
           /\ request' \in [Slot -> Handler]
           /\ \A s \in Slot : /\ request[s].pc = "users" => request[s].d \in stranded'
                              /\ request[s].pc = "children"
                                    => \A c \in Children(request[s].d) :
                                          <<"parent name", c>> \in loose'
           /\ \/ UNCHANGED <<depart, departs>>
              \/ /\ departs' = departs + 1 /\ departs' \in Depart
                 /\ depart' \in [Depart -> Node]
                 /\ depart'[departs'] = Root
                 /\ \A c \in Depart : c # departs' => depart'[c] = depart[c]
           /\ loose \subseteq loose' /\ stranded \subseteq stranded'
           /\ UNCHANGED <<place, user, users, role, spent, requests>>
<1> DEFINE at(pc) == {request[s].d : s \in {z \in Slot : request[z].pc = pc}}
           lacking == ~\E d \in Depart : depart[d].exists /\ depart[d].pid = 0
<1>1. /\ request' = [s \in Slot |-> Idle]
      /\ stranded' = stranded \cup at("users")
      /\ IF lacking THEN /\ departs < MaxDeparts
                         /\ departs' = departs + 1
                         /\ depart' = [depart EXCEPT ![departs + 1] = Root]
         ELSE UNCHANGED <<depart, departs>>
      /\ loose' = loose
            \cup {<<"parent name", c>> : c \in UNION {Children(d) : d \in at("children")}}
            \cup (IF lacking THEN {<<"orphan", d>> : d \in Roots} ELSE {})
      /\ UNCHANGED <<place, user, users, role, spent, requests>>
  BY DEF Restart
<1>2. \A s \in Slot : request'[s] = Idle
  BY <1>1
<1>3. request' \in [Slot -> Handler]
  BY <1>1, IdleHandler
<1>4. ASSUME NEW s \in Slot
      PROVE  /\ request[s].pc = "users" => request[s].d \in stranded'
             /\ request[s].pc = "children"
                   => \A c \in Children(request[s].d) : <<"parent name", c>> \in loose'
  <2>1. \A pc : request[s].pc = pc => request[s].d \in at(pc)
    OBVIOUS
  <2>2. request[s].pc = "children"
           => \A c \in Children(request[s].d) : c \in UNION {Children(d) : d \in at("children")}
    BY <2>1
  <2> HIDE DEF at, lacking
  <2>3. QED
    BY <1>1, <2>1, <2>2
<1>5. \/ UNCHANGED <<depart, departs>>
      \/ /\ departs' = departs + 1 /\ departs' \in Depart
         /\ depart' \in [Depart -> Node]
         /\ depart'[departs'] = Root
         /\ \A c \in Depart : c # departs' => depart'[c] = depart[c]
  <2>1. depart \in [Depart -> Node]
    BY TypedParts
  <2>2. Root \in Node
    BY OrganisationAssumption DEF Root, Node
  <2> HIDE DEF lacking
  <2>3. CASE lacking
    <3>1. departs' = departs + 1 /\ departs' \in Depart
      <4>1. departs < MaxDeparts /\ departs' = departs + 1
        BY <1>1, <2>3
      <4>2. QED
        BY <4>1, Numbers DEF Depart
    <3>2. QED
      BY <1>1, <2>1, <2>2, <2>3, <3>1
  <2>4. QED
    BY <1>1, <2>3
<1>6. loose \subseteq loose' /\ stranded \subseteq stranded'
  BY <1>1
<1>7. QED
  BY <1>1, <1>2, <1>3, <1>4, <1>5, <1>6

\* The administrator is added with a role of his own.
LEMMA CreateAdministratorUserFacts ==
    ASSUME Typed, CreateAdministratorUser
    PROVE  /\ \A s \in Slot : request[s].pc = "idle"
           /\ users' = users + 1 /\ users' \in User
           /\ user' \in [User -> Account]
           /\ user'[users'].exists
           /\ user'[users'].email = AdminEmail
           /\ user'[users'].dept = Uncatalogued
           /\ user'[users'].roles \subseteq role'
           /\ \A u \in User : u # users' => user'[u] = user[u]
           /\ role \subseteq role' /\ role' \subseteq spent' /\ spent' \subseteq RoleId
           /\ loose \subseteq loose'
           /\ InTable(Uncatalogued) \/ <<"user", users'>> \in loose'
           /\ IsEmailExist(AdminEmail) => <<"email", AdminEmail>> \in loose'
           /\ UNCHANGED <<depart, departs, place, request, requests, stranded>>
<1>1. /\ \A s \in Slot : request[s].pc = "idle"
      /\ users < MaxUsers /\ users' = users + 1
      /\ UNCHANGED <<depart, departs, place, request, requests, stranded>>
  BY DEF CreateAdministratorUser
<1>2. PICK r \in RoleId :
          /\ role' = role \cup {r} /\ spent' = spent \cup {r}
          /\ user' = [user EXCEPT ![users + 1] =
                [exists |-> TRUE, email |-> AdminEmail, dept |-> Uncatalogued, roles |-> {r}]]
  BY DEF CreateAdministratorUser
<1>3. /\ loose \subseteq loose'
      /\ InTable(Uncatalogued) \/ <<"user", users'>> \in loose'
      /\ IsEmailExist(AdminEmail) => <<"email", AdminEmail>> \in loose'
  BY DEF CreateAdministratorUser
<1>4. /\ user \in [User -> Account] /\ users \in 1 .. MaxUsers
      /\ role \subseteq spent /\ spent \subseteq RoleId
  BY TypedParts
<1>5. users' \in User
  BY <1>1, <1>4, OrganisationAssumption DEF User
<1> DEFINE n == [exists |-> TRUE, email |-> AdminEmail, dept |-> Uncatalogued, roles |-> {r}]
<1>6. n \in Account /\ n.exists /\ n.email = AdminEmail /\ n.dept = Uncatalogued /\ n.roles = {r}
  <2>1. AdminEmail \in Email /\ Uncatalogued \in 0 .. MaxDeparts /\ {r} \in SUBSET RoleId
    BY OrganisationAssumption, Numbers DEF Uncatalogued
  <2>2. QED
    BY <2>1 DEF Account
<1> HIDE DEF n
<1>7. /\ user' \in [User -> Account] /\ user'[users'] = n
      /\ \A u \in User : u # users' => user'[u] = user[u]
  <2>1. user' = [user EXCEPT ![users'] = n]
    BY <1>1, <1>2 DEF n
  <2>2. QED
    BY <1>4, <1>5, <1>6, <2>1
<1>8. QED
  BY <1>1, <1>2, <1>3, <1>4, <1>5, <1>6, <1>7

------------------------------------------------------------------------------
\* Types, the steps of a handler, ids given once.

\* What the other parts rest on.
Base == Typed /\ Steps /\ Fresh

\* The row of a user who is gone has its type.
LEMMA NoUserTyped == NoUser \in Account
BY OrganisationAssumption DEF NoUser, Account

\* What keeps the types.
Parts ==
    /\ depart' \in [Depart -> Node] /\ departs' \in FirstDeparts .. MaxDeparts
    /\ place' \in [Machine -> Depart]
    /\ user' \in [User -> Account] /\ users' \in 1 .. MaxUsers
    /\ role' \subseteq spent' /\ spent' \subseteq RoleId
    /\ request' \in [Slot -> Handler] /\ requests' \in 0 .. MaxRequests

\* The parts are what the types say.
LEMMA TypedFromParts == Parts => Typed'
<1> SUFFICES ASSUME Parts PROVE Typed'
  OBVIOUS
<1>1. \A u \in User : user'[u].email \in Email /\ user'[u].dept \in 0 .. MaxDeparts
                        /\ user'[u].roles \subseteq RoleId
  BY DEF Parts, Account
<1>2. QED
  BY <1>1 DEF Parts, Typed, TypeOK, Node

\* No step leaves the types.
LEMMA TypedStep == Typed /\ [Next]_vars => Typed'
<1> SUFFICES ASSUME Typed, [Next]_vars PROVE Parts
  BY TypedFromParts
<1> USE TypedParts DEF Parts
<1>1. ASSUME NEW s \in Slot, NEW d \in Depart, NEW p \in Name \cup {None}, NEW n \in Name,
             AddDepart(s, d, p, n)
      PROVE  Parts
  BY <1>1, AddDepartFacts DEF Put
<1>2. ASSUME NEW s \in Slot, AddDepartMessage(s) PROVE Parts
  <2>1. departs' \in FirstDeparts .. MaxDeparts
    <3>1. departs' \in 1 .. MaxDeparts /\ departs' = departs + 1 /\ departs \in FirstDeparts .. MaxDeparts
      BY <1>2, AddDepartMessageFacts DEF Depart
    <3>2. QED
      BY <3>1, OrganisationAssumption
  <2>2. QED
    BY <1>2, <2>1, AddDepartMessageFacts DEF Put
<1>3. ASSUME NEW s \in Slot, NEW d \in Depart, NEW n \in Name, UpdateDepart(s, d, n)
      PROVE  Parts
  BY <1>3, UpdateDepartFacts DEF Put
<1>4. ASSUME NEW s \in Slot, UpdateParentDepart(s) PROVE Parts
  BY <1>4, UpdateParentDepartFacts DEF Put
<1>5. ASSUME NEW s \in Slot, NEW d \in Depart, DeleteDepart(s, d)
      PROVE  Parts
  BY <1>5, DeleteDepartFacts DEF Put
<1>6. ASSUME NEW s \in Slot, MoveMachines(s) PROVE Parts
  <2>1. place' \in [Machine -> Depart]
    <3>1. Uncatalogued \in Depart
      BY OrganisationAssumption DEF Uncatalogued, Depart
    <3>2. QED
      BY <1>6, <3>1, MoveMachinesFacts
  <2>2. QED
    BY <1>6, <2>1, MoveMachinesFacts DEF Put
<1>7. ASSUME NEW s \in Slot, DeleteDepartNode(s) PROVE Parts
  BY <1>7, DeleteDepartNodeFacts DEF Put
<1>8. ASSUME NEW s \in Slot, DelUser(s) PROVE Parts
  <2>1. user' \in [User -> Account]
    BY <1>8, DelUserFacts, NoUserTyped
  <2>2. QED
    BY <1>8, <2>1, DelUserFacts DEF Put
<1>9. ASSUME NEW s \in Slot, NEW m \in Machine, NEW d \in Depart, ModifyMachineDepart(s, m, d)
      PROVE  Parts
  <2>1. place' = [place EXCEPT ![m] = d]
    BY <1>9, ModifyMachineDepartFacts
  <2>2. place' \in [Machine -> Depart]
    BY <2>1
  <2>3. QED
    BY <1>9, <2>2, ModifyMachineDepartFacts DEF Put
<1>10. ASSUME NEW s \in Slot, NEW f \in Form, Register(s, f)
      PROVE  Parts
  BY <1>10, RegisterFacts DEF Put
<1>11. ASSUME NEW s \in Slot, AddUser(s) PROVE Parts
  <2>1. users' \in 1 .. MaxUsers
    BY <1>11, AddUserFacts DEF User
  <2>2. QED
    BY <1>11, <2>1, AddUserFacts DEF Put
<1>12. ASSUME NEW s \in Slot, NEW e \in Email, NEW d \in Depart, UpdateUser(s, e, d)
      PROVE  Parts
  BY <1>12, UpdateUserFacts DEF Put
<1>13. ASSUME NEW s \in Slot, NEW e \in Email, DeleteUser(s, e)
      PROVE  Parts
  <2>1. user' \in [User -> Account]
    BY <1>13, DeleteUserFacts, NoUserTyped
  <2>2. QED
    BY <1>13, <2>1, DeleteUserFacts DEF Put
<1>14. ASSUME NEW s \in Slot, NEW q \in RoleId, AddRole(s, q)
      PROVE  Parts
  BY <1>14, AddRoleFacts DEF Put
<1>15. ASSUME NEW s \in Slot, NEW q \in RoleId, DeleteUserRole(s, q)
      PROVE  Parts
  BY <1>15, DeleteUserRoleFacts DEF Put
<1>16. ASSUME NEW s \in Slot, DeleteRole(s) PROVE Parts
  BY <1>16, DeleteRoleFacts DEF Put
<1>17. ASSUME NEW s \in Slot, StatementFails(s) PROVE Parts
  BY <1>17, StatementFailsFacts DEF Put
<1>18. ASSUME Restart PROVE Parts
  <2>1. departs' \in FirstDeparts .. MaxDeparts /\ depart' \in [Depart -> Node]
    <3>1. CASE UNCHANGED <<depart, departs>>
      BY <3>1
    <3>2. CASE departs' = departs + 1 /\ departs' \in Depart /\ depart' \in [Depart -> Node]
      <4>1. departs' = departs + 1 /\ departs' <= MaxDeparts /\ departs \in FirstDeparts .. MaxDeparts
        BY <3>2, OrganisationAssumption DEF Depart
      <4>2. QED
        BY <3>2, <4>1, OrganisationAssumption
    <3>3. QED
      BY <1>18, <3>1, <3>2, RestartFacts
  <2>2. QED
    BY <1>18, <2>1, RestartFacts
<1>19. ASSUME CreateAdministratorUser PROVE Parts
  <2>1. users' \in 1 .. MaxUsers
    BY <1>19, CreateAdministratorUserFacts DEF User
  <2>2. QED
    BY <1>19, <2>1, CreateAdministratorUserFacts
<1>20. ASSUME UNCHANGED vars PROVE Parts
  BY <1>20 DEF vars, tables
<1>21. QED
  BY <1>1, <1>2, <1>3, <1>4, <1>5, <1>6, <1>7, <1>8, <1>9, <1>10,
     <1>11, <1>12, <1>13, <1>14, <1>15, <1>16, <1>17, <1>18, <1>19, <1>20 DEF Next

\* Departments in the table have been numbered.
LEMMA InTableNumbered ==
    ASSUME Typed, Fresh, NEW d, InTable(d)
    PROVE  d \in Depart /\ d \in 1 .. departs
<1>1. d \in Depart /\ d <= departs
  BY Numbers DEF Fresh, FreshDeparts, InTable, Depart
<1>2. QED
  BY <1>1, Numbers DEF Depart

\* The slots that a step leaves alone stay regular.
LEMMA SlotSteps ==
    ASSUME Typed, Steps, NEW s \in Slot, Put(s, request'[s]), departs' \in {departs, departs + 1},
           Regular(request'[s], departs')
    PROVE  Steps'
<1>1. \A i \in 1 .. departs : i \in 1 .. departs'
  BY Numbers
<1>2. ASSUME NEW z \in Slot, z # s PROVE Regular(request'[z], departs')
  <2>1. request'[z] = request[z]
    BY <1>2 DEF Put
  <2>2. QED
    BY <1>1, <2>1 DEF Steps, Regular
<1>3. QED
  BY <1>2 DEF Steps

\* An idle slot is regular.
LEMMA IdleSteps ==
    ASSUME Typed, Steps, NEW s \in Slot, Put(s, Idle), departs' \in {departs, departs + 1}
    PROVE  Steps'
<1>1. Regular(Idle, departs')
  BY DEF Regular, Idle
<1>2. QED
  BY <1>1, SlotSteps DEF Put

\* No step leaves the order of a handler's statements.
LEMMA StepsStep == Base /\ [Next]_vars => Steps'
<1> SUFFICES ASSUME Base, [Next]_vars PROVE Steps'
  OBVIOUS
<1> USE DEF Base
<1>1. ASSUME NEW s \in Slot, NEW d \in Depart, NEW p \in Name \cup {None}, NEW n \in Name,
             AddDepart(s, d, p, n)
      PROVE  Steps'
  <2>1. InTable(d) /\ departs' = departs
    BY <1>1, AddDepartFacts
  <2>2. Regular(request'[s], departs')
    BY <1>1, <2>1, AddDepartFacts, InTableNumbered DEF Regular
  <2>3. QED
    BY <1>1, <2>2, AddDepartFacts, SlotSteps
<1>2. ASSUME NEW s \in Slot, AddDepartMessage(s) PROVE Steps'
  BY <1>2, AddDepartMessageFacts, IdleSteps
<1>3. ASSUME NEW s \in Slot, NEW d \in Depart, NEW n \in Name, UpdateDepart(s, d, n)
      PROVE  Steps'
  <2>1. Regular(request'[s], departs')
    BY <1>3, UpdateDepartFacts, InTableNumbered DEF Regular
  <2>2. QED
    BY <1>3, <2>1, UpdateDepartFacts, SlotSteps
<1>4. ASSUME NEW s \in Slot, UpdateParentDepart(s) PROVE Steps'
  BY <1>4, UpdateParentDepartFacts, IdleSteps
<1>5. ASSUME NEW s \in Slot, NEW d \in Depart, DeleteDepart(s, d)
      PROVE  Steps'
  <2>1. Regular(request'[s], departs')
    BY <1>5, DeleteDepartFacts, InTableNumbered DEF Regular
  <2>2. QED
    BY <1>5, <2>1, DeleteDepartFacts, SlotSteps
<1>6. ASSUME NEW s \in Slot, MoveMachines(s) PROVE Steps'
  <2>1. Regular(request[s], departs)
    BY DEF Steps
  <2>2. Regular(request'[s], departs')
    BY <1>6, <2>1, MoveMachinesFacts DEF Regular
  <2>3. QED
    BY <1>6, <2>2, MoveMachinesFacts, SlotSteps
<1>7. ASSUME NEW s \in Slot, DeleteDepartNode(s) PROVE Steps'
  <2>1. Regular(request[s], departs)
    BY DEF Steps
  <2>2. Regular(request'[s], departs')
    BY <1>7, <2>1, DeleteDepartNodeFacts DEF Regular
  <2>3. QED
    BY <1>7, <2>2, DeleteDepartNodeFacts, SlotSteps
<1>8. ASSUME NEW s \in Slot, DelUser(s) PROVE Steps'
  BY <1>8, DelUserFacts, IdleSteps
<1>9. ASSUME NEW s \in Slot, NEW m \in Machine, NEW d \in Depart, ModifyMachineDepart(s, m, d)
      PROVE  Steps'
  BY <1>9, ModifyMachineDepartFacts, IdleSteps
<1>10. ASSUME NEW s \in Slot, NEW f \in Form, Register(s, f)
      PROVE  Steps'
  <2>1. Regular(request'[s], departs')
    BY <1>10, RegisterFacts, InTableNumbered DEF Regular
  <2>2. QED
    BY <1>10, <2>1, RegisterFacts, SlotSteps
<1>11. ASSUME NEW s \in Slot, AddUser(s) PROVE Steps'
  BY <1>11, AddUserFacts, IdleSteps
<1>12. ASSUME NEW s \in Slot, NEW e \in Email, NEW d \in Depart, UpdateUser(s, e, d)
      PROVE  Steps'
  BY <1>12, UpdateUserFacts, IdleSteps
<1>13. ASSUME NEW s \in Slot, NEW e \in Email, DeleteUser(s, e)
      PROVE  Steps'
  BY <1>13, DeleteUserFacts, IdleSteps
<1>14. ASSUME NEW s \in Slot, NEW q \in RoleId, AddRole(s, q)
      PROVE  Steps'
  BY <1>14, AddRoleFacts, IdleSteps
<1>15. ASSUME NEW s \in Slot, NEW q \in RoleId, DeleteUserRole(s, q)
      PROVE  Steps'
  <2>1. Regular(request'[s], departs')
    BY <1>15, DeleteUserRoleFacts, InTableNumbered DEF Regular
  <2>2. QED
    BY <1>15, <2>1, DeleteUserRoleFacts, SlotSteps
<1>16. ASSUME NEW s \in Slot, DeleteRole(s) PROVE Steps'
  BY <1>16, DeleteRoleFacts, IdleSteps
<1>17. ASSUME NEW s \in Slot, StatementFails(s) PROVE Steps'
  BY <1>17, StatementFailsFacts, IdleSteps
<1>18. ASSUME Restart PROVE Steps'
  <2>1. Regular(Idle, departs')
    BY DEF Regular, Idle
  <2>2. QED
    BY <1>18, <2>1, RestartFacts DEF Steps
<1>19. ASSUME CreateAdministratorUser PROVE Steps'
  BY <1>19, CreateAdministratorUserFacts DEF Steps
<1>20. ASSUME UNCHANGED vars PROVE Steps'
  BY <1>20 DEF vars, tables, Steps
<1>21. QED
  BY <1>1, <1>2, <1>3, <1>4, <1>5, <1>6, <1>7, <1>8, <1>9, <1>10,
     <1>11, <1>12, <1>13, <1>14, <1>15, <1>16, <1>17, <1>18, <1>19, <1>20 DEF Next

\* Rows that stay keep the order of ids, and those that go do no harm to it.
LEMMA KeptDeparts ==
    ASSUME Typed, FreshDeparts, departs' = departs,
           \A d \in Depart : /\ depart'[d].pid \in {depart[d].pid, 0}
                             /\ depart'[d].exists => depart[d].exists
    PROVE  FreshDeparts'
BY Numbers DEF FreshDeparts, Depart

\* A row that is new has the next id, and a parent with an earlier one.
LEMMA NewDepart ==
    ASSUME Typed, FreshDeparts, departs' = departs + 1, departs' \in Depart,
           \A d \in Depart : d # departs' => depart'[d] = depart[d],
           depart'[departs'].pid \in 0 .. departs
    PROVE  FreshDeparts'
<1>1. ASSUME NEW d \in Depart
      PROVE  depart'[d].pid \in 0 .. departs' /\ (d > departs' => ~depart'[d].exists)
  <2>1. CASE d = departs'
    BY <2>1, Numbers
  <2>2. CASE d # departs'
    <3>1. depart'[d] = depart[d] /\ depart[d].pid \in 0 .. departs /\ (d > departs => ~depart[d].exists)
      BY <2>2 DEF FreshDeparts
    <3>2. QED
      BY <3>1, Numbers DEF Depart
  <2>3. QED
    BY <2>1, <2>2
<1>2. QED
  BY <1>1 DEF FreshDeparts

\* Users who stay or go keep the order of ids.
LEMMA KeptUsers ==
    ASSUME Typed, FreshUsers, users' = users, \A u \in User : user'[u].exists => user[u].exists
    PROVE  FreshUsers'
BY DEF FreshUsers

\* A user who is new has the next id.
LEMMA NewUser ==
    ASSUME Typed, FreshUsers, users' = users + 1, users' \in User,
           \A u \in User : u # users' => user'[u] = user[u]
    PROVE  FreshUsers'
BY TypedParts DEF FreshUsers, User

\* Ids are given in turn.
LEMMA FreshStep == Base /\ [Next]_vars => Fresh'
<1> SUFFICES ASSUME Base, [Next]_vars PROVE Fresh'
  OBVIOUS
<1>0. Typed /\ Steps /\ FreshDeparts /\ FreshPlaces /\ FreshUsers
  BY DEF Base, Fresh
<1>1. ASSUME NEW s \in Slot, NEW d \in Depart, NEW p \in Name \cup {None}, NEW n \in Name,
             AddDepart(s, d, p, n)
      PROVE  Fresh'
  <2>1. UNCHANGED <<depart, departs, place, user, users>>
    BY <1>0, <1>1, AddDepartFacts
  <2>2. QED
    BY <1>0, <2>1 DEF Fresh, FreshDeparts, FreshPlaces, FreshUsers
<1>2. ASSUME NEW s \in Slot, AddDepartMessage(s) PROVE Fresh'
  <2>1. /\ UNCHANGED <<place, user, users>> /\ request[s].op = "add"
        /\ departs' = departs + 1 /\ departs' \in Depart
        /\ depart'[departs'].pid = request[s].d
        /\ \A c \in Depart : c # departs' => depart'[c] = depart[c]
    BY <1>0, <1>2, AddDepartMessageFacts
  <2>2. request[s].d \in 0 .. departs
    <3>1. request[s].d \in 1 .. departs
      BY <1>0, <2>1 DEF Steps, Regular
    <3>2. QED
      BY <1>0, <3>1, Numbers
  <2>3. FreshDeparts'
    BY <1>0, <2>1, <2>2, NewDepart
  <2>4. FreshPlaces'
    BY <1>0, <2>1, Numbers DEF FreshPlaces
  <2>5. QED
    BY <1>0, <2>1, <2>3, <2>4 DEF Fresh, FreshUsers
<1>3. ASSUME NEW s \in Slot, NEW d \in Depart, NEW n \in Name, UpdateDepart(s, d, n)
      PROVE  Fresh'
  <2>1. /\ UNCHANGED <<departs, place, user, users>>
        /\ \A c \in Depart : /\ depart'[c].pid \in {depart[c].pid, 0}
                             /\ depart'[c].exists => depart[c].exists
    BY <1>0, <1>3, UpdateDepartFacts
  <2>2. FreshDeparts'
    BY <1>0, <2>1, KeptDeparts
  <2>3. QED
    BY <1>0, <2>1, <2>2 DEF Fresh, FreshPlaces, FreshUsers
<1>4. ASSUME NEW s \in Slot, UpdateParentDepart(s) PROVE Fresh'
  <2>1. /\ UNCHANGED <<departs, place, user, users>>
        /\ \A c \in Depart : /\ depart'[c].pid \in {depart[c].pid, 0}
                             /\ depart'[c].exists => depart[c].exists
    BY <1>0, <1>4, UpdateParentDepartFacts
  <2>2. FreshDeparts'
    BY <1>0, <2>1, KeptDeparts
  <2>3. QED
    BY <1>0, <2>1, <2>2 DEF Fresh, FreshPlaces, FreshUsers
<1>5. ASSUME NEW s \in Slot, NEW d \in Depart, DeleteDepart(s, d)
      PROVE  Fresh'
  <2>1. UNCHANGED <<depart, departs, place, user, users>>
    BY <1>0, <1>5, DeleteDepartFacts
  <2>2. QED
    BY <1>0, <2>1 DEF Fresh, FreshDeparts, FreshPlaces, FreshUsers
<1>6. ASSUME NEW s \in Slot, MoveMachines(s) PROVE Fresh'
  <2>1. /\ UNCHANGED <<depart, departs, user, users>>
        /\ \A m \in Machine : place'[m] \in {place[m], Uncatalogued}
    BY <1>0, <1>6, MoveMachinesFacts
  <2>2. FreshPlaces'
    BY <1>0, <2>1, Numbers DEF FreshPlaces, Uncatalogued
  <2>3. QED
    BY <1>0, <2>1, <2>2 DEF Fresh, FreshDeparts, FreshUsers
<1>7. ASSUME NEW s \in Slot, DeleteDepartNode(s) PROVE Fresh'
  <2>1. /\ UNCHANGED <<departs, place, user, users>>
        /\ \A c \in Depart : /\ depart'[c].pid \in {depart[c].pid, 0}
                             /\ depart'[c].exists => depart[c].exists
    BY <1>0, <1>7, DeleteDepartNodeFacts DEF NoDepart
  <2>2. FreshDeparts'
    BY <1>0, <2>1, KeptDeparts
  <2>3. QED
    BY <1>0, <2>1, <2>2 DEF Fresh, FreshPlaces, FreshUsers
<1>8. ASSUME NEW s \in Slot, DelUser(s) PROVE Fresh'
  <2>1. /\ UNCHANGED <<depart, departs, place, users>>
        /\ \A u \in User : user'[u].exists => user[u].exists
    BY <1>0, <1>8, DelUserFacts DEF NoUser
  <2>2. QED
    BY <1>0, <2>1, KeptUsers DEF Fresh, FreshDeparts, FreshPlaces
<1>9. ASSUME NEW s \in Slot, NEW m \in Machine, NEW d \in Depart, ModifyMachineDepart(s, m, d)
      PROVE  Fresh'
  <2>1. UNCHANGED <<depart, departs, user, users>> /\ place' = [place EXCEPT ![m] = d] /\ d <= departs
    BY <1>0, <1>9, ModifyMachineDepartFacts
  <2>2. d \in 1 .. departs /\ place \in [Machine -> Depart]
    BY <1>0, <2>1, TypedParts, Numbers DEF Depart
  <2>3. FreshPlaces'
    BY <1>0, <2>1, <2>2 DEF FreshPlaces
  <2>4. QED
    BY <1>0, <2>1, <2>3 DEF Fresh, FreshDeparts, FreshUsers
<1>10. ASSUME NEW s \in Slot, NEW f \in Form, Register(s, f)
      PROVE  Fresh'
  <2>1. UNCHANGED <<depart, departs, place, user, users>>
    BY <1>0, <1>10, RegisterFacts
  <2>2. QED
    BY <1>0, <2>1 DEF Fresh, FreshDeparts, FreshPlaces, FreshUsers
<1>11. ASSUME NEW s \in Slot, AddUser(s) PROVE Fresh'
  <2>1. /\ UNCHANGED <<depart, departs, place>>
        /\ users' = users + 1 /\ users' \in User
        /\ \A u \in User : u # users' => user'[u] = user[u]
    BY <1>0, <1>11, AddUserFacts
  <2>2. QED
    BY <1>0, <2>1, NewUser DEF Fresh, FreshDeparts, FreshPlaces
<1>12. ASSUME NEW s \in Slot, NEW e \in Email, NEW d \in Depart, UpdateUser(s, e, d)
      PROVE  Fresh'
  <2>1. /\ UNCHANGED <<depart, departs, place, users>>
        /\ \A u \in User : user'[u].exists => user[u].exists
    BY <1>0, <1>12, UpdateUserFacts
  <2>2. QED
    BY <1>0, <2>1, KeptUsers DEF Fresh, FreshDeparts, FreshPlaces
<1>13. ASSUME NEW s \in Slot, NEW e \in Email, DeleteUser(s, e)
      PROVE  Fresh'
  <2>1. /\ UNCHANGED <<depart, departs, place, users>>
        /\ \A u \in User : user'[u].exists => user[u].exists
    BY <1>0, <1>13, DeleteUserFacts DEF NoUser
  <2>2. QED
    BY <1>0, <2>1, KeptUsers DEF Fresh, FreshDeparts, FreshPlaces
<1>14. ASSUME NEW s \in Slot, NEW q \in RoleId, AddRole(s, q)
      PROVE  Fresh'
  <2>1. UNCHANGED <<depart, departs, place, user, users>>
    BY <1>0, <1>14, AddRoleFacts
  <2>2. QED
    BY <1>0, <2>1 DEF Fresh, FreshDeparts, FreshPlaces, FreshUsers
<1>15. ASSUME NEW s \in Slot, NEW q \in RoleId, DeleteUserRole(s, q)
      PROVE  Fresh'
  <2>1. UNCHANGED <<depart, departs, place, user, users>>
    BY <1>0, <1>15, DeleteUserRoleFacts
  <2>2. QED
    BY <1>0, <2>1 DEF Fresh, FreshDeparts, FreshPlaces, FreshUsers
<1>16. ASSUME NEW s \in Slot, DeleteRole(s) PROVE Fresh'
  <2>1. UNCHANGED <<depart, departs, place, user, users>>
    BY <1>0, <1>16, DeleteRoleFacts
  <2>2. QED
    BY <1>0, <2>1 DEF Fresh, FreshDeparts, FreshPlaces, FreshUsers
<1>17. ASSUME NEW s \in Slot, StatementFails(s) PROVE Fresh'
  <2>1. UNCHANGED <<depart, departs, place, user, users>>
    BY <1>0, <1>17, StatementFailsFacts
  <2>2. QED
    BY <1>0, <2>1 DEF Fresh, FreshDeparts, FreshPlaces, FreshUsers
<1>18. ASSUME Restart PROVE Fresh'
  <2>1. UNCHANGED <<place, user, users>>
    BY <1>0, <1>18, RestartFacts
  <2>2. CASE UNCHANGED <<depart, departs>>
    BY <1>0, <2>1, <2>2 DEF Fresh, FreshDeparts, FreshPlaces, FreshUsers
  <2>3. CASE /\ departs' = departs + 1 /\ departs' \in Depart
             /\ depart'[departs'] = Root
             /\ \A c \in Depart : c # departs' => depart'[c] = depart[c]
    <3>1. depart'[departs'].pid \in 0 .. departs
      BY <1>0, <2>3, Numbers DEF Root
    <3>2. FreshDeparts'
      BY <1>0, <2>3, <3>1, NewDepart
    <3>3. FreshPlaces'
      BY <1>0, <2>1, <2>3, Numbers DEF FreshPlaces
    <3>4. QED
      BY <1>0, <2>1, <3>2, <3>3 DEF Fresh, FreshUsers
  <2>4. QED
    BY <1>0, <1>18, <2>2, <2>3, RestartFacts
<1>19. ASSUME CreateAdministratorUser PROVE Fresh'
  <2>1. /\ UNCHANGED <<depart, departs, place>>
        /\ users' = users + 1 /\ users' \in User
        /\ \A u \in User : u # users' => user'[u] = user[u]
    BY <1>0, <1>19, CreateAdministratorUserFacts
  <2>2. QED
    BY <1>0, <2>1, NewUser DEF Fresh, FreshDeparts, FreshPlaces
<1>20. ASSUME UNCHANGED vars PROVE Fresh'
  BY <1>0, <1>20 DEF vars, tables, Fresh, FreshDeparts, FreshPlaces, FreshUsers
<1>21. QED
  BY <1>1, <1>2, <1>3, <1>4, <1>5, <1>6, <1>7, <1>8, <1>9, <1>10,
     <1>11, <1>12, <1>13, <1>14, <1>15, <1>16, <1>17, <1>18, <1>19, <1>20 DEF Next

------------------------------------------------------------------------------
\* Machines.

Machines == Cleared /\ MachinePlaced

\* A slot that becomes idle.
LEMMA IdlePut ==
    ASSUME NEW s \in Slot, Put(s, Idle)
    PROVE  Put(s, request'[s]) /\ request'[s].pc = "idle" /\ request'[s].op = "none"
BY DEF Put, Idle

\* A step that moves no machine and begins no deletion: ids of parents stay or
\* become 0, which is no department.
LEMMA ClearedKept ==
    ASSUME Base, Cleared, NEW s \in Slot, Put(s, request'[s]),
           request'[s].pc \notin {"own", "sub", "rows"},
           place' = place,
           \A m \in Machine : <<"machine", m>> \in loose => <<"machine", m>> \in loose',
           \A c \in 1 .. departs : depart'[c].pid \in {depart[c].pid, 0}
    PROVE  Cleared'
<1>1. ASSUME NEW z \in Slot, NEW m \in Machine
      PROVE  /\ request'[z].pc = "own" /\ place'[m] = request'[z].d
                   => m \in request'[z].todo \/ Excused(m)'
             /\ request'[z].pc \in {"sub", "rows"}
                   /\ request'[z].d \in {place'[m], depart'[place'[m]].pid}
                   => m \in request'[z].todo \/ place'[m] \in request'[z].subs \/ Excused(m)'
  <2>1. CASE z = s
    BY <2>1
  <2>2. CASE z # s
    <3>1. request'[z] = request[z]
      BY <2>2 DEF Put
    <3>2. place[m] \in 1 .. departs
      BY DEF Base, Fresh, FreshPlaces
    <3>3. request[z].pc \in {"sub", "rows"} => request[z].d # 0
      <4>1. Typed /\ Regular(request[z], departs)
        BY DEF Base, Steps
      <4>2. request[z].pc \in {"sub", "rows"} => request[z].d \in 1 .. departs
        BY <4>1 DEF Regular
      <4>3. QED
        BY <4>1, <4>2, Numbers
    <3>4. Excused(m) => Excused(m)'
      BY DEF Excused
    <3>5. depart'[place[m]].pid \in {depart[place[m]].pid, 0}
      BY <3>2
    <3>6. QED
      BY <3>1, <3>3, <3>4, <3>5 DEF Cleared
  <2>3. QED
    BY <2>1, <2>2
<1>2. QED
  BY <1>1 DEF Cleared

\* A step that moves no machine and deletes no department.
LEMMA PlacedKept ==
    ASSUME MachinePlaced, place' = place,
           \A m \in Machine : <<"machine", m>> \in loose => <<"machine", m>> \in loose',
           \A c \in Depart : depart[c].exists => depart'[c].exists
    PROVE  MachinePlaced'
BY DEF MachinePlaced, InTable

\* A machine outside the table is excused: its department went away or came
\* too late.
LEMMA MachinesStep == Base /\ Machines /\ [Next]_vars => Machines'
<1> SUFFICES ASSUME Base, Machines, [Next]_vars PROVE Machines'
  OBVIOUS
<1>0. Typed /\ Steps /\ FreshDeparts /\ FreshPlaces /\ Cleared /\ MachinePlaced
  BY DEF Base, Fresh, Machines
<1>1. ASSUME NEW s \in Slot, NEW d \in Depart, NEW p \in Name \cup {None}, NEW n \in Name,
             AddDepart(s, d, p, n)
      PROVE  Machines'
  <2>1. /\ Put(s, request'[s]) /\ request'[s].pc \notin {"own", "sub", "rows"} /\ place' = place
        /\ \A m \in Machine : <<"machine", m>> \in loose => <<"machine", m>> \in loose'
        /\ \A c \in Depart : depart'[c].pid = depart[c].pid /\ (depart[c].exists => depart'[c].exists)
    BY <1>0, <1>1, AddDepartFacts
  <2>2. \A c \in 1 .. departs : depart'[c].pid \in {depart[c].pid, 0}
    BY <1>0, <2>1, Numbers DEF Depart
  <2>3. QED
    BY <1>0, <2>1, <2>2, ClearedKept, PlacedKept DEF Machines
<1>2. ASSUME NEW s \in Slot, AddDepartMessage(s) PROVE Machines'
  <2>1. /\ Put(s, request'[s]) /\ request'[s].pc \notin {"own", "sub", "rows"} /\ place' = place
        /\ loose \subseteq loose'
        /\ departs' = departs + 1 /\ depart'[departs'].exists
        /\ \A c \in Depart : c # departs' => depart'[c] = depart[c]
    BY <1>0, <1>2, AddDepartMessageFacts, IdlePut
  <2>2. \A c \in 1 .. departs : depart'[c].pid \in {depart[c].pid, 0}
    BY <1>0, <2>1, Numbers DEF Depart
  <2>3. \A c \in Depart : depart[c].exists => depart'[c].exists
    BY <2>1
  <2>4. QED
    BY <1>0, <2>1, <2>2, <2>3, ClearedKept, PlacedKept DEF Machines
<1>3. ASSUME NEW s \in Slot, NEW d \in Depart, NEW n \in Name, UpdateDepart(s, d, n)
      PROVE  Machines'
  <2>1. /\ Put(s, request'[s]) /\ request'[s].pc \notin {"own", "sub", "rows"} /\ place' = place
        /\ \A m \in Machine : <<"machine", m>> \in loose => <<"machine", m>> \in loose'
        /\ \A c \in Depart : depart'[c].pid = depart[c].pid /\ (depart[c].exists => depart'[c].exists)
    BY <1>0, <1>3, UpdateDepartFacts
  <2>2. \A c \in 1 .. departs : depart'[c].pid \in {depart[c].pid, 0}
    BY <1>0, <2>1, Numbers DEF Depart
  <2>3. QED
    BY <1>0, <2>1, <2>2, ClearedKept, PlacedKept DEF Machines
<1>4. ASSUME NEW s \in Slot, UpdateParentDepart(s) PROVE Machines'
  <2>1. /\ Put(s, request'[s]) /\ request'[s].pc \notin {"own", "sub", "rows"} /\ place' = place
        /\ \A m \in Machine : <<"machine", m>> \in loose => <<"machine", m>> \in loose'
        /\ \A c \in Depart : depart'[c].pid = depart[c].pid /\ (depart[c].exists => depart'[c].exists)
    <3>1. /\ Put(s, Idle) /\ UNCHANGED <<place>>
          /\ \A m \in Machine : <<"machine", m>> \in loose => <<"machine", m>> \in loose'
          /\ \A c \in Depart : depart'[c].pid = depart[c].pid /\ (depart[c].exists => depart'[c].exists)
      BY <1>0, <1>4, UpdateParentDepartFacts
    <3>2. QED
      BY <3>1, IdlePut
  <2>2. \A c \in 1 .. departs : depart'[c].pid \in {depart[c].pid, 0}
    BY <1>0, <2>1, Numbers DEF Depart
  <2>3. QED
    BY <1>0, <2>1, <2>2, ClearedKept, PlacedKept DEF Machines
<1>5. ASSUME NEW s \in Slot, NEW d \in Depart, DeleteDepart(s, d)
      PROVE  Machines'
  <2>1. /\ Put(s, request'[s]) /\ request'[s].pc = "own" /\ request'[s].d = d
        /\ request'[s].todo = MachineStore(d)
        /\ UNCHANGED <<place, depart, loose>>
    BY <1>0, <1>5, DeleteDepartFacts
  <2>2. MachinePlaced'
    BY <1>0, <2>1 DEF MachinePlaced, InTable
  <2>3. \A m \in Machine : place'[m] = d => m \in request'[s].todo
    BY <2>1 DEF MachineStore
  <2>4. \A z \in Slot : z # s => request'[z] = request[z]
    BY <2>1 DEF Put
  <2>5. \A m \in Machine : Excused(m) => Excused(m)'
    BY <2>1 DEF Excused
  <2>6. Cleared'
    BY <1>0, <2>1, <2>3, <2>4, <2>5 DEF Cleared
  <2>7. QED
    BY <2>2, <2>6 DEF Machines
<1>6. ASSUME NEW s \in Slot, MoveMachines(s) PROVE Machines'
  <2> DEFINE r == request[s]
             t == request'[s]
             left == IF r.pc = "own" THEN Children(r.d) ELSE r.subs
  <2>1. /\ Put(s, t) /\ t.d = r.d /\ r.pc \in {"own", "sub"}
        /\ \/ left = {} /\ t.pc = "rows"
           \/ \E c \in left : /\ t.pc = "sub" /\ t.subs = left \ {c}
                              /\ t.todo = {m \in Machine : place'[m] = c}
        /\ \A m \in Machine : place'[m] = IF m \in r.todo THEN Uncatalogued ELSE place[m]
        /\ UNCHANGED <<depart, loose>>
    BY <1>0, <1>6, MoveMachinesFacts
  <2>2. \A m \in Machine : m \in r.todo \/ Excused(m) => Excused(m)'
    BY <2>1 DEF Excused
  <2>3. MachinePlaced'
    BY <1>0, <2>1 DEF MachinePlaced, InTable
  <2>4. ASSUME NEW m \in Machine, r.d \in {place'[m], depart'[place'[m]].pid}, ~Excused(m)'
        PROVE  place'[m] \in left
    <3>1. m \notin r.todo /\ ~Excused(m) /\ place'[m] = place[m] /\ r.d \in {place[m], depart[place[m]].pid}
      BY <2>1, <2>2, <2>4
    <3>2. CASE r.pc = "own"
      <4>1. place[m] # r.d
        BY <1>0, <3>1, <3>2 DEF Cleared
      <4>2. InTable(place[m])
        BY <1>0, <3>1 DEF MachinePlaced, Excused
      <4>3. QED
        BY <3>1, <3>2, <4>1, <4>2 DEF Children, InTable
    <3>3. CASE r.pc = "sub"
      BY <1>0, <3>1, <3>3 DEF Cleared
    <3>4. QED
      BY <2>1, <3>2, <3>3
  <2>5. ASSUME NEW m \in Machine, r.d \in {place'[m], depart'[place'[m]].pid}
        PROVE  (t.pc = "sub" /\ (m \in t.todo \/ place'[m] \in t.subs)) \/ Excused(m)'
    BY <2>1, <2>4, <2>5
  <2>6. ASSUME NEW z \in Slot, NEW m \in Machine
        PROVE  /\ request'[z].pc = "own" /\ place'[m] = request'[z].d
                     => m \in request'[z].todo \/ Excused(m)'
               /\ request'[z].pc \in {"sub", "rows"}
                     /\ request'[z].d \in {place'[m], depart'[place'[m]].pid}
                     => m \in request'[z].todo \/ place'[m] \in request'[z].subs \/ Excused(m)'
    <3>1. CASE z = s
      BY <2>1, <2>5, <3>1
    <3>2. CASE z # s
      <4>1. request'[z] = request[z]
        BY <2>1, <3>2 DEF Put
      <4>2. Excused(m)' \/ place'[m] = place[m]
        BY <2>1, <2>2
      <4>3. QED
        BY <1>0, <2>1, <2>2, <4>1, <4>2 DEF Cleared
    <3>3. QED
      BY <3>1, <3>2
  <2>7. Cleared'
    BY <2>6 DEF Cleared
  <2>8. QED
    BY <2>3, <2>7 DEF Machines
<1>7. ASSUME NEW s \in Slot, DeleteDepartNode(s) PROVE Machines'
  <2>1. /\ Put(s, request'[s]) /\ request'[s].pc = "users" /\ request[s].pc = "rows"
        /\ UNCHANGED <<departs, place>> /\ loose \subseteq loose'
        /\ \A c \in Depart : \/ depart'[c] = depart[c]
                             \/ depart'[c] = NoDepart /\ (c = request[s].d \/ c \in Children(request[s].d))
    BY <1>0, <1>7, DeleteDepartNodeFacts
  <2>2. \A c \in 1 .. departs : depart'[c].pid \in {depart[c].pid, 0}
    BY <1>0, <2>1, Numbers DEF Depart, NoDepart
  <2>3. Cleared'
    BY <1>0, <2>1, <2>2, ClearedKept
  <2>4. ASSUME NEW m \in Machine
        PROVE  InTable(place[m])' \/ <<"machine", m>> \in loose' \/ place[m] = Uncatalogued
    <3>1. place[m] \in Depart
      BY <1>0, TypedParts
    <3>2. CASE depart'[place[m]] = depart[place[m]]
      BY <1>0, <2>1, <3>2 DEF MachinePlaced, InTable
    <3>3. CASE place[m] = request[s].d \/ place[m] \in Children(request[s].d)
      <4>1. request[s].d \in {place[m], depart[place[m]].pid}
        BY <3>3 DEF Children
      <4>2. request[s].todo = {} /\ request[s].subs = {}
        BY <1>0, <2>1 DEF Steps, Regular
      <4>3. Excused(m)
        BY <1>0, <2>1, <4>1, <4>2 DEF Cleared
      <4>4. QED
        BY <2>1, <4>3 DEF Excused
    <3>4. QED
      BY <2>1, <3>1, <3>2, <3>3
  <2>5. MachinePlaced'
    BY <2>1, <2>4 DEF MachinePlaced
  <2>6. QED
    BY <2>3, <2>5 DEF Machines
<1>8. ASSUME NEW s \in Slot, DelUser(s) PROVE Machines'
  <2>1. /\ Put(s, request'[s]) /\ request'[s].pc \notin {"own", "sub", "rows"} /\ place' = place
        /\ \A m \in Machine : <<"machine", m>> \in loose => <<"machine", m>> \in loose'
        /\ \A c \in Depart : depart'[c].pid = depart[c].pid /\ (depart[c].exists => depart'[c].exists)
    <3>1. /\ Put(s, Idle) /\ UNCHANGED <<place>>
          /\ \A m \in Machine : <<"machine", m>> \in loose => <<"machine", m>> \in loose'
          /\ \A c \in Depart : depart'[c].pid = depart[c].pid /\ (depart[c].exists => depart'[c].exists)
      BY <1>0, <1>8, DelUserFacts
    <3>2. QED
      BY <3>1, IdlePut
  <2>2. \A c \in 1 .. departs : depart'[c].pid \in {depart[c].pid, 0}
    BY <1>0, <2>1, Numbers DEF Depart
  <2>3. QED
    BY <1>0, <2>1, <2>2, ClearedKept, PlacedKept DEF Machines
<1>9. ASSUME NEW s \in Slot, NEW m \in Machine, NEW d \in Depart, ModifyMachineDepart(s, m, d)
      PROVE  Machines'
  <2>1. /\ Put(s, Idle) /\ place' = [place EXCEPT ![m] = d]
        /\ (InTable(d) /\ ~Deleting(d)) \/ <<"machine", m>> \in loose'
        /\ \A x \in loose : x # <<"machine", m>> => x \in loose'
        /\ depart' = depart
    BY <1>0, <1>9, ModifyMachineDepartFacts
  <2>2. place'[m] = d /\ \A x \in Machine \ {m} : place'[x] = place[x]
    BY <1>0, <2>1, TypedParts
  <2>3. \A x \in Machine \ {m} : Excused(x) => Excused(x)'
    BY <2>1, <2>2 DEF Excused
  <2>4. MachinePlaced'
    BY <1>0, <2>1, <2>2, <2>3 DEF MachinePlaced, InTable, Excused
  <2>5. ASSUME NEW z \in Slot, NEW x \in Machine
        PROVE  /\ request'[z].pc = "own" /\ place'[x] = request'[z].d
                     => x \in request'[z].todo \/ Excused(x)'
               /\ request'[z].pc \in {"sub", "rows"}
                     /\ request'[z].d \in {place'[x], depart'[place'[x]].pid}
                     => x \in request'[z].todo \/ place'[x] \in request'[z].subs \/ Excused(x)'
    <3>1. CASE z = s
      BY <2>1, <3>1 DEF Put, Idle
    <3>2. CASE z # s /\ x # m
      <4>1. request'[z] = request[z] /\ place'[x] = place[x]
        BY <2>1, <2>2, <3>2 DEF Put
      <4>2. QED
        BY <1>0, <2>1, <2>3, <3>2, <4>1 DEF Cleared
    <3>3. CASE z # s /\ x = m
      <4>1. CASE <<"machine", m>> \in loose'
        BY <3>3, <4>1 DEF Excused
      <4>2. CASE ~Deleting(d)
        <5>1. request'[z] = request[z]
          BY <2>1, <3>3 DEF Put
        <5>2. request[z].pc \in {"own", "sub", "rows"} => request[z].op = "delete"
          BY <1>0 DEF Steps, Regular
        <5>3. d # 0
          BY DEF Depart
        <5>4. request[z].pc \in {"own", "sub", "rows"} => request[z].d \notin {d, depart[d].pid}
          BY <4>2, <5>2, <5>3 DEF Deleting
        <5>5. QED
          BY <2>1, <2>2, <3>3, <5>1, <5>4
      <4>3. QED
        BY <2>1, <4>1, <4>2
    <3>4. QED
      BY <3>1, <3>2, <3>3
  <2>6. Cleared'
    BY <2>5 DEF Cleared
  <2>7. QED
    BY <2>4, <2>6 DEF Machines
<1>10. ASSUME NEW s \in Slot, NEW f \in Form, Register(s, f)
      PROVE  Machines'
  <2>1. /\ Put(s, request'[s]) /\ request'[s].pc \notin {"own", "sub", "rows"} /\ place' = place
        /\ \A m \in Machine : <<"machine", m>> \in loose => <<"machine", m>> \in loose'
        /\ \A c \in Depart : depart'[c].pid = depart[c].pid /\ (depart[c].exists => depart'[c].exists)
    BY <1>0, <1>10, RegisterFacts
  <2>2. \A c \in 1 .. departs : depart'[c].pid \in {depart[c].pid, 0}
    BY <1>0, <2>1, Numbers DEF Depart
  <2>3. QED
    BY <1>0, <2>1, <2>2, ClearedKept, PlacedKept DEF Machines
<1>11. ASSUME NEW s \in Slot, AddUser(s) PROVE Machines'
  <2>1. /\ Put(s, request'[s]) /\ request'[s].pc \notin {"own", "sub", "rows"} /\ place' = place
        /\ \A m \in Machine : <<"machine", m>> \in loose => <<"machine", m>> \in loose'
        /\ \A c \in Depart : depart'[c].pid = depart[c].pid /\ (depart[c].exists => depart'[c].exists)
    <3>1. /\ Put(s, Idle) /\ UNCHANGED <<place>>
          /\ \A m \in Machine : <<"machine", m>> \in loose => <<"machine", m>> \in loose'
          /\ \A c \in Depart : depart'[c].pid = depart[c].pid /\ (depart[c].exists => depart'[c].exists)
      BY <1>0, <1>11, AddUserFacts
    <3>2. QED
      BY <3>1, IdlePut
  <2>2. \A c \in 1 .. departs : depart'[c].pid \in {depart[c].pid, 0}
    BY <1>0, <2>1, Numbers DEF Depart
  <2>3. QED
    BY <1>0, <2>1, <2>2, ClearedKept, PlacedKept DEF Machines
<1>12. ASSUME NEW s \in Slot, NEW e \in Email, NEW d \in Depart, UpdateUser(s, e, d)
      PROVE  Machines'
  <2>1. /\ Put(s, request'[s]) /\ request'[s].pc \notin {"own", "sub", "rows"} /\ place' = place
        /\ \A m \in Machine : <<"machine", m>> \in loose => <<"machine", m>> \in loose'
        /\ \A c \in Depart : depart'[c].pid = depart[c].pid /\ (depart[c].exists => depart'[c].exists)
    <3>1. /\ Put(s, Idle) /\ UNCHANGED <<place>>
          /\ \A m \in Machine : <<"machine", m>> \in loose => <<"machine", m>> \in loose'
          /\ \A c \in Depart : depart'[c].pid = depart[c].pid /\ (depart[c].exists => depart'[c].exists)
      BY <1>0, <1>12, UpdateUserFacts
    <3>2. QED
      BY <3>1, IdlePut
  <2>2. \A c \in 1 .. departs : depart'[c].pid \in {depart[c].pid, 0}
    BY <1>0, <2>1, Numbers DEF Depart
  <2>3. QED
    BY <1>0, <2>1, <2>2, ClearedKept, PlacedKept DEF Machines
<1>13. ASSUME NEW s \in Slot, NEW e \in Email, DeleteUser(s, e)
      PROVE  Machines'
  <2>1. /\ Put(s, request'[s]) /\ request'[s].pc \notin {"own", "sub", "rows"} /\ place' = place
        /\ \A m \in Machine : <<"machine", m>> \in loose => <<"machine", m>> \in loose'
        /\ \A c \in Depart : depart'[c].pid = depart[c].pid /\ (depart[c].exists => depart'[c].exists)
    <3>1. /\ Put(s, Idle) /\ UNCHANGED <<place>>
          /\ \A m \in Machine : <<"machine", m>> \in loose => <<"machine", m>> \in loose'
          /\ \A c \in Depart : depart'[c].pid = depart[c].pid /\ (depart[c].exists => depart'[c].exists)
      BY <1>0, <1>13, DeleteUserFacts
    <3>2. QED
      BY <3>1, IdlePut
  <2>2. \A c \in 1 .. departs : depart'[c].pid \in {depart[c].pid, 0}
    BY <1>0, <2>1, Numbers DEF Depart
  <2>3. QED
    BY <1>0, <2>1, <2>2, ClearedKept, PlacedKept DEF Machines
<1>14. ASSUME NEW s \in Slot, NEW q \in RoleId, AddRole(s, q)
      PROVE  Machines'
  <2>1. /\ Put(s, request'[s]) /\ request'[s].pc \notin {"own", "sub", "rows"} /\ place' = place
        /\ \A m \in Machine : <<"machine", m>> \in loose => <<"machine", m>> \in loose'
        /\ \A c \in Depart : depart'[c].pid = depart[c].pid /\ (depart[c].exists => depart'[c].exists)
    <3>1. /\ Put(s, Idle) /\ UNCHANGED <<place>>
          /\ \A m \in Machine : <<"machine", m>> \in loose => <<"machine", m>> \in loose'
          /\ \A c \in Depart : depart'[c].pid = depart[c].pid /\ (depart[c].exists => depart'[c].exists)
      BY <1>0, <1>14, AddRoleFacts
    <3>2. QED
      BY <3>1, IdlePut
  <2>2. \A c \in 1 .. departs : depart'[c].pid \in {depart[c].pid, 0}
    BY <1>0, <2>1, Numbers DEF Depart
  <2>3. QED
    BY <1>0, <2>1, <2>2, ClearedKept, PlacedKept DEF Machines
<1>15. ASSUME NEW s \in Slot, NEW q \in RoleId, DeleteUserRole(s, q)
      PROVE  Machines'
  <2>1. /\ Put(s, request'[s]) /\ request'[s].pc \notin {"own", "sub", "rows"} /\ place' = place
        /\ \A m \in Machine : <<"machine", m>> \in loose => <<"machine", m>> \in loose'
        /\ \A c \in Depart : depart'[c].pid = depart[c].pid /\ (depart[c].exists => depart'[c].exists)
    BY <1>0, <1>15, DeleteUserRoleFacts
  <2>2. \A c \in 1 .. departs : depart'[c].pid \in {depart[c].pid, 0}
    BY <1>0, <2>1, Numbers DEF Depart
  <2>3. QED
    BY <1>0, <2>1, <2>2, ClearedKept, PlacedKept DEF Machines
<1>16. ASSUME NEW s \in Slot, DeleteRole(s) PROVE Machines'
  <2>1. /\ Put(s, request'[s]) /\ request'[s].pc \notin {"own", "sub", "rows"} /\ place' = place
        /\ \A m \in Machine : <<"machine", m>> \in loose => <<"machine", m>> \in loose'
        /\ \A c \in Depart : depart'[c].pid = depart[c].pid /\ (depart[c].exists => depart'[c].exists)
    <3>1. /\ Put(s, Idle) /\ UNCHANGED <<place>>
          /\ \A m \in Machine : <<"machine", m>> \in loose => <<"machine", m>> \in loose'
          /\ \A c \in Depart : depart'[c].pid = depart[c].pid /\ (depart[c].exists => depart'[c].exists)
      BY <1>0, <1>16, DeleteRoleFacts
    <3>2. QED
      BY <3>1, IdlePut
  <2>2. \A c \in 1 .. departs : depart'[c].pid \in {depart[c].pid, 0}
    BY <1>0, <2>1, Numbers DEF Depart
  <2>3. QED
    BY <1>0, <2>1, <2>2, ClearedKept, PlacedKept DEF Machines
<1>17. ASSUME NEW s \in Slot, StatementFails(s) PROVE Machines'
  <2>1. /\ Put(s, request'[s]) /\ request'[s].pc \notin {"own", "sub", "rows"} /\ place' = place
        /\ \A m \in Machine : <<"machine", m>> \in loose => <<"machine", m>> \in loose'
        /\ \A c \in Depart : depart'[c].pid = depart[c].pid /\ (depart[c].exists => depart'[c].exists)
    <3>1. /\ Put(s, Idle) /\ UNCHANGED <<place>>
          /\ \A m \in Machine : <<"machine", m>> \in loose => <<"machine", m>> \in loose'
          /\ \A c \in Depart : depart'[c].pid = depart[c].pid /\ (depart[c].exists => depart'[c].exists)
      BY <1>0, <1>17, StatementFailsFacts
    <3>2. QED
      BY <3>1, IdlePut
  <2>2. \A c \in 1 .. departs : depart'[c].pid \in {depart[c].pid, 0}
    BY <1>0, <2>1, Numbers DEF Depart
  <2>3. QED
    BY <1>0, <2>1, <2>2, ClearedKept, PlacedKept DEF Machines
<1>18. ASSUME Restart PROVE Machines'
  <2>1. /\ \A s \in Slot : request'[s] = Idle
        /\ place' = place /\ loose \subseteq loose'
        /\ \A c \in Depart : depart[c].exists => depart'[c].exists
    <3>1. \/ UNCHANGED depart
          \/ depart'[departs'] = Root /\ \A c \in Depart : c # departs' => depart'[c] = depart[c]
      BY <1>0, <1>18, RestartFacts
    <3>2. \A c \in Depart : depart[c].exists => depart'[c].exists
      BY <3>1 DEF Root
    <3>3. QED
      BY <1>0, <1>18, <3>2, RestartFacts
  <2>2. Cleared'
    BY <2>1 DEF Cleared, Idle
  <2>3. QED
    BY <1>0, <2>1, <2>2, PlacedKept DEF Machines
<1>19. ASSUME CreateAdministratorUser PROVE Machines'
  <2>1. /\ \A s \in Slot : request'[s].pc = "idle"
        /\ UNCHANGED <<place, depart>> /\ loose \subseteq loose'
    BY <1>0, <1>19, CreateAdministratorUserFacts
  <2>2. Cleared'
    BY <2>1 DEF Cleared
  <2>3. QED
    BY <1>0, <2>1, <2>2, PlacedKept DEF Machines
<1>20. ASSUME UNCHANGED vars PROVE Machines'
  BY <1>0, <1>20 DEF vars, tables, Machines, Cleared, MachinePlaced, Excused, InTable
<1>21. QED
  BY <1>1, <1>2, <1>3, <1>4, <1>5, <1>6, <1>7, <1>8, <1>9, <1>10,
     <1>11, <1>12, <1>13, <1>14, <1>15, <1>16, <1>17, <1>18, <1>19, <1>20 DEF Next

------------------------------------------------------------------------------
\* The departments of users.

\* What UserPlaced says of one user.
Placed(u) ==
    \/ InTable(user[u].dept) \/ user[u].dept \in stranded
    \/ <<"user", u>> \in loose
    \/ \E s \in Slot : request[s].pc = "users" /\ request[s].d = user[u].dept

\* A step that deletes no department and writes nothing in the row of user u.
LEMMA UserKept ==
    ASSUME NEW s \in Slot, Put(s, request'[s]),
           request[s].pc # "users" \/ request[s].d \in stranded',
           stranded \subseteq stranded',
           \A c \in Depart : depart[c].exists => depart'[c].exists,
           NEW u \in User, Placed(u), user'[u].dept = user[u].dept,
           <<"user", u>> \in loose => <<"user", u>> \in loose'
    PROVE  Placed(u)'
<1>1. CASE InTable(user[u].dept) \/ user[u].dept \in stranded \/ <<"user", u>> \in loose
  BY <1>1 DEF Placed, InTable
<1>2. ASSUME NEW z \in Slot, request[z].pc = "users", request[z].d = user[u].dept
      PROVE  Placed(u)'
  <2>1. CASE z = s
    BY <1>2, <2>1 DEF Placed
  <2>2. CASE z # s
    BY <1>2, <2>2 DEF Placed, Put
  <2>3. QED
    BY <2>1, <2>2
<1>3. QED
  BY <1>1, <1>2 DEF Placed

\* A user whose department goes is deleted with it, or stranded.
LEMMA UserPlacedStep == Base /\ UserPlaced /\ [Next]_vars => UserPlaced'
<1> SUFFICES ASSUME Base, UserPlaced, [Next]_vars PROVE UserPlaced'
  OBVIOUS
<1>0. Typed /\ UserPlaced
  BY DEF Base
<1> SUFFICES ASSUME NEW u \in User, user'[u].exists PROVE Placed(u)'
  BY DEF UserPlaced, Placed
<1>00. user[u].exists => Placed(u)
  BY DEF UserPlaced, Placed
<1>1. ASSUME NEW s \in Slot, NEW d \in Depart, NEW p \in Name \cup {None}, NEW n \in Name,
             AddDepart(s, d, p, n)
      PROVE  Placed(u)'
  <2>1. /\ Put(s, request'[s]) /\ (request[s].pc # "users" \/ request[s].d \in stranded')
        /\ stranded \subseteq stranded' /\ user' = user
        /\ \A c \in Depart : depart[c].exists => depart'[c].exists
        /\ <<"user", u>> \in loose => <<"user", u>> \in loose'
    BY <1>0, <1>1, AddDepartFacts
  <2>2. QED
    BY <1>0, <1>00, <2>1, UserKept
<1>2. ASSUME NEW s \in Slot, AddDepartMessage(s) PROVE Placed(u)'
  <2>1. /\ Put(s, Idle) /\ (request[s].pc # "users" \/ request[s].d \in stranded')
        /\ stranded \subseteq stranded' /\ user' = user
        /\ \A c \in Depart : depart[c].exists => depart'[c].exists
        /\ <<"user", u>> \in loose => <<"user", u>> \in loose'
    <3>1. request[s].pc # "users"
      BY <1>0, <1>2, AddDepartMessageFacts DEF Base, Steps, Regular
    <3>2. QED
      BY <1>0, <1>2, <3>1, AddDepartMessageFacts
  <2>2. QED
    BY <1>0, <1>00, <2>1, UserKept, IdlePut
<1>3. ASSUME NEW s \in Slot, NEW d \in Depart, NEW n \in Name, UpdateDepart(s, d, n)
      PROVE  Placed(u)'
  <2>1. /\ Put(s, request'[s]) /\ (request[s].pc # "users" \/ request[s].d \in stranded')
        /\ stranded \subseteq stranded' /\ user' = user
        /\ \A c \in Depart : depart[c].exists => depart'[c].exists
        /\ <<"user", u>> \in loose => <<"user", u>> \in loose'
    BY <1>0, <1>3, UpdateDepartFacts
  <2>2. QED
    BY <1>0, <1>00, <2>1, UserKept
<1>4. ASSUME NEW s \in Slot, UpdateParentDepart(s) PROVE Placed(u)'
  <2>1. /\ Put(s, Idle) /\ (request[s].pc # "users" \/ request[s].d \in stranded')
        /\ stranded \subseteq stranded' /\ user' = user
        /\ \A c \in Depart : depart[c].exists => depart'[c].exists
        /\ <<"user", u>> \in loose => <<"user", u>> \in loose'
    BY <1>0, <1>4, UpdateParentDepartFacts
  <2>2. QED
    BY <1>0, <1>00, <2>1, UserKept, IdlePut
<1>5. ASSUME NEW s \in Slot, NEW d \in Depart, DeleteDepart(s, d)
      PROVE  Placed(u)'
  <2>1. /\ Put(s, request'[s]) /\ (request[s].pc # "users" \/ request[s].d \in stranded')
        /\ stranded \subseteq stranded' /\ user' = user
        /\ \A c \in Depart : depart[c].exists => depart'[c].exists
        /\ <<"user", u>> \in loose => <<"user", u>> \in loose'
    BY <1>0, <1>5, DeleteDepartFacts
  <2>2. QED
    BY <1>0, <1>00, <2>1, UserKept
<1>6. ASSUME NEW s \in Slot, MoveMachines(s) PROVE Placed(u)'
  <2>1. /\ Put(s, request'[s]) /\ (request[s].pc # "users" \/ request[s].d \in stranded')
        /\ stranded \subseteq stranded' /\ user' = user
        /\ \A c \in Depart : depart[c].exists => depart'[c].exists
        /\ <<"user", u>> \in loose => <<"user", u>> \in loose'
    BY <1>0, <1>6, MoveMachinesFacts
  <2>2. QED
    BY <1>0, <1>00, <2>1, UserKept
<1>7. ASSUME NEW s \in Slot, DeleteDepartNode(s) PROVE Placed(u)'
  <2>1. /\ Put(s, request'[s]) /\ request'[s].pc = "users" /\ request[s].pc = "rows"
        /\ request'[s].d = request[s].d
        /\ user' = user /\ stranded \subseteq stranded' /\ loose \subseteq loose'
        /\ \A c \in Depart : depart'[c] = depart[c] \/ c = request[s].d \/ c \in stranded'
    BY <1>0, <1>7, DeleteDepartNodeFacts
  <2>2. CASE InTable(user[u].dept)
    BY <2>1, <2>2 DEF Placed, InTable
  <2>3. CASE user[u].dept \in stranded \/ <<"user", u>> \in loose
    BY <2>1, <2>3 DEF Placed
  <2>4. ASSUME NEW z \in Slot, request[z].pc = "users", request[z].d = user[u].dept
        PROVE  Placed(u)'
    BY <2>1, <2>4 DEF Placed, Put
  <2>5. QED
    BY <1>00, <2>1, <2>2, <2>3, <2>4 DEF Placed
<1>8. ASSUME NEW s \in Slot, DelUser(s) PROVE Placed(u)'
  <2>1. /\ Put(s, Idle)
        /\ user' = [v \in User |-> IF user[v].dept = request[s].d THEN NoUser ELSE user[v]]
        /\ UNCHANGED <<depart, loose, stranded>>
    BY <1>0, <1>8, DelUserFacts
  <2>2. user'[u] = user[u] /\ user[u].dept # request[s].d /\ user[u].exists
    BY <2>1 DEF NoUser
  <2>3. \A z \in Slot : z # s => request'[z] = request[z]
    BY <2>1 DEF Put
  <2>4. QED
    BY <1>00, <2>1, <2>2, <2>3 DEF Placed, InTable
<1>9. ASSUME NEW s \in Slot, NEW m \in Machine, NEW d \in Depart, ModifyMachineDepart(s, m, d)
      PROVE  Placed(u)'
  <2>1. /\ Put(s, Idle) /\ (request[s].pc # "users" \/ request[s].d \in stranded')
        /\ stranded \subseteq stranded' /\ user' = user
        /\ \A c \in Depart : depart[c].exists => depart'[c].exists
        /\ <<"user", u>> \in loose => <<"user", u>> \in loose'
    BY <1>0, <1>9, ModifyMachineDepartFacts
  <2>2. QED
    BY <1>0, <1>00, <2>1, UserKept, IdlePut
<1>10. ASSUME NEW s \in Slot, NEW f \in Form, Register(s, f)
      PROVE  Placed(u)'
  <2>1. /\ Put(s, request'[s]) /\ (request[s].pc # "users" \/ request[s].d \in stranded')
        /\ stranded \subseteq stranded' /\ user' = user
        /\ \A c \in Depart : depart[c].exists => depart'[c].exists
        /\ <<"user", u>> \in loose => <<"user", u>> \in loose'
    BY <1>0, <1>10, RegisterFacts
  <2>2. QED
    BY <1>0, <1>00, <2>1, UserKept
<1>11. ASSUME NEW s \in Slot, AddUser(s) PROVE Placed(u)'
  <2>1. /\ Put(s, Idle) /\ request[s].op = "add user"
        /\ InTable(user'[users'].dept) \/ <<"user", users'>> \in loose'
        /\ \A v \in User : v # users' => user'[v] = user[v]
        /\ loose \subseteq loose' /\ UNCHANGED <<depart, stranded>>
    BY <1>0, <1>11, AddUserFacts
  <2>2. request[s].pc # "users"
    BY <2>1 DEF Base, Steps, Regular
  <2>3. CASE u = users'
    BY <2>1, <2>3 DEF Placed, InTable
  <2>4. CASE u # users'
    BY <1>00, <2>1, <2>2, <2>4, UserKept, IdlePut
  <2>5. QED
    BY <2>3, <2>4
<1>12. ASSUME NEW s \in Slot, NEW e \in Email, NEW d \in Depart, UpdateUser(s, e, d)
      PROVE  Placed(u)'
  <2>1. /\ Put(s, Idle) /\ request[s].pc = "idle" /\ user'[u].exists = user[u].exists
        /\ \/ user'[u].dept = user[u].dept /\ (<<"user", u>> \in loose => <<"user", u>> \in loose')
           \/ user'[u].dept = d /\ (InTable(d) \/ <<"user", u>> \in loose')
        /\ UNCHANGED <<depart, stranded>>
    BY <1>0, <1>12, UpdateUserFacts
  <2>2. CASE user'[u].dept = d /\ (InTable(d) \/ <<"user", u>> \in loose')
    BY <2>1, <2>2 DEF Placed, InTable
  <2>3. CASE user'[u].dept = user[u].dept /\ (<<"user", u>> \in loose => <<"user", u>> \in loose')
    BY <1>00, <2>1, <2>3, UserKept, IdlePut
  <2>4. QED
    BY <2>1, <2>2, <2>3
<1>13. ASSUME NEW s \in Slot, NEW e \in Email, DeleteUser(s, e)
      PROVE  Placed(u)'
  <2>1. /\ Put(s, Idle) /\ request[s].pc = "idle"
        /\ user' = [v \in User |-> IF user[v].email = e THEN NoUser ELSE user[v]]
        /\ UNCHANGED <<depart, loose, stranded>>
    BY <1>0, <1>13, DeleteUserFacts
  <2>2. user'[u] = user[u] /\ user[u].exists
    BY <2>1 DEF NoUser
  <2>3. QED
    BY <1>00, <2>1, <2>2, UserKept, IdlePut
<1>14. ASSUME NEW s \in Slot, NEW q \in RoleId, AddRole(s, q)
      PROVE  Placed(u)'
  <2>1. /\ Put(s, Idle) /\ (request[s].pc # "users" \/ request[s].d \in stranded')
        /\ stranded \subseteq stranded' /\ user' = user
        /\ \A c \in Depart : depart[c].exists => depart'[c].exists
        /\ <<"user", u>> \in loose => <<"user", u>> \in loose'
    BY <1>0, <1>14, AddRoleFacts
  <2>2. QED
    BY <1>0, <1>00, <2>1, UserKept, IdlePut
<1>15. ASSUME NEW s \in Slot, NEW q \in RoleId, DeleteUserRole(s, q)
      PROVE  Placed(u)'
  <2>1. /\ Put(s, request'[s]) /\ (request[s].pc # "users" \/ request[s].d \in stranded')
        /\ stranded \subseteq stranded' /\ user' = user
        /\ \A c \in Depart : depart[c].exists => depart'[c].exists
        /\ <<"user", u>> \in loose => <<"user", u>> \in loose'
    BY <1>0, <1>15, DeleteUserRoleFacts
  <2>2. QED
    BY <1>0, <1>00, <2>1, UserKept
<1>16. ASSUME NEW s \in Slot, DeleteRole(s) PROVE Placed(u)'
  <2>1. /\ Put(s, Idle) /\ (request[s].pc # "users" \/ request[s].d \in stranded')
        /\ stranded \subseteq stranded' /\ user' = user
        /\ \A c \in Depart : depart[c].exists => depart'[c].exists
        /\ <<"user", u>> \in loose => <<"user", u>> \in loose'
    BY <1>0, <1>16, DeleteRoleFacts
  <2>2. QED
    BY <1>0, <1>00, <2>1, UserKept, IdlePut
<1>17. ASSUME NEW s \in Slot, StatementFails(s) PROVE Placed(u)'
  <2>1. /\ Put(s, Idle) /\ (request[s].pc # "users" \/ request[s].d \in stranded')
        /\ stranded \subseteq stranded' /\ user' = user
        /\ \A c \in Depart : depart[c].exists => depart'[c].exists
        /\ <<"user", u>> \in loose => <<"user", u>> \in loose'
    BY <1>0, <1>17, StatementFailsFacts
  <2>2. QED
    BY <1>0, <1>00, <2>1, UserKept, IdlePut
<1>18. ASSUME Restart PROVE Placed(u)'
  <2>1. /\ \A s \in Slot : request[s].pc = "users" => request[s].d \in stranded'
        /\ UNCHANGED user /\ loose \subseteq loose' /\ stranded \subseteq stranded'
        /\ \/ UNCHANGED depart
           \/ depart'[departs'] = Root /\ \A c \in Depart : c # departs' => depart'[c] = depart[c]
    BY <1>0, <1>18, RestartFacts
  <2>2. \A c \in Depart : depart[c].exists => depart'[c].exists
    BY <2>1 DEF Root
  <2>3. QED
    BY <1>00, <2>1, <2>2 DEF Placed, InTable
<1>19. ASSUME CreateAdministratorUser PROVE Placed(u)'
  <2>1. /\ UNCHANGED <<request, depart, stranded>> /\ loose \subseteq loose'
        /\ user'[users'].dept = Uncatalogued
        /\ InTable(Uncatalogued) \/ <<"user", users'>> \in loose'
        /\ \A v \in User : v # users' => user'[v] = user[v]
    BY <1>0, <1>19, CreateAdministratorUserFacts
  <2>2. QED
    BY <1>00, <2>1 DEF Placed, InTable
<1>20. ASSUME UNCHANGED vars PROVE Placed(u)'
  BY <1>00, <1>20 DEF vars, tables, Placed, InTable
<1>21. QED
  BY <1>1, <1>2, <1>3, <1>4, <1>5, <1>6, <1>7, <1>8, <1>9, <1>10,
     <1>11, <1>12, <1>13, <1>14, <1>15, <1>16, <1>17, <1>18, <1>19, <1>20 DEF Next

------------------------------------------------------------------------------
\* The copies of names.

Names == Copied /\ ParentNamed

\* The same after the step, for a department named before it.
InTableNext(d) == d \in Depart /\ depart'[d].exists
RenamingNext(d) == \E s \in Slot : request'[s].op = "rename" /\ request'[s].d = d

\* The parent of a row has an earlier id than any row to come.
LEMMA ParentNumbered ==
    ASSUME Typed, FreshDeparts, NEW c \in Depart, InTable(depart[c].pid)
    PROVE  depart[c].pid \in Depart /\ depart[c].pid \in 1 .. departs
BY Numbers DEF FreshDeparts, InTable, Depart

\* A step that writes no name and renames nothing: rows stay or go.
LEMMA NamesKept ==
    ASSUME Names, NEW s \in Slot, Put(s, request'[s]),
           request[s].op # "rename", request'[s].pc # "children",
           \A c \in Depart : depart'[c] = depart[c] \/ depart'[c] = NoDepart,
           \A c \in Depart : <<"parent name", c>> \in loose => <<"parent name", c>> \in loose'
    PROVE  Names'
<1>1. \A c \in Depart : depart'[c].exists => depart'[c] = depart[c]
  <2>1. ~NoDepart.exists
    BY DEF NoDepart
  <2>2. QED
    BY <2>1
<1>2. \A z \in Slot : z # s => request'[z] = request[z]
  BY DEF Put
<1>3. \A d : InTableNext(d) => InTable(d) /\ depart'[d] = depart[d]
  BY <1>1 DEF InTable, InTableNext
<1>4. \A d : Renaming(d) => RenamingNext(d)
  BY <1>2 DEF Renaming, RenamingNext
<1>5. Copied'
  <2>1. ASSUME NEW z \in Slot, NEW c \in Depart, request'[z].pc = "children", depart'[c].exists,
               depart'[c].pid = request'[z].d, InTableNext(request'[z].d)
        PROVE  <<"parent name", c>> \in loose' \/ depart'[request'[z].d].name = request'[z].name
    <3>1. z # s /\ request'[z] = request[z] /\ depart'[c] = depart[c]
      BY <1>1, <1>2, <2>1
    <3>2. InTable(request[z].d) /\ depart'[request[z].d] = depart[request[z].d]
      BY <1>3, <2>1, <3>1
    <3>3. <<"parent name", c>> \in loose \/ depart[request[z].d].name = request[z].name
      BY <2>1, <3>1, <3>2 DEF Names, Copied
    <3>4. QED
      BY <3>1, <3>2, <3>3
  <2>2. QED
    BY <2>1 DEF Copied, InTable, InTableNext
<1>6. ParentNamed'
  <2>1. ASSUME NEW c \in Depart, depart'[c].exists, ~depart'[c].root, InTableNext(depart'[c].pid)
        PROVE  \/ depart'[c].parent = depart'[depart'[c].pid].name
               \/ <<"parent name", c>> \in loose' \/ RenamingNext(depart'[c].pid)
    <3>1. depart'[c] = depart[c] /\ InTable(depart[c].pid) /\ depart'[depart[c].pid] = depart[depart[c].pid]
      BY <1>1, <1>3, <2>1
    <3>2. \/ depart[c].parent = depart[depart[c].pid].name
          \/ <<"parent name", c>> \in loose \/ Renaming(depart[c].pid)
      BY <2>1, <3>1 DEF Names, ParentNamed, InTable, InTableNext, Renaming, RenamingNext
    <3>3. QED
      BY <1>4, <3>1, <3>2
  <2>2. QED
    BY <2>1 DEF ParentNamed, InTable, InTableNext, Renaming, RenamingNext
<1>7. QED
  BY <1>5, <1>6 DEF Names

\* A name that is written is written to the children by the same request, or
\* they are excused.
LEMMA NamesStep == Base /\ Names /\ [Next]_vars => Names'
<1> SUFFICES ASSUME Base, Names, [Next]_vars PROVE Names'
  OBVIOUS
<1>0. Typed /\ Steps /\ FreshDeparts /\ Copied /\ ParentNamed
  BY DEF Base, Fresh, Names
<1>00. \A s \in Slot : /\ request[s].op = "rename" <=> request[s].pc = "children"
                       /\ request[s].pc = "idle" => request[s].op = "none"
  BY <1>0 DEF Steps, Regular
<1>1. ASSUME NEW s \in Slot, NEW d \in Depart, NEW p \in Name \cup {None}, NEW n \in Name,
             AddDepart(s, d, p, n)
      PROVE  Names'
  <2>1. /\ Put(s, request'[s]) /\ request'[s].pc # "children" /\ request[s].pc # "children"
        /\ depart' = depart
        /\ \A c \in Depart : <<"parent name", c>> \in loose => <<"parent name", c>> \in loose'
    BY <1>0, <1>00, <1>1, AddDepartFacts
  <2>2. QED
    BY <1>0, <1>00, <2>1, NamesKept
<1>2. ASSUME NEW s \in Slot, AddDepartMessage(s) PROVE Names'
  <2> DEFINE r == request[s]
  <2>1. /\ Put(s, Idle) /\ r.op = "add"
        /\ departs' = departs + 1 /\ departs' \in Depart
        /\ depart'[departs'].pid = r.d /\ depart'[departs'].parent = r.parent
        /\ \A c \in Depart : c # departs' => depart'[c] = depart[c]
        /\ loose \subseteq loose'
        /\ depart[r.d].name # r.parent \/ Renaming(r.d) => <<"parent name", departs'>> \in loose'
    BY <1>0, <1>2, AddDepartMessageFacts
  <2>2. r.d \in 1 .. departs
    BY <1>0, <2>1 DEF Steps, Regular
  <2>3. r.d \in Depart /\ r.d # departs' /\ depart'[r.d] = depart[r.d]
    <3>1. r.d \in Depart /\ r.d # departs'
      <4>1. departs' = departs + 1
        BY <2>1
      <4>2. QED
        BY <1>0, <2>2, <4>1, Numbers DEF Depart
    <3>2. QED
      BY <2>1, <3>1
  <2>4. ASSUME NEW c \in Depart, c # departs', InTableNext(depart[c].pid)
        PROVE  /\ depart'[c] = depart[c] /\ depart'[depart[c].pid] = depart[depart[c].pid]
               /\ InTable(depart[c].pid)
    <3>1. depart[c].pid \in Depart /\ depart[c].pid \in 0 .. departs
      BY <1>0, <2>4 DEF FreshDeparts, InTable, InTableNext
    <3>2. depart[c].pid # departs'
      <4>1. departs' = departs + 1
        BY <2>1
      <4>2. QED
        BY <1>0, <3>1, <4>1, Numbers
    <3>3. QED
      BY <2>1, <2>4, <3>1, <3>2 DEF InTable, InTableNext
  <2>5. \A z \in Slot : z # s => request'[z] = request[z]
    BY <2>1 DEF Put
  <2>6. request'[s].pc = "idle" /\ request[s].op # "rename"
    BY <2>1, IdlePut
  <2>7. \A d : Renaming(d) => RenamingNext(d)
    BY <2>5, <2>6 DEF Renaming, RenamingNext
  <2>8. Copied'
    <3>1. ASSUME NEW z \in Slot, NEW c \in Depart, request'[z].pc = "children", depart'[c].exists,
                 depart'[c].pid = request'[z].d, InTableNext(request'[z].d)
          PROVE  <<"parent name", c>> \in loose' \/ depart'[request'[z].d].name = request'[z].name
      <4>1. z # s /\ request'[z] = request[z] /\ request[z].op = "rename"
        BY <1>00, <2>5, <2>6, <3>1
      <4>2. CASE c = departs'
        BY <2>1, <3>1, <4>1, <4>2 DEF Renaming, RenamingNext
      <4>3. CASE c # departs'
        <5>1. depart'[c] = depart[c] /\ request[z].d = depart[c].pid
          BY <2>1, <3>1, <4>1, <4>3
        <5>2. InTable(depart[c].pid) /\ depart'[depart[c].pid] = depart[depart[c].pid]
          BY <2>4, <3>1, <4>1, <4>3, <5>1
        <5>3. <<"parent name", c>> \in loose \/ depart[request[z].d].name = request[z].name
          BY <1>0, <3>1, <4>1, <5>1, <5>2 DEF Copied
        <5>4. QED
          BY <2>1, <4>1, <5>1, <5>2, <5>3
      <4>4. QED
        BY <4>2, <4>3
    <3>2. QED
      BY <3>1 DEF Copied, InTable, InTableNext
  <2>9. ParentNamed'
    <3>1. ASSUME NEW c \in Depart, depart'[c].exists, ~depart'[c].root, InTableNext(depart'[c].pid)
          PROVE  \/ depart'[c].parent = depart'[depart'[c].pid].name
                 \/ <<"parent name", c>> \in loose' \/ RenamingNext(depart'[c].pid)
      <4>1. CASE c = departs'
        BY <2>1, <2>3, <4>1
      <4>2. CASE c # departs'
        <5>1. depart'[c] = depart[c]
          BY <2>1, <4>2
        <5>2. InTable(depart[c].pid) /\ depart'[depart[c].pid] = depart[depart[c].pid]
          BY <2>4, <3>1, <4>2, <5>1
        <5>3. \/ depart[c].parent = depart[depart[c].pid].name
              \/ <<"parent name", c>> \in loose \/ Renaming(depart[c].pid)
          BY <1>0, <3>1, <5>1, <5>2 DEF ParentNamed
        <5>4. QED
          BY <2>1, <2>7, <5>1, <5>2, <5>3
      <4>3. QED
        BY <4>1, <4>2
    <3>2. QED
      BY <3>1 DEF ParentNamed, InTable, InTableNext, Renaming, RenamingNext
  <2>10. QED
    BY <2>8, <2>9 DEF Names
<1>3. ASSUME NEW s \in Slot, NEW d \in Depart, NEW n \in Name, UpdateDepart(s, d, n)
      PROVE  Names'
  <2>1. /\ Put(s, request'[s]) /\ request[s].pc = "idle"
        /\ request'[s].op = "rename" /\ request'[s].d = d /\ request'[s].name = n
        /\ \A c \in Depart :
              /\ depart'[c].exists = depart[c].exists /\ depart'[c].root = depart[c].root
              /\ depart'[c].pid = depart[c].pid /\ depart'[c].parent = depart[c].parent
              /\ c # d \/ ~InTable(d) => depart'[c] = depart[c]
        /\ InTable(d) => depart'[d].name = n
        /\ loose \subseteq loose'
        /\ Renaming(d) => \A c \in Children(d) : <<"parent name", c>> \in loose'
    <3>1. UpdateDepart(s, d, n)
      BY <1>3
    <3>2. /\ Put(s, request'[s]) /\ request[s].pc = "idle" /\ requests' \in 0 .. MaxRequests
          /\ request'[s].op = "rename" /\ request'[s].pc = "children"
          /\ request'[s].d = d /\ request'[s].name = n
          /\ depart' \in [Depart -> Node]
          /\ \A c \in Depart :
                /\ depart'[c].exists = depart[c].exists /\ depart'[c].root = depart[c].root
                /\ depart'[c].pid = depart[c].pid /\ depart'[c].parent = depart[c].parent
                /\ c # d \/ ~InTable(d) => depart'[c] = depart[c]
          /\ InTable(d) => depart'[d].name = n
          /\ loose \subseteq loose'
          /\ Renaming(d) => \A c \in Children(d) : <<"parent name", c>> \in loose'
          /\ UNCHANGED <<departs, place, user, users, role, spent, stranded>>
      BY <1>0, <3>1, UpdateDepartFacts, Zenon
    <3>3. QED
      BY <3>2
  <2>2. \A z \in Slot : z # s => request'[z] = request[z]
    BY <2>1 DEF Put
  <2>3. \A x : InTableNext(x) => InTable(x) /\ (x # d => depart'[x] = depart[x])
    BY <2>1 DEF InTable, InTableNext
  <2>4. \A x : Renaming(x) => RenamingNext(x)
    <3>1. request[s].op = "none"
      BY <1>00, <2>1
    <3>2. QED
      BY <2>2, <3>1 DEF Renaming, RenamingNext
  <2>5. Copied'
    <3>1. ASSUME NEW z \in Slot, NEW c \in Depart, request'[z].pc = "children", depart'[c].exists,
                 depart'[c].pid = request'[z].d, InTableNext(request'[z].d)
          PROVE  <<"parent name", c>> \in loose' \/ depart'[request'[z].d].name = request'[z].name
      <4>1. CASE z = s
        BY <2>1, <2>3, <3>1, <4>1
      <4>2. CASE z # s
        <5>1. /\ request'[z] = request[z] /\ request[z].op = "rename"
              /\ depart[c].exists /\ depart[c].pid = request[z].d
          BY <1>00, <2>1, <2>2, <3>1, <4>2
        <5>2. CASE request[z].d = d
          BY <2>1, <5>1, <5>2 DEF Renaming, RenamingNext, Children
        <5>3. CASE request[z].d # d
          <6>1. InTable(request[z].d) /\ depart'[request[z].d] = depart[request[z].d]
            BY <2>3, <3>1, <5>1, <5>3
          <6>2. <<"parent name", c>> \in loose \/ depart[request[z].d].name = request[z].name
            <7>1. /\ request[z].pc = "children" /\ depart[c].exists /\ depart[c].pid = request[z].d
                  /\ InTable(request[z].d)
              BY <1>00, <5>1, <6>1
            <7>2. QED
              BY <1>0, <7>1 DEF Copied
          <6>3. loose \subseteq loose'
            BY <2>1
          <6>4. QED
            BY <5>1, <6>1, <6>2, <6>3
        <5>4. QED
          BY <5>2, <5>3
      <4>3. QED
        BY <4>1, <4>2
    <3>2. QED
      BY <3>1 DEF Copied, InTable, InTableNext
  <2>6. ParentNamed'
    <3>1. ASSUME NEW c \in Depart, depart'[c].exists, ~depart'[c].root, InTableNext(depart'[c].pid)
          PROVE  \/ depart'[c].parent = depart'[depart'[c].pid].name
                 \/ <<"parent name", c>> \in loose' \/ RenamingNext(depart'[c].pid)
      <4>1. /\ depart[c].exists /\ ~depart[c].root /\ depart'[c].pid = depart[c].pid
            /\ depart'[c].parent = depart[c].parent
        BY <2>1, <3>1
      <4>2. CASE depart[c].pid = d
        BY <2>1, <4>1, <4>2 DEF Renaming, RenamingNext
      <4>3. CASE depart[c].pid # d
        <5>1. InTable(depart[c].pid) /\ depart'[depart[c].pid] = depart[depart[c].pid]
          BY <2>3, <3>1, <4>1, <4>3
        <5>2. \/ depart[c].parent = depart[depart[c].pid].name
              \/ <<"parent name", c>> \in loose \/ Renaming(depart[c].pid)
          BY <1>0, <4>1, <5>1 DEF ParentNamed
        <5>3. QED
          BY <2>1, <2>4, <4>1, <5>1, <5>2
      <4>4. QED
        BY <4>2, <4>3
    <3>2. QED
      BY <3>1 DEF ParentNamed, InTable, InTableNext, Renaming, RenamingNext
  <2>7. QED
    BY <2>5, <2>6 DEF Names
<1>4. ASSUME NEW s \in Slot, UpdateParentDepart(s) PROVE Names'
  <2> DEFINE r == request[s]
  <2>1. /\ Put(s, Idle) /\ r.pc = "children"
        /\ \A c \in Depart :
              /\ depart'[c].exists = depart[c].exists /\ depart'[c].root = depart[c].root
              /\ depart'[c].pid = depart[c].pid /\ depart'[c].name = depart[c].name
              /\ c \notin Children(r.d) => depart'[c] = depart[c]
              /\ c \in Children(r.d) => depart'[c].parent = r.name
        /\ loose' = loose
    BY <1>0, <1>4, UpdateParentDepartFacts
  <2>2. \A z \in Slot : z # s => request'[z] = request[z]
    BY <2>1 DEF Put
  <2>3. \A x : InTableNext(x) => InTable(x) /\ depart'[x].name = depart[x].name
    BY <2>1 DEF InTable, InTableNext
  <2>4. \A x : Renaming(x) /\ x # r.d => RenamingNext(x)
    BY <2>2 DEF Renaming, RenamingNext
  <2>5. Copied'
    <3>1. ASSUME NEW z \in Slot, NEW c \in Depart, request'[z].pc = "children", depart'[c].exists,
                 depart'[c].pid = request'[z].d, InTableNext(request'[z].d)
          PROVE  <<"parent name", c>> \in loose' \/ depart'[request'[z].d].name = request'[z].name
      <4>1. z # s
        BY <2>1, <3>1, IdlePut
      <4>2. request'[z] = request[z] /\ depart[c].exists /\ depart[c].pid = request[z].d
        BY <2>1, <2>2, <3>1, <4>1
      <4>3. InTable(request[z].d) /\ depart'[request[z].d].name = depart[request[z].d].name
        BY <2>3, <3>1, <4>2
      <4>4. <<"parent name", c>> \in loose \/ depart[request[z].d].name = request[z].name
        BY <1>0, <3>1, <4>2, <4>3 DEF Copied
      <4>5. QED
        BY <2>1, <4>2, <4>3, <4>4
    <3>2. QED
      BY <3>1 DEF Copied, InTable, InTableNext
  <2>6. ParentNamed'
    <3>1. ASSUME NEW c \in Depart, depart'[c].exists, ~depart'[c].root, InTableNext(depart'[c].pid)
          PROVE  \/ depart'[c].parent = depart'[depart'[c].pid].name
                 \/ <<"parent name", c>> \in loose' \/ RenamingNext(depart'[c].pid)
      <4>1. /\ depart[c].exists /\ ~depart[c].root /\ depart'[c].pid = depart[c].pid
            /\ InTable(depart[c].pid) /\ depart'[depart[c].pid].name = depart[depart[c].pid].name
        BY <2>1, <2>3, <3>1
      <4>2. CASE depart[c].pid = r.d
        <5>1. depart'[c].parent = r.name
          BY <2>1, <4>1, <4>2 DEF Children
        <5>2. <<"parent name", c>> \in loose \/ depart[r.d].name = r.name
          BY <1>0, <2>1, <4>1, <4>2 DEF Copied
        <5>3. QED
          BY <2>1, <4>1, <4>2, <5>1, <5>2
      <4>3. CASE depart[c].pid # r.d
        <5>1. depart'[c] = depart[c]
          BY <2>1, <4>3 DEF Children
        <5>2. \/ depart[c].parent = depart[depart[c].pid].name
              \/ <<"parent name", c>> \in loose \/ Renaming(depart[c].pid)
          BY <1>0, <4>1 DEF ParentNamed
        <5>3. QED
          BY <2>1, <2>4, <4>1, <4>3, <5>1, <5>2
      <4>4. QED
        BY <4>2, <4>3
    <3>2. QED
      BY <3>1 DEF ParentNamed, InTable, InTableNext, Renaming, RenamingNext
  <2>7. QED
    BY <2>5, <2>6 DEF Names
<1>5. ASSUME NEW s \in Slot, NEW d \in Depart, DeleteDepart(s, d)
      PROVE  Names'
  <2>1. /\ Put(s, request'[s]) /\ request'[s].pc # "children" /\ request[s].pc # "children"
        /\ depart' = depart
        /\ \A c \in Depart : <<"parent name", c>> \in loose => <<"parent name", c>> \in loose'
    BY <1>0, <1>00, <1>5, DeleteDepartFacts
  <2>2. QED
    BY <1>0, <1>00, <2>1, NamesKept
<1>6. ASSUME NEW s \in Slot, MoveMachines(s) PROVE Names'
  <2>1. /\ Put(s, request'[s]) /\ request'[s].pc # "children" /\ request[s].pc # "children"
        /\ depart' = depart
        /\ \A c \in Depart : <<"parent name", c>> \in loose => <<"parent name", c>> \in loose'
    <3>1. /\ Put(s, request'[s]) /\ request[s].pc \in {"own", "sub"} /\ UNCHANGED <<depart, loose>>
          /\ request'[s].pc \in {"rows", "sub"}
      BY <1>0, <1>6, MoveMachinesFacts
    <3>2. QED
      BY <3>1
  <2>2. QED
    BY <1>0, <1>00, <2>1, NamesKept
<1>7. ASSUME NEW s \in Slot, DeleteDepartNode(s) PROVE Names'
  <2>1. /\ Put(s, request'[s]) /\ request'[s].pc # "children" /\ request[s].pc # "children"
        /\ \A c \in Depart : depart'[c] = depart[c] \/ depart'[c] = NoDepart
        /\ \A c \in Depart : <<"parent name", c>> \in loose => <<"parent name", c>> \in loose'
    BY <1>0, <1>00, <1>7, DeleteDepartNodeFacts
  <2>2. QED
    BY <1>0, <1>00, <2>1, NamesKept
<1>8. ASSUME NEW s \in Slot, DelUser(s) PROVE Names'
  <2>1. /\ Put(s, Idle) /\ request[s].pc # "children"
        /\ depart' = depart
        /\ \A c \in Depart : <<"parent name", c>> \in loose => <<"parent name", c>> \in loose'
    BY <1>0, <1>00, <1>8, DelUserFacts
  <2>2. QED
    BY <1>0, <1>00, <2>1, NamesKept, IdlePut
<1>9. ASSUME NEW s \in Slot, NEW m \in Machine, NEW d \in Depart, ModifyMachineDepart(s, m, d)
      PROVE  Names'
  <2>1. /\ Put(s, Idle) /\ request[s].pc # "children"
        /\ depart' = depart
        /\ \A c \in Depart : <<"parent name", c>> \in loose => <<"parent name", c>> \in loose'
    BY <1>0, <1>00, <1>9, ModifyMachineDepartFacts
  <2>2. QED
    BY <1>0, <1>00, <2>1, NamesKept, IdlePut
<1>10. ASSUME NEW s \in Slot, NEW f \in Form, Register(s, f)
      PROVE  Names'
  <2>1. /\ Put(s, request'[s]) /\ request'[s].pc # "children" /\ request[s].pc # "children"
        /\ depart' = depart
        /\ \A c \in Depart : <<"parent name", c>> \in loose => <<"parent name", c>> \in loose'
    BY <1>0, <1>00, <1>10, RegisterFacts
  <2>2. QED
    BY <1>0, <1>00, <2>1, NamesKept
<1>11. ASSUME NEW s \in Slot, AddUser(s) PROVE Names'
  <2>1. /\ Put(s, Idle) /\ request[s].pc # "children"
        /\ depart' = depart
        /\ \A c \in Depart : <<"parent name", c>> \in loose => <<"parent name", c>> \in loose'
    <3>1. /\ Put(s, Idle) /\ request[s].op = "add user" /\ depart' = depart /\ loose \subseteq loose'
      BY <1>0, <1>11, AddUserFacts
    <3>2. QED
      BY <1>00, <3>1
  <2>2. QED
    BY <1>0, <1>00, <2>1, NamesKept, IdlePut
<1>12. ASSUME NEW s \in Slot, NEW e \in Email, NEW d \in Depart, UpdateUser(s, e, d)
      PROVE  Names'
  <2>1. /\ Put(s, Idle) /\ request[s].pc # "children"
        /\ depart' = depart
        /\ \A c \in Depart : <<"parent name", c>> \in loose => <<"parent name", c>> \in loose'
    BY <1>0, <1>00, <1>12, UpdateUserFacts
  <2>2. QED
    BY <1>0, <1>00, <2>1, NamesKept, IdlePut
<1>13. ASSUME NEW s \in Slot, NEW e \in Email, DeleteUser(s, e)
      PROVE  Names'
  <2>1. /\ Put(s, Idle) /\ request[s].pc # "children"
        /\ depart' = depart
        /\ \A c \in Depart : <<"parent name", c>> \in loose => <<"parent name", c>> \in loose'
    BY <1>0, <1>00, <1>13, DeleteUserFacts
  <2>2. QED
    BY <1>0, <1>00, <2>1, NamesKept, IdlePut
<1>14. ASSUME NEW s \in Slot, NEW q \in RoleId, AddRole(s, q)
      PROVE  Names'
  <2>1. /\ Put(s, Idle) /\ request[s].pc # "children"
        /\ depart' = depart
        /\ \A c \in Depart : <<"parent name", c>> \in loose => <<"parent name", c>> \in loose'
    BY <1>0, <1>00, <1>14, AddRoleFacts
  <2>2. QED
    BY <1>0, <1>00, <2>1, NamesKept, IdlePut
<1>15. ASSUME NEW s \in Slot, NEW q \in RoleId, DeleteUserRole(s, q)
      PROVE  Names'
  <2>1. /\ Put(s, request'[s]) /\ request'[s].pc # "children" /\ request[s].pc # "children"
        /\ depart' = depart
        /\ \A c \in Depart : <<"parent name", c>> \in loose => <<"parent name", c>> \in loose'
    BY <1>0, <1>00, <1>15, DeleteUserRoleFacts
  <2>2. QED
    BY <1>0, <1>00, <2>1, NamesKept
<1>16. ASSUME NEW s \in Slot, DeleteRole(s) PROVE Names'
  <2>1. /\ Put(s, Idle) /\ request[s].pc # "children"
        /\ depart' = depart
        /\ \A c \in Depart : <<"parent name", c>> \in loose => <<"parent name", c>> \in loose'
    BY <1>0, <1>00, <1>16, DeleteRoleFacts
  <2>2. QED
    BY <1>0, <1>00, <2>1, NamesKept, IdlePut
<1>17. ASSUME NEW s \in Slot, StatementFails(s) PROVE Names'
  <2>1. /\ Put(s, Idle) /\ depart' = depart /\ loose \subseteq loose'
        /\ request[s].pc = "children" => \A c \in Children(request[s].d) : <<"parent name", c>> \in loose'
    BY <1>0, <1>17, StatementFailsFacts
  <2>2. CASE request[s].op # "rename"
    BY <1>0, <2>1, <2>2, NamesKept, IdlePut
  <2>3. CASE request[s].op = "rename"
    <3>1. \A c \in Children(request[s].d) : <<"parent name", c>> \in loose'
      BY <1>00, <2>1, <2>3
    <3>2. request'[s].pc = "idle" /\ \A z \in Slot : z # s => request'[z] = request[z]
      BY <2>1, IdlePut DEF Put
    <3>3. Copied'
      BY <1>0, <2>1, <3>2 DEF Copied, InTable, InTableNext
    <3>4. \A x : Renaming(x) /\ x # request[s].d => RenamingNext(x)
      BY <3>2 DEF Renaming, RenamingNext
    <3>5. ParentNamed'
      <4>1. \A c \in Depart : depart[c].exists /\ depart[c].pid = request[s].d => <<"parent name", c>> \in loose'
        BY <3>1 DEF Children
      <4>2. QED
        BY <1>0, <2>1, <3>4, <4>1 DEF ParentNamed, InTable, InTableNext, Renaming, RenamingNext
    <3>6. QED
      BY <3>3, <3>5 DEF Names
  <2>4. QED
    BY <2>2, <2>3
<1>18. ASSUME Restart PROVE Names'
  <2>1. /\ \A s \in Slot : request'[s] = Idle
        /\ \A s \in Slot : request[s].pc = "children"
              => \A c \in Children(request[s].d) : <<"parent name", c>> \in loose'
        /\ \/ UNCHANGED depart
           \/ /\ departs' = departs + 1 /\ depart'[departs'] = Root
              /\ \A c \in Depart : c # departs' => depart'[c] = depart[c]
        /\ loose \subseteq loose'
    BY <1>0, <1>18, RestartFacts
  <2>2. Copied'
    <3>1. Idle.pc # "children"
      BY DEF Idle
    <3>2. QED
      BY <2>1, <3>1 DEF Copied
  <2>3. ASSUME NEW c \in Depart, depart'[c].exists, ~depart'[c].root, InTableNext(depart'[c].pid)
        PROVE  \/ depart'[c].parent = depart'[depart'[c].pid].name
               \/ <<"parent name", c>> \in loose' \/ RenamingNext(depart'[c].pid)
    <3>1. depart'[c] = depart[c]
      <4>1. Root.root
        BY DEF Root
      <4>2. QED
        BY <2>1, <2>3, <4>1
    <3>2. depart[c].pid \in Depart /\ depart[c].pid \in 0 .. departs
      BY <1>0, <2>3, <3>1 DEF FreshDeparts, InTable, InTableNext
    <3>3. depart'[depart[c].pid] = depart[depart[c].pid]
      <4>1. depart[c].pid # departs + 1
        BY <1>0, <3>2, Numbers
      <4>2. QED
        BY <2>1, <3>2, <4>1
    <3>4. \/ depart[c].parent = depart[depart[c].pid].name
          \/ <<"parent name", c>> \in loose \/ Renaming(depart[c].pid)
      BY <1>0, <2>3, <3>1, <3>3 DEF ParentNamed, InTable, InTableNext, Renaming, RenamingNext
    <3>5. Renaming(depart[c].pid) => <<"parent name", c>> \in loose'
      BY <1>00, <2>1, <2>3, <3>1 DEF Renaming, RenamingNext, Children
    <3>6. QED
      BY <2>1, <3>1, <3>3, <3>4, <3>5
  <2>4. QED
    BY <2>2, <2>3 DEF Names, ParentNamed, InTable, InTableNext, Renaming, RenamingNext
<1>19. ASSUME CreateAdministratorUser PROVE Names'
  <2>1. UNCHANGED <<request, depart>> /\ loose \subseteq loose'
    BY <1>0, <1>19, CreateAdministratorUserFacts
  <2>2. QED
    BY <1>0, <2>1 DEF Names, Copied, ParentNamed, Renaming, RenamingNext, InTable, InTableNext
<1>20. ASSUME UNCHANGED vars PROVE Names'
  BY <1>0, <1>20 DEF vars, tables, Names, Copied, ParentNamed, Renaming, InTable
<1>21. QED
  BY <1>1, <1>2, <1>3, <1>4, <1>5, <1>6, <1>7, <1>8, <1>9, <1>10,
     <1>11, <1>12, <1>13, <1>14, <1>15, <1>16, <1>17, <1>18, <1>19, <1>20 DEF Next

------------------------------------------------------------------------------
\* Emails.

Emails == Unheard /\ UniqueEmail

\* A step that adds no user and no request for one: users stay or go.
LEMMA EmailsKept ==
    ASSUME Emails, NEW s \in Slot, Put(s, request'[s]), request'[s].op # "add user",
           \A u \in User : user'[u].exists => user[u].exists /\ user'[u].email = user[u].email,
           \A e : <<"email", e>> \in loose => <<"email", e>> \in loose'
    PROVE  Emails'
<1>1. \A z \in Slot : z # s => request'[z] = request[z]
  BY DEF Put
<1>2. ASSUME NEW z \in Slot, request'[z].op = "add user"
      PROVE  /\ (\E u \in User : user'[u].exists /\ user'[u].email = request'[z].form.email)
                   => <<"email", request'[z].form.email>> \in loose'
             /\ \A y \in Slot : request'[y].op = "add user" /\ y # z
                                   /\ request'[y].form.email = request'[z].form.email
                                => <<"email", request'[z].form.email>> \in loose'
  <2>1. z # s /\ request'[z] = request[z]
    BY <1>1, <1>2
  <2>2. \A y \in Slot : request'[y].op = "add user" => request'[y] = request[y]
    BY <1>1
  <2>3. /\ (\E u \in User : user[u].exists /\ user[u].email = request[z].form.email)
              => <<"email", request[z].form.email>> \in loose
        /\ \A y \in Slot : request[y].op = "add user" /\ y # z
                              /\ request[y].form.email = request[z].form.email
                           => <<"email", request[z].form.email>> \in loose
    BY <1>2, <2>1 DEF Emails, Unheard, IsEmailExist
  <2>4. QED
    BY <2>1, <2>2, <2>3
<1>3. Unheard'
  BY <1>2 DEF Unheard, IsEmailExist
<1>4. UniqueEmail'
  BY DEF Emails, UniqueEmail
<1>5. QED
  BY <1>3, <1>4 DEF Emails

\* A user who is added has an email that no other user has and no other
\* request is about to add.
LEMMA EmailsStep == Base /\ Emails /\ [Next]_vars => Emails'
<1> SUFFICES ASSUME Base, Emails, [Next]_vars PROVE Emails'
  OBVIOUS
<1>0. Typed /\ Steps /\ FreshUsers /\ Unheard /\ UniqueEmail
  BY DEF Base, Fresh, Emails
<1>1. ASSUME NEW s \in Slot, NEW d \in Depart, NEW p \in Name \cup {None}, NEW n \in Name,
             AddDepart(s, d, p, n)
      PROVE  Emails'
  <2>1. /\ Put(s, request'[s]) /\ request'[s].op # "add user"
        /\ \A u \in User : user'[u].exists => user[u].exists /\ user'[u].email = user[u].email
        /\ \A x : <<"email", x>> \in loose => <<"email", x>> \in loose'
    BY <1>0, <1>1, AddDepartFacts
  <2>2. QED
    BY <1>0, <2>1, EmailsKept DEF Emails
<1>2. ASSUME NEW s \in Slot, AddDepartMessage(s) PROVE Emails'
  <2>1. /\ Put(s, Idle)
        /\ \A u \in User : user'[u].exists => user[u].exists /\ user'[u].email = user[u].email
        /\ \A x : <<"email", x>> \in loose => <<"email", x>> \in loose'
    BY <1>0, <1>2, AddDepartMessageFacts
  <2>2. QED
    BY <1>0, <2>1, EmailsKept, IdlePut DEF Emails
<1>3. ASSUME NEW s \in Slot, NEW d \in Depart, NEW n \in Name, UpdateDepart(s, d, n)
      PROVE  Emails'
  <2>1. /\ Put(s, request'[s]) /\ request'[s].op # "add user"
        /\ \A u \in User : user'[u].exists => user[u].exists /\ user'[u].email = user[u].email
        /\ \A x : <<"email", x>> \in loose => <<"email", x>> \in loose'
    BY <1>0, <1>3, UpdateDepartFacts
  <2>2. QED
    BY <1>0, <2>1, EmailsKept DEF Emails
<1>4. ASSUME NEW s \in Slot, UpdateParentDepart(s) PROVE Emails'
  <2>1. /\ Put(s, Idle)
        /\ \A u \in User : user'[u].exists => user[u].exists /\ user'[u].email = user[u].email
        /\ \A x : <<"email", x>> \in loose => <<"email", x>> \in loose'
    BY <1>0, <1>4, UpdateParentDepartFacts
  <2>2. QED
    BY <1>0, <2>1, EmailsKept, IdlePut DEF Emails
<1>5. ASSUME NEW s \in Slot, NEW d \in Depart, DeleteDepart(s, d)
      PROVE  Emails'
  <2>1. /\ Put(s, request'[s]) /\ request'[s].op # "add user"
        /\ \A u \in User : user'[u].exists => user[u].exists /\ user'[u].email = user[u].email
        /\ \A x : <<"email", x>> \in loose => <<"email", x>> \in loose'
    BY <1>0, <1>5, DeleteDepartFacts
  <2>2. QED
    BY <1>0, <2>1, EmailsKept DEF Emails
<1>6. ASSUME NEW s \in Slot, MoveMachines(s) PROVE Emails'
  <2>1. /\ Put(s, request'[s]) /\ request'[s].op # "add user"
        /\ \A u \in User : user'[u].exists => user[u].exists /\ user'[u].email = user[u].email
        /\ \A x : <<"email", x>> \in loose => <<"email", x>> \in loose'
    <3>1. request[s].pc \in {"own", "sub", "rows"} => request[s].op = "delete"
      BY <1>0 DEF Steps, Regular
    <3>2. QED
      BY <1>0, <1>6, <3>1, MoveMachinesFacts
  <2>2. QED
    BY <1>0, <2>1, EmailsKept DEF Emails
<1>7. ASSUME NEW s \in Slot, DeleteDepartNode(s) PROVE Emails'
  <2>1. /\ Put(s, request'[s]) /\ request'[s].op # "add user"
        /\ \A u \in User : user'[u].exists => user[u].exists /\ user'[u].email = user[u].email
        /\ \A x : <<"email", x>> \in loose => <<"email", x>> \in loose'
    <3>1. request[s].pc \in {"own", "sub", "rows"} => request[s].op = "delete"
      BY <1>0 DEF Steps, Regular
    <3>2. QED
      BY <1>0, <1>7, <3>1, DeleteDepartNodeFacts
  <2>2. QED
    BY <1>0, <2>1, EmailsKept DEF Emails
<1>8. ASSUME NEW s \in Slot, DelUser(s) PROVE Emails'
  <2>1. /\ Put(s, Idle)
        /\ \A u \in User : user'[u].exists => user[u].exists /\ user'[u].email = user[u].email
        /\ \A x : <<"email", x>> \in loose => <<"email", x>> \in loose'
    <3>1. ~NoUser.exists
      BY DEF NoUser
    <3>2. QED
      BY <1>0, <1>8, <3>1, DelUserFacts
  <2>2. QED
    BY <1>0, <2>1, EmailsKept, IdlePut DEF Emails
<1>9. ASSUME NEW s \in Slot, NEW m \in Machine, NEW d \in Depart, ModifyMachineDepart(s, m, d)
      PROVE  Emails'
  <2>1. /\ Put(s, Idle)
        /\ \A u \in User : user'[u].exists => user[u].exists /\ user'[u].email = user[u].email
        /\ \A x : <<"email", x>> \in loose => <<"email", x>> \in loose'
    BY <1>0, <1>9, ModifyMachineDepartFacts
  <2>2. QED
    BY <1>0, <2>1, EmailsKept, IdlePut DEF Emails
<1>10. ASSUME NEW s \in Slot, NEW f \in Form, Register(s, f)
      PROVE  Emails'
  <2>1. /\ Put(s, request'[s]) /\ request'[s].form = f
        /\ ~IsEmailExist(f.email) /\ user' = user /\ loose \subseteq loose'
        /\ Adding(f.email) # {} => <<"email", f.email>> \in loose'
    BY <1>0, <1>10, RegisterFacts
  <2>2. \A z \in Slot : z # s => request'[z] = request[z]
    BY <2>1 DEF Put
  <2>3. \A y \in Slot : y # s /\ request'[y].op = "add user" /\ request'[y].form.email = f.email
                           => <<"email", f.email>> \in loose'
    BY <2>1, <2>2 DEF Adding
  <2>4. ASSUME NEW z \in Slot, request'[z].op = "add user"
        PROVE  /\ IsEmailExist(request'[z].form.email) => <<"email", request'[z].form.email>> \in loose'
               /\ \A y \in Slot : request'[y].op = "add user" /\ y # z
                                     /\ request'[y].form.email = request'[z].form.email
                                  => <<"email", request'[z].form.email>> \in loose'
    <3>1. CASE z = s
      BY <2>1, <2>3, <3>1
    <3>2. CASE z # s
      <4>1. request'[z] = request[z] /\ request[z].op = "add user"
        BY <2>2, <2>4, <3>2
      <4>2. /\ IsEmailExist(request[z].form.email) => <<"email", request[z].form.email>> \in loose
            /\ \A y \in Slot : request[y].op = "add user" /\ y # z
                                  /\ request[y].form.email = request[z].form.email
                               => <<"email", request[z].form.email>> \in loose
        BY <1>0, <4>1 DEF Unheard
      <4>3. loose \subseteq loose'
        BY <2>1
      <4>4. ASSUME NEW y \in Slot, request'[y].op = "add user", y # z,
                   request'[y].form.email = request'[z].form.email
            PROVE  <<"email", request'[z].form.email>> \in loose'
        <5>1. CASE y = s
          BY <2>1, <2>3, <2>4, <3>2, <4>4, <5>1
        <5>2. CASE y # s
          BY <2>2, <4>1, <4>2, <4>3, <4>4, <5>2
        <5>3. QED
          BY <5>1, <5>2
      <4>5. QED
        BY <4>1, <4>2, <4>3, <4>4
    <3>3. QED
      BY <3>1, <3>2
  <2>5. Unheard'
    BY <2>1, <2>4 DEF Unheard, IsEmailExist
  <2>6. UniqueEmail'
    BY <1>0, <2>1 DEF UniqueEmail
  <2>7. QED
    BY <2>5, <2>6 DEF Emails
<1>11. ASSUME NEW s \in Slot, AddUser(s) PROVE Emails'
  <2> DEFINE e == request[s].form.email
  <2>1. /\ Put(s, Idle) /\ request[s].op = "add user"
        /\ users' = users + 1 /\ users' \in User
        /\ user'[users'].email = e
        /\ \A u \in User : u # users' => user'[u] = user[u]
        /\ loose \subseteq loose'
    BY <1>0, <1>11, AddUserFacts
  <2>2. request'[s].op = "none" /\ \A z \in Slot : z # s => request'[z] = request[z]
    BY <2>1, IdlePut DEF Put
  <2>3. \A x : IsEmailExist(x) <=> \E u \in User : user[u].exists /\ user[u].email = x
    BY DEF IsEmailExist
  <2>4. IsEmailExist(e) => <<"email", e>> \in loose'
    BY <1>0, <2>1 DEF Unheard
  <2>5. ASSUME NEW z \in Slot, request'[z].op = "add user"
        PROVE  /\ (\E u \in User : user'[u].exists /\ user'[u].email = request'[z].form.email)
                     => <<"email", request'[z].form.email>> \in loose'
               /\ \A y \in Slot : request'[y].op = "add user" /\ y # z
                                     /\ request'[y].form.email = request'[z].form.email
                                  => <<"email", request'[z].form.email>> \in loose'
    <3>1. z # s /\ request'[z] = request[z] /\ request[z].op = "add user"
      BY <2>2, <2>5
    <3>2. /\ IsEmailExist(request[z].form.email) => <<"email", request[z].form.email>> \in loose
          /\ \A y \in Slot : request[y].op = "add user" /\ y # z
                                /\ request[y].form.email = request[z].form.email
                             => <<"email", request[z].form.email>> \in loose
      BY <1>0, <3>1 DEF Unheard
    <3>3. loose \subseteq loose'
      BY <2>1
    <3>4. \A y \in Slot : request'[y].op = "add user" => request'[y] = request[y]
      BY <2>2
    <3>5. ASSUME NEW u \in User, user'[u].exists, user'[u].email = request'[z].form.email
          PROVE  <<"email", request'[z].form.email>> \in loose'
      <4>1. CASE u = users'
        BY <2>1, <3>1, <3>2, <3>3, <3>5, <4>1
      <4>2. CASE u # users'
        <5>1. user'[u] = user[u]
          BY <2>1, <4>2
        <5>2. QED
          BY <2>3, <3>1, <3>2, <3>3, <3>5, <5>1
      <4>3. QED
        BY <4>1, <4>2
    <3>6. QED
      BY <3>1, <3>2, <3>3, <3>4, <3>5
  <2>6. Unheard'
    BY <2>5 DEF Unheard, IsEmailExist
  <2>7. ASSUME NEW u \in User, NEW v \in User, user'[u].exists, user'[v].exists,
               user'[u].email = user'[v].email
        PROVE  u = v \/ <<"email", user'[u].email>> \in loose'
    <3>1. CASE u # users' /\ v # users'
      <4>1. user'[u] = user[u] /\ user'[v] = user[v] /\ loose \subseteq loose'
        BY <2>1, <3>1
      <4>2. QED
        BY <1>0, <2>7, <4>1 DEF UniqueEmail
    <3>2. CASE u = users' /\ v # users'
      <4>1. user'[v] = user[v] /\ user'[u].email = e
        BY <2>1, <3>2
      <4>2. QED
        BY <2>3, <2>4, <2>7, <4>1
    <3>3. CASE u # users' /\ v = users'
      <4>1. user'[u] = user[u] /\ user'[v].email = e
        BY <2>1, <3>3
      <4>2. QED
        BY <2>3, <2>4, <2>7, <4>1
    <3>4. QED
      BY <3>1, <3>2, <3>3
  <2>8. UniqueEmail'
    BY <2>7 DEF UniqueEmail
  <2>9. QED
    BY <2>6, <2>8 DEF Emails
<1>12. ASSUME NEW s \in Slot, NEW e \in Email, NEW d \in Depart, UpdateUser(s, e, d)
      PROVE  Emails'
  <2>1. /\ Put(s, Idle)
        /\ \A u \in User : user'[u].exists => user[u].exists /\ user'[u].email = user[u].email
        /\ \A x : <<"email", x>> \in loose => <<"email", x>> \in loose'
    BY <1>0, <1>12, UpdateUserFacts
  <2>2. QED
    BY <1>0, <2>1, EmailsKept, IdlePut DEF Emails
<1>13. ASSUME NEW s \in Slot, NEW e \in Email, DeleteUser(s, e)
      PROVE  Emails'
  <2>1. /\ Put(s, Idle)
        /\ \A u \in User : user'[u].exists => user[u].exists /\ user'[u].email = user[u].email
        /\ \A x : <<"email", x>> \in loose => <<"email", x>> \in loose'
    <3>1. ~NoUser.exists
      BY DEF NoUser
    <3>2. QED
      BY <1>0, <1>13, <3>1, DeleteUserFacts
  <2>2. QED
    BY <1>0, <2>1, EmailsKept, IdlePut DEF Emails
<1>14. ASSUME NEW s \in Slot, NEW q \in RoleId, AddRole(s, q)
      PROVE  Emails'
  <2>1. /\ Put(s, Idle)
        /\ \A u \in User : user'[u].exists => user[u].exists /\ user'[u].email = user[u].email
        /\ \A x : <<"email", x>> \in loose => <<"email", x>> \in loose'
    BY <1>0, <1>14, AddRoleFacts
  <2>2. QED
    BY <1>0, <2>1, EmailsKept, IdlePut DEF Emails
<1>15. ASSUME NEW s \in Slot, NEW q \in RoleId, DeleteUserRole(s, q)
      PROVE  Emails'
  <2>1. /\ Put(s, request'[s]) /\ request'[s].op # "add user"
        /\ \A u \in User : user'[u].exists => user[u].exists /\ user'[u].email = user[u].email
        /\ \A x : <<"email", x>> \in loose => <<"email", x>> \in loose'
    BY <1>0, <1>15, DeleteUserRoleFacts
  <2>2. QED
    BY <1>0, <2>1, EmailsKept DEF Emails
<1>16. ASSUME NEW s \in Slot, DeleteRole(s) PROVE Emails'
  <2>1. /\ Put(s, Idle)
        /\ \A u \in User : user'[u].exists => user[u].exists /\ user'[u].email = user[u].email
        /\ \A x : <<"email", x>> \in loose => <<"email", x>> \in loose'
    BY <1>0, <1>16, DeleteRoleFacts
  <2>2. QED
    BY <1>0, <2>1, EmailsKept, IdlePut DEF Emails
<1>17. ASSUME NEW s \in Slot, StatementFails(s) PROVE Emails'
  <2>1. /\ Put(s, Idle)
        /\ \A u \in User : user'[u].exists => user[u].exists /\ user'[u].email = user[u].email
        /\ \A x : <<"email", x>> \in loose => <<"email", x>> \in loose'
    BY <1>0, <1>17, StatementFailsFacts
  <2>2. QED
    BY <1>0, <2>1, EmailsKept, IdlePut DEF Emails
<1>18. ASSUME Restart PROVE Emails'
  <2>1. /\ \A s \in Slot : request'[s] = Idle
        /\ user' = user /\ loose \subseteq loose'
    BY <1>0, <1>18, RestartFacts
  <2>2. Unheard'
    <3>1. Idle.op # "add user"
      BY DEF Idle
    <3>2. QED
      BY <2>1, <3>1 DEF Unheard
  <2>3. UniqueEmail'
    BY <1>0, <2>1 DEF UniqueEmail
  <2>4. QED
    BY <2>2, <2>3 DEF Emails
<1>19. ASSUME CreateAdministratorUser PROVE Emails'
  <2>1. /\ \A s \in Slot : request'[s].pc = "idle"
        /\ user'[users'].email = AdminEmail
        /\ \A u \in User : u # users' => user'[u] = user[u]
        /\ loose \subseteq loose'
        /\ IsEmailExist(AdminEmail) => <<"email", AdminEmail>> \in loose'
        /\ request' = request
    BY <1>0, <1>19, CreateAdministratorUserFacts
  <2>2. Unheard'
    <3>1. \A s \in Slot : request'[s].op = "none"
      <4>1. \A s \in Slot : request[s].pc = "idle" => request[s].op = "none"
        BY <1>0 DEF Steps, Regular
      <4>2. QED
        BY <2>1, <4>1
    <3>2. QED
      BY <3>1 DEF Unheard
  <2>3. ASSUME NEW u \in User, NEW v \in User, user'[u].exists, user'[v].exists,
               user'[u].email = user'[v].email
        PROVE  u = v \/ <<"email", user'[u].email>> \in loose'
    <3>1. CASE u # users' /\ v # users'
      BY <1>0, <2>1, <2>3, <3>1 DEF UniqueEmail
    <3>2. CASE u = users' /\ v # users'
      <4>1. user'[v] = user[v] /\ user'[u].email = AdminEmail
        BY <2>1, <3>2
      <4>2. IsEmailExist(AdminEmail)
        BY <2>3, <4>1 DEF IsEmailExist
      <4>3. QED
        BY <2>1, <4>1, <4>2
    <3>3. CASE u # users' /\ v = users'
      <4>1. user'[u] = user[u] /\ user'[v].email = AdminEmail
        BY <2>1, <3>3
      <4>2. IsEmailExist(AdminEmail)
        BY <2>3, <4>1 DEF IsEmailExist
      <4>3. QED
        BY <2>1, <2>3, <4>1, <4>2
    <3>4. QED
      BY <3>1, <3>2, <3>3
  <2>4. UniqueEmail'
    BY <2>3 DEF UniqueEmail
  <2>5. QED
    BY <2>2, <2>4 DEF Emails
<1>20. ASSUME UNCHANGED vars PROVE Emails'
  BY <1>0, <1>20 DEF vars, tables, Emails, Unheard, UniqueEmail, IsEmailExist
<1>21. QED
  BY <1>1, <1>2, <1>3, <1>4, <1>5, <1>6, <1>7, <1>8, <1>9, <1>10,
     <1>11, <1>12, <1>13, <1>14, <1>15, <1>16, <1>17, <1>18, <1>19, <1>20 DEF Next

------------------------------------------------------------------------------
\* Roles.

RolesKept == Unbound /\ BoundRoleStays

\* A step that deletes no role and begins no such request: users stay or go.
LEMMA RolesKeptStep ==
    ASSUME RolesKept, NEW s \in Slot, Put(s, request'[s]), request'[s].op # "drop",
           \A u \in User : user'[u].exists => user[u].exists /\ user'[u].roles = user[u].roles,
           \A u \in User : <<"roles", u>> \in loose => <<"roles", u>> \in loose',
           role \subseteq role'
    PROVE  RolesKept'
<1>1. Unbound'
  <2>1. ASSUME NEW z \in Slot, NEW u \in User, request'[z].op = "drop", user'[u].exists,
               request'[z].role \in user'[u].roles
        PROVE  <<"roles", u>> \in loose'
    <3>1. request'[z] = request[z]
      BY <2>1 DEF Put
    <3>2. QED
      BY <2>1, <3>1 DEF RolesKept, Unbound
  <2>2. QED
    BY <2>1 DEF Unbound
<1>2. BoundRoleStays'
  BY DEF RolesKept, BoundRoleStays
<1>3. QED
  BY <1>1, <1>2 DEF RolesKept

\* A role goes only when nobody had it at the look-up, and whoever got it
\* since is excused.
LEMMA RolesStep == Base /\ RolesKept /\ [Next]_vars => RolesKept'
<1> SUFFICES ASSUME Base, RolesKept, [Next]_vars PROVE RolesKept'
  OBVIOUS
<1>0. Typed /\ Steps /\ Unbound /\ BoundRoleStays
  BY DEF Base, RolesKept
<1>1. ASSUME NEW s \in Slot, NEW d \in Depart, NEW p \in Name \cup {None}, NEW n \in Name,
             AddDepart(s, d, p, n)
      PROVE  RolesKept'
  <2>1. /\ Put(s, request'[s]) /\ request'[s].op # "drop" /\ role \subseteq role'
        /\ \A u \in User : user'[u].exists => user[u].exists /\ user'[u].roles = user[u].roles
        /\ \A u \in User : <<"roles", u>> \in loose => <<"roles", u>> \in loose'
    BY <1>0, <1>1, AddDepartFacts
  <2>2. QED
    BY <2>1, RolesKeptStep
<1>2. ASSUME NEW s \in Slot, AddDepartMessage(s) PROVE RolesKept'
  <2>1. /\ Put(s, Idle) /\ role \subseteq role'
        /\ \A u \in User : user'[u].exists => user[u].exists /\ user'[u].roles = user[u].roles
        /\ \A u \in User : <<"roles", u>> \in loose => <<"roles", u>> \in loose'
    BY <1>0, <1>2, AddDepartMessageFacts
  <2>2. QED
    BY <2>1, RolesKeptStep, IdlePut
<1>3. ASSUME NEW s \in Slot, NEW d \in Depart, NEW n \in Name, UpdateDepart(s, d, n)
      PROVE  RolesKept'
  <2>1. /\ Put(s, request'[s]) /\ request'[s].op # "drop" /\ role \subseteq role'
        /\ \A u \in User : user'[u].exists => user[u].exists /\ user'[u].roles = user[u].roles
        /\ \A u \in User : <<"roles", u>> \in loose => <<"roles", u>> \in loose'
    BY <1>0, <1>3, UpdateDepartFacts
  <2>2. QED
    BY <2>1, RolesKeptStep
<1>4. ASSUME NEW s \in Slot, UpdateParentDepart(s) PROVE RolesKept'
  <2>1. /\ Put(s, Idle) /\ role \subseteq role'
        /\ \A u \in User : user'[u].exists => user[u].exists /\ user'[u].roles = user[u].roles
        /\ \A u \in User : <<"roles", u>> \in loose => <<"roles", u>> \in loose'
    BY <1>0, <1>4, UpdateParentDepartFacts
  <2>2. QED
    BY <2>1, RolesKeptStep, IdlePut
<1>5. ASSUME NEW s \in Slot, NEW d \in Depart, DeleteDepart(s, d)
      PROVE  RolesKept'
  <2>1. /\ Put(s, request'[s]) /\ request'[s].op # "drop" /\ role \subseteq role'
        /\ \A u \in User : user'[u].exists => user[u].exists /\ user'[u].roles = user[u].roles
        /\ \A u \in User : <<"roles", u>> \in loose => <<"roles", u>> \in loose'
    BY <1>0, <1>5, DeleteDepartFacts
  <2>2. QED
    BY <2>1, RolesKeptStep
<1>6. ASSUME NEW s \in Slot, MoveMachines(s) PROVE RolesKept'
  <2>1. /\ Put(s, request'[s]) /\ request'[s].op # "drop" /\ role \subseteq role'
        /\ \A u \in User : user'[u].exists => user[u].exists /\ user'[u].roles = user[u].roles
        /\ \A u \in User : <<"roles", u>> \in loose => <<"roles", u>> \in loose'
    <3>1. request[s].pc \in {"own", "sub", "rows"} => request[s].op = "delete"
      BY <1>0 DEF Steps, Regular
    <3>2. QED
      BY <1>0, <1>6, <3>1, MoveMachinesFacts
  <2>2. QED
    BY <2>1, RolesKeptStep
<1>7. ASSUME NEW s \in Slot, DeleteDepartNode(s) PROVE RolesKept'
  <2>1. /\ Put(s, request'[s]) /\ request'[s].op # "drop" /\ role \subseteq role'
        /\ \A u \in User : user'[u].exists => user[u].exists /\ user'[u].roles = user[u].roles
        /\ \A u \in User : <<"roles", u>> \in loose => <<"roles", u>> \in loose'
    <3>1. request[s].pc \in {"own", "sub", "rows"} => request[s].op = "delete"
      BY <1>0 DEF Steps, Regular
    <3>2. QED
      BY <1>0, <1>7, <3>1, DeleteDepartNodeFacts
  <2>2. QED
    BY <2>1, RolesKeptStep
<1>8. ASSUME NEW s \in Slot, DelUser(s) PROVE RolesKept'
  <2>1. /\ Put(s, Idle) /\ role \subseteq role'
        /\ \A u \in User : user'[u].exists => user[u].exists /\ user'[u].roles = user[u].roles
        /\ \A u \in User : <<"roles", u>> \in loose => <<"roles", u>> \in loose'
    <3>1. ~NoUser.exists
      BY DEF NoUser
    <3>2. QED
      BY <1>0, <1>8, <3>1, DelUserFacts
  <2>2. QED
    BY <2>1, RolesKeptStep, IdlePut
<1>9. ASSUME NEW s \in Slot, NEW m \in Machine, NEW d \in Depart, ModifyMachineDepart(s, m, d)
      PROVE  RolesKept'
  <2>1. /\ Put(s, Idle) /\ role \subseteq role'
        /\ \A u \in User : user'[u].exists => user[u].exists /\ user'[u].roles = user[u].roles
        /\ \A u \in User : <<"roles", u>> \in loose => <<"roles", u>> \in loose'
    BY <1>0, <1>9, ModifyMachineDepartFacts
  <2>2. QED
    BY <2>1, RolesKeptStep, IdlePut
<1>10. ASSUME NEW s \in Slot, NEW f \in Form, Register(s, f)
      PROVE  RolesKept'
  <2>1. /\ Put(s, request'[s]) /\ request'[s].op # "drop" /\ role \subseteq role'
        /\ \A u \in User : user'[u].exists => user[u].exists /\ user'[u].roles = user[u].roles
        /\ \A u \in User : <<"roles", u>> \in loose => <<"roles", u>> \in loose'
    BY <1>0, <1>10, RegisterFacts
  <2>2. QED
    BY <2>1, RolesKeptStep
<1>11. ASSUME NEW s \in Slot, AddUser(s) PROVE RolesKept'
  <2> DEFINE R == request[s].form.roles
  <2>1. /\ Put(s, Idle) /\ user'[users'].roles = R
        /\ \A u \in User : u # users' => user'[u] = user[u]
        /\ loose \subseteq loose' /\ role' = role
        /\ (R \subseteq role /\ ~Dropping(R)) \/ <<"roles", users'>> \in loose'
    BY <1>0, <1>11, AddUserFacts
  <2>2. request'[s].op = "none" /\ \A z \in Slot : z # s => request'[z] = request[z]
    BY <2>1, IdlePut DEF Put
  <2>3. ASSUME NEW z \in Slot, NEW u \in User, request'[z].op = "drop", user'[u].exists,
               request'[z].role \in user'[u].roles
        PROVE  <<"roles", u>> \in loose'
    <3>1. request'[z] = request[z] /\ request[z].op = "drop"
      BY <2>2, <2>3
    <3>2. CASE u = users'
      <4>1. request[z].role \in R
        BY <2>1, <2>3, <3>1, <3>2
      <4>2. Dropping(R)
        BY <3>1, <4>1 DEF Dropping
      <4>3. QED
        BY <2>1, <3>2, <4>2
    <3>3. CASE u # users'
      <4>1. user'[u] = user[u] /\ loose \subseteq loose'
        BY <2>1, <3>3
      <4>2. QED
        BY <1>0, <2>3, <3>1, <4>1 DEF Unbound
    <3>4. QED
      BY <3>2, <3>3
  <2>4. Unbound'
    BY <2>3 DEF Unbound
  <2>5. ASSUME NEW u \in User, user'[u].exists
        PROVE  user'[u].roles \subseteq role' \/ <<"roles", u>> \in loose'
    <3>1. CASE u = users'
      BY <2>1, <3>1
    <3>2. CASE u # users'
      BY <1>0, <2>1, <2>5, <3>2 DEF BoundRoleStays
    <3>3. QED
      BY <3>1, <3>2
  <2>6. BoundRoleStays'
    BY <2>5 DEF BoundRoleStays
  <2>7. QED
    BY <2>4, <2>6 DEF RolesKept
<1>12. ASSUME NEW s \in Slot, NEW e \in Email, NEW d \in Depart, UpdateUser(s, e, d)
      PROVE  RolesKept'
  <2>1. /\ Put(s, Idle) /\ role \subseteq role'
        /\ \A u \in User : user'[u].exists => user[u].exists /\ user'[u].roles = user[u].roles
        /\ \A u \in User : <<"roles", u>> \in loose => <<"roles", u>> \in loose'
    BY <1>0, <1>12, UpdateUserFacts
  <2>2. QED
    BY <2>1, RolesKeptStep, IdlePut
<1>13. ASSUME NEW s \in Slot, NEW e \in Email, DeleteUser(s, e)
      PROVE  RolesKept'
  <2>1. /\ Put(s, Idle) /\ role \subseteq role'
        /\ \A u \in User : user'[u].exists => user[u].exists /\ user'[u].roles = user[u].roles
        /\ \A u \in User : <<"roles", u>> \in loose => <<"roles", u>> \in loose'
    <3>1. ~NoUser.exists
      BY DEF NoUser
    <3>2. QED
      BY <1>0, <1>13, <3>1, DeleteUserFacts
  <2>2. QED
    BY <2>1, RolesKeptStep, IdlePut
<1>14. ASSUME NEW s \in Slot, NEW q \in RoleId, AddRole(s, q)
      PROVE  RolesKept'
  <2>1. /\ Put(s, Idle) /\ role \subseteq role'
        /\ \A u \in User : user'[u].exists => user[u].exists /\ user'[u].roles = user[u].roles
        /\ \A u \in User : <<"roles", u>> \in loose => <<"roles", u>> \in loose'
    BY <1>0, <1>14, AddRoleFacts
  <2>2. QED
    BY <2>1, RolesKeptStep, IdlePut
<1>15. ASSUME NEW s \in Slot, NEW q \in RoleId, DeleteUserRole(s, q)
      PROVE  RolesKept'
  <2>1. /\ Put(s, request'[s]) /\ request'[s].role = q
        /\ \A u \in User : user[u].exists => q \notin user[u].roles
        /\ UNCHANGED <<user, role, loose>>
    BY <1>0, <1>15, DeleteUserRoleFacts
  <2>2. \A z \in Slot : z # s => request'[z] = request[z]
    BY <2>1 DEF Put
  <2>3. QED
    BY <1>0, <2>1, <2>2 DEF RolesKept, Unbound, BoundRoleStays
<1>16. ASSUME NEW s \in Slot, DeleteRole(s) PROVE RolesKept'
  <2>1. /\ Put(s, Idle) /\ request[s].pc = "drop" /\ role' = role \ {request[s].role}
        /\ UNCHANGED <<user, loose>>
    BY <1>0, <1>16, DeleteRoleFacts
  <2>2. request'[s].op = "none" /\ \A z \in Slot : z # s => request'[z] = request[z]
    BY <2>1, IdlePut DEF Put
  <2>3. Unbound'
    BY <1>0, <2>1, <2>2 DEF Unbound
  <2>4. request[s].op = "drop"
    BY <1>0, <2>1 DEF Steps, Regular
  <2>5. \A u \in User : user[u].exists => request[s].role \notin user[u].roles \/ <<"roles", u>> \in loose
    BY <1>0, <2>4 DEF Unbound
  <2>6. BoundRoleStays'
    BY <1>0, <2>1, <2>5 DEF BoundRoleStays
  <2>7. QED
    BY <2>3, <2>6 DEF RolesKept
<1>17. ASSUME NEW s \in Slot, StatementFails(s) PROVE RolesKept'
  <2>1. /\ Put(s, Idle) /\ role \subseteq role'
        /\ \A u \in User : user'[u].exists => user[u].exists /\ user'[u].roles = user[u].roles
        /\ \A u \in User : <<"roles", u>> \in loose => <<"roles", u>> \in loose'
    BY <1>0, <1>17, StatementFailsFacts
  <2>2. QED
    BY <2>1, RolesKeptStep, IdlePut
<1>18. ASSUME Restart PROVE RolesKept'
  <2>1. /\ \A s \in Slot : request'[s] = Idle
        /\ UNCHANGED <<user, role>> /\ loose \subseteq loose'
    BY <1>0, <1>18, RestartFacts
  <2>2. Unbound'
    <3>1. Idle.op # "drop"
      BY DEF Idle
    <3>2. QED
      BY <2>1, <3>1 DEF Unbound
  <2>3. BoundRoleStays'
    BY <1>0, <2>1 DEF BoundRoleStays
  <2>4. QED
    BY <2>2, <2>3 DEF RolesKept
<1>19. ASSUME CreateAdministratorUser PROVE RolesKept'
  <2>1. /\ \A s \in Slot : request'[s].pc = "idle"
        /\ user'[users'].roles \subseteq role' /\ role \subseteq role'
        /\ \A u \in User : u # users' => user'[u] = user[u]
        /\ loose \subseteq loose' /\ request' = request
    BY <1>0, <1>19, CreateAdministratorUserFacts
  <2>2. Unbound'
    <3>1. \A s \in Slot : request'[s].op = "none"
      <4>1. \A s \in Slot : request[s].pc = "idle" => request[s].op = "none"
        BY <1>0 DEF Steps, Regular
      <4>2. QED
        BY <2>1, <4>1
    <3>2. QED
      BY <3>1 DEF Unbound
  <2>3. BoundRoleStays'
    BY <1>0, <2>1 DEF BoundRoleStays
  <2>4. QED
    BY <2>2, <2>3 DEF RolesKept
<1>20. ASSUME UNCHANGED vars PROVE RolesKept'
  BY <1>0, <1>20 DEF vars, tables, RolesKept, Unbound, BoundRoleStays
<1>21. QED
  BY <1>1, <1>2, <1>3, <1>4, <1>5, <1>6, <1>7, <1>8, <1>9, <1>10,
     <1>11, <1>12, <1>13, <1>14, <1>15, <1>16, <1>17, <1>18, <1>19, <1>20 DEF Next

------------------------------------------------------------------------------
(***************************************************************************)
(* The tree.  Shown and Orphaned are recursive along the ids of parents,   *)
(* which are smaller; an induction is stated as the least element of a set.*)
(***************************************************************************)

\* Every set of numbers has a least one.
LEMMA Least ==
    ASSUME NEW T \in SUBSET Nat, T # {}
    PROVE  \E x \in T : \A y \in T : x <= y
<1>1. PICK x \in T : \A y \in T : ~(<<y, x>> \in OpToRel(<, Nat))
  BY NatLessThanWellFounded, WFMin
<1>2. \A y \in T : ~(y < x)
  BY <1>1 DEF OpToRel
<1> QED
  BY <1>2

\* f says of each of the first n numbers what ends says where it is a leaf, and
\* of any other what f says of the smaller one it refers to.
Climbs(f, n, leaf, ends, up) ==
    \A d \in 1 .. n :
       f[d] <=> \/ leaf[d] /\ ends[d]
                \/ ~leaf[d] /\ up[d] \in 1 .. d - 1 /\ f[up[d]]

\* There is such a function: the shorter ones can be made longer.
LEMMA ClimbsExist ==
    ASSUME NEW n \in Nat, NEW leaf, NEW ends, NEW up
    PROVE  \E f \in [1 .. n -> BOOLEAN] : Climbs(f, n, leaf, ends, up)
<1> DEFINE Has(k) == \E f \in [1 .. k -> BOOLEAN] : Climbs(f, k, leaf, ends, up)
           Lacks  == {k \in Nat : ~Has(k)}
<1>1. SUFFICES ASSUME Lacks # {} PROVE FALSE
  OBVIOUS
<1>2. PICK k \in Lacks : \A j \in Lacks : k <= j
  <2>1. Lacks \in SUBSET Nat
    OBVIOUS
  <2> HIDE DEF Lacks
  <2>2. QED
    BY <1>1, <2>1, Least
<1>3. k # 0
  <2>1. [d \in 1 .. 0 |-> TRUE] \in [1 .. 0 -> BOOLEAN]
    OBVIOUS
  <2>2. Climbs([d \in 1 .. 0 |-> TRUE], 0, leaf, ends, up)
    BY DEF Climbs
  <2>3. QED
    BY <1>2, <2>1, <2>2
<1>4. k - 1 \in Nat /\ k \in Nat /\ Has(k - 1)
  BY <1>2, <1>3
<1>5. PICK f \in [1 .. k - 1 -> BOOLEAN] : Climbs(f, k - 1, leaf, ends, up)
  BY <1>4
<1> DEFINE last == \/ leaf[k] /\ ends[k]
                   \/ ~leaf[k] /\ up[k] \in 1 .. k - 1 /\ f[up[k]]
           g == [d \in 1 .. k |-> IF d = k THEN last ELSE f[d]]
<1>6. last \in BOOLEAN
  OBVIOUS
<1>7. g \in [1 .. k -> BOOLEAN] /\ g[k] = last /\ \A d \in 1 .. k - 1 : g[d] = f[d]
  <2> HIDE DEF last
  <2>1. QED
    BY <1>3, <1>4, <1>6
<1>8. Climbs(g, k, leaf, ends, up)
  <2>1. ASSUME NEW d \in 1 .. k - 1
        PROVE  g[d] <=> \/ leaf[d] /\ ends[d]
                        \/ ~leaf[d] /\ up[d] \in 1 .. d - 1 /\ g[up[d]]
    <3>1. 1 .. d - 1 \subseteq 1 .. k - 1
      BY <1>4
    <3>2. g[d] = f[d] /\ \A c \in 1 .. d - 1 : g[c] = f[c]
      BY <1>7, <3>1
    <3>3. f[d] <=> \/ leaf[d] /\ ends[d]
                   \/ ~leaf[d] /\ up[d] \in 1 .. d - 1 /\ f[up[d]]
      BY <1>5 DEF Climbs
    <3> HIDE DEF g
    <3>4. QED
      BY <3>2, <3>3
  <2>2. g[k] <=> \/ leaf[k] /\ ends[k]
                 \/ ~leaf[k] /\ up[k] \in 1 .. k - 1 /\ g[up[k]]
    <3>1. \A c \in 1 .. k - 1 : g[c] = f[c]
      BY <1>7
    <3>2. g[k] = last
      BY <1>7
    <3> HIDE DEF g
    <3>3. QED
      BY <3>1, <3>2
  <2> HIDE DEF g
  <2>3. \A d \in 1 .. k : d \in 1 .. k - 1 \/ d = k
    BY <1>4
  <2>4. QED
    BY <2>1, <2>2, <2>3 DEF Climbs
<1>9. Has(k)
  <2> HIDE DEF g
  <2>1. QED
    BY <1>7, <1>8
<1> QED
  BY <1>2, <1>9

\* Departments refer upwards by smaller ids, so Shown is what it says.
LEMMA ShownUnfolds ==
    \A d \in Depart :
       Shown[d] <=> /\ depart[d].exists
                    /\ IF depart[d].root THEN \A r \in Roots : r <= d
                       ELSE depart[d].pid \in 1 .. d - 1 /\ Shown[depart[d].pid]
<1> DEFINE leaf == [d \in Depart |-> ~depart[d].exists \/ depart[d].root]
           ends == [d \in Depart |-> depart[d].exists /\ \A r \in Roots : r <= d]
           up   == [d \in Depart |-> depart[d].pid]
           Is(f) == f = [d \in Depart |->
                          /\ depart[d].exists
                          /\ IF depart[d].root THEN \A r \in Roots : r <= d
                             ELSE depart[d].pid \in 1 .. d - 1 /\ f[depart[d].pid]]
<1>1. PICK f \in [Depart -> BOOLEAN] : Climbs(f, MaxDeparts, leaf, ends, up)
  BY ClimbsExist, OrganisationAssumption DEF Depart
<1>2. \A d \in Depart :
         f[d] = (/\ depart[d].exists
                 /\ IF depart[d].root THEN \A r \in Roots : r <= d
                    ELSE depart[d].pid \in 1 .. d - 1 /\ f[depart[d].pid])
  <2>1. SUFFICES ASSUME NEW d \in Depart
                 PROVE  f[d] <=> (/\ depart[d].exists
                                  /\ IF depart[d].root THEN \A r \in Roots : r <= d
                                     ELSE depart[d].pid \in 1 .. d - 1 /\ f[depart[d].pid])
    BY <1>1
  <2>2. f[d] <=> \/ leaf[d] /\ ends[d]
                 \/ ~leaf[d] /\ up[d] \in 1 .. d - 1 /\ f[up[d]]
    BY <1>1 DEF Climbs, Depart
  <2>3. /\ leaf[d] <=> ~depart[d].exists \/ depart[d].root
        /\ ends[d] <=> depart[d].exists /\ \A r \in Roots : r <= d
        /\ up[d] = depart[d].pid
    OBVIOUS
  <2> HIDE DEF leaf, ends, up
  <2>4. QED
    BY <2>2, <2>3
<1>3. Is(f)
  BY <1>1, <1>2
<1>4. Shown = CHOOSE g : Is(g)
  BY DEF Shown
<1>5. Is(Shown)
  <2> HIDE DEF Is
  <2>1. QED
    BY <1>3, <1>4
<1>6. QED
  BY <1>5

\* A department is left behind with the one it refers to.
LEMMA OrphanedUnfolds ==
    \A d \in Depart :
       Orphaned[d] <=> \/ <<"orphan", d>> \in loose
                       \/ depart[d].pid \in 1 .. d - 1 /\ Orphaned[depart[d].pid]
<1> DEFINE leaf == [d \in Depart |-> <<"orphan", d>> \in loose]
           up   == [d \in Depart |-> depart[d].pid]
           Is(f) == f = [d \in Depart |->
                          \/ <<"orphan", d>> \in loose
                          \/ (depart[d].pid \in 1 .. d - 1 /\ f[depart[d].pid])]
<1>1. PICK f \in [Depart -> BOOLEAN] : Climbs(f, MaxDeparts, leaf, leaf, up)
  BY ClimbsExist, OrganisationAssumption DEF Depart
<1>2. \A d \in Depart :
         f[d] = (\/ <<"orphan", d>> \in loose
                 \/ (depart[d].pid \in 1 .. d - 1 /\ f[depart[d].pid]))
  <2>1. SUFFICES ASSUME NEW d \in Depart
                 PROVE  f[d] <=> (\/ <<"orphan", d>> \in loose
                                  \/ (depart[d].pid \in 1 .. d - 1 /\ f[depart[d].pid]))
    BY <1>1
  <2>2. f[d] <=> \/ leaf[d] /\ leaf[d]
                 \/ ~leaf[d] /\ up[d] \in 1 .. d - 1 /\ f[up[d]]
    BY <1>1 DEF Climbs, Depart
  <2>3. (leaf[d] <=> <<"orphan", d>> \in loose) /\ up[d] = depart[d].pid
    OBVIOUS
  <2> HIDE DEF leaf, up
  <2>4. QED
    BY <2>2, <2>3
<1>3. Is(f)
  BY <1>1, <1>2
<1>4. Orphaned = CHOOSE g : Is(g)
  BY DEF Orphaned
<1>5. Is(Orphaned)
  <2> HIDE DEF Is
  <2>1. QED
    BY <1>3, <1>4
<1>6. QED
  BY <1>5

\* What a department of the table hangs on: it is the last root, its parent is
\* in the table and older, or it was left behind.
Hung ==
    \A d \in Depart : depart[d].exists =>
       \/ <<"orphan", d>> \in loose
       \/ depart[d].root /\ \A r \in Roots : r <= d
       \/ /\ ~depart[d].root
          /\ depart[d].pid \in 1 .. d - 1 /\ depart[depart[d].pid].exists

\* The departments of the start: one root, and the others below it.
LEMMA HungInit == Init => Hung
<1> SUFFICES ASSUME Init, NEW d \in Depart, depart[d].exists
             PROVE  \/ depart[d].root /\ \A r \in Roots : r <= d
                    \/ /\ ~depart[d].root
                       /\ depart[d].pid \in 1 .. d - 1 /\ depart[depart[d].pid].exists
  BY DEF Hung
<1> USE OrganisationAssumption
<1>1. /\ depart[1].exists /\ depart[1].root
      /\ \A c \in Depart : c # 1 => ~depart[c].root
      /\ \A c \in 2 .. FirstDeparts : depart[c].exists /\ depart[c].pid = Parents[c]
      /\ \A c \in Depart : depart[c].exists => c \in 1 .. FirstDeparts
  BY DEF Init, Depart, Root, NoDepart
<1>2. CASE d = 1
  BY <1>1, <1>2 DEF Roots
<1>3. CASE d # 1
  <2>1. d \in 2 .. FirstDeparts
    BY <1>1, <1>3 DEF Depart
  <2>2. Parents[d] \in 1 .. d - 1 /\ depart[d].pid = Parents[d] /\ ~depart[d].root
    BY <1>1, <1>3, <2>1
  <2>3. Parents[d] = 1 \/ Parents[d] \in 2 .. FirstDeparts
    BY <2>1, <2>2
  <2>4. QED
    BY <1>1, <2>2, <2>3
<1> QED
  BY <1>2, <1>3

\* A step that leaves the tree as it is.
LEMMA HungStays ==
    ASSUME Hung, \A d \in Depart : <<"orphan", d>> \in loose => <<"orphan", d>> \in loose',
           \A c \in Depart : /\ depart'[c].exists = depart[c].exists
                             /\ depart'[c].root = depart[c].root
                             /\ depart'[c].pid = depart[c].pid
    PROVE  Hung'
<1> SUFFICES ASSUME NEW d \in Depart, depart'[d].exists
             PROVE  \/ <<"orphan", d>> \in loose'
                    \/ depart'[d].root /\ \A r \in Depart : depart'[r].exists /\ depart'[r].root => r <= d
                    \/ /\ ~depart'[d].root
                       /\ depart'[d].pid \in 1 .. d - 1 /\ depart'[depart'[d].pid].exists
  BY DEF Hung, Roots
<1>1. 1 .. d - 1 \subseteq Depart
  BY OrganisationAssumption DEF Depart
<1> QED
  BY <1>1 DEF Hung, Roots

\* A step that adds a department: below one of the table, or as a root, beside
\* which the roots there are count as left behind.
LEMMA HungAdded ==
    ASSUME Typed, Fresh, Hung, departs' = departs + 1, departs' \in Depart, loose \subseteq loose',
           depart'[departs'].root => \A r \in Roots : <<"orphan", r>> \in loose',
           \/ <<"orphan", departs'>> \in loose'
           \/ depart'[departs'].root
           \/ InTable(depart'[departs'].pid),
           depart'[departs'].pid \in 0 .. departs,
           \A c \in Depart : c # departs' => depart'[c] = depart[c]
    PROVE  Hung'
<1> SUFFICES ASSUME NEW d \in Depart, depart'[d].exists, <<"orphan", d>> \notin loose'
             PROVE  \/ depart'[d].root /\ \A r \in Depart : depart'[r].exists /\ depart'[r].root => r <= d
                    \/ /\ ~depart'[d].root
                       /\ depart'[d].pid \in 1 .. d - 1 /\ depart'[depart'[d].pid].exists
  BY DEF Hung, Roots
<1>0. departs \in Nat /\ departs' = departs + 1 /\ 1 .. d - 1 \subseteq Depart
      /\ \A c \in Depart : c \in Nat
  BY Numbers, OrganisationAssumption DEF Depart
<1>1. \A c \in Depart : depart[c].exists => c <= departs
  BY <1>0 DEF Fresh, FreshDeparts
<1>2. CASE d = departs'
  <2>1. CASE depart'[d].root
    <3>1. ASSUME NEW r \in Depart, depart'[r].exists PROVE r <= d
      BY <1>0, <1>1, <1>2, <3>1
    <3>2. QED
      BY <2>1, <3>1
  <2>2. CASE ~depart'[d].root
    <3>1. InTable(depart'[d].pid) /\ depart'[d].pid \in 0 .. departs
      BY <1>2, <2>2
    <3>2. depart'[d].pid \in 1 .. d - 1
      BY <1>0, <1>2, <3>1 DEF InTable, Depart
    <3>3. depart'[d].pid # departs' /\ depart'[d].pid \in Depart
      BY <1>0, <1>2, <3>2
    <3>4. QED
      BY <2>2, <3>1, <3>2, <3>3 DEF InTable
  <2>3. QED
    BY <2>1, <2>2
<1>3. CASE d # departs'
  <2>1. depart'[d] = depart[d] /\ <<"orphan", d>> \notin loose
    BY <1>3
  <2>2. CASE depart[d].root /\ \A r \in Roots : r <= d
    <3>1. d \in Roots
      BY <2>1, <2>2 DEF Roots
    <3>2. ~depart'[departs'].root
      BY <3>1
    <3>3. ASSUME NEW r \in Depart, depart'[r].exists, depart'[r].root PROVE r <= d
      BY <2>2, <3>2, <3>3 DEF Roots
    <3>4. QED
      BY <2>1, <2>2, <3>3
  <2>3. CASE ~depart[d].root /\ depart[d].pid \in 1 .. d - 1 /\ depart[depart[d].pid].exists
    <3>1. depart[d].pid \in Depart
      BY <1>0, <2>3
    <3>2. depart[d].pid # departs'
      BY <1>0, <1>1, <2>3, <3>1
    <3>3. QED
      BY <2>1, <2>3, <3>1, <3>2
  <2>4. QED
    BY <2>1, <2>2, <2>3 DEF Hung
<1> QED
  BY <1>2, <1>3

\* A step that takes departments away leaves their children behind.
LEMMA HungTakenAway ==
    ASSUME Hung, NEW gone \in SUBSET Depart,
           \A c \in Depart : depart'[c] = IF c \in gone THEN NoDepart ELSE depart[c],
           loose \subseteq loose',
           \A x \in gone : \A c \in Children(x) : <<"orphan", c>> \in loose'
    PROVE  Hung'
<1> SUFFICES ASSUME NEW d \in Depart, depart'[d].exists, <<"orphan", d>> \notin loose'
             PROVE  \/ depart'[d].root /\ \A r \in Depart : depart'[r].exists /\ depart'[r].root => r <= d
                    \/ /\ ~depart'[d].root
                       /\ depart'[d].pid \in 1 .. d - 1 /\ depart'[depart'[d].pid].exists
  BY DEF Hung, Roots
<1>0. 1 .. d - 1 \subseteq Depart
  BY OrganisationAssumption DEF Depart
<1>1. depart'[d] = depart[d] /\ <<"orphan", d>> \notin loose
  BY DEF NoDepart
<1>2. CASE depart[d].root /\ \A r \in Roots : r <= d
  <2>1. ASSUME NEW r \in Depart, depart'[r].exists, depart'[r].root PROVE r <= d
    BY <1>2, <2>1 DEF Roots, NoDepart
  <2>2. QED
    BY <1>1, <1>2, <2>1
<1>3. CASE ~depart[d].root /\ depart[d].pid \in 1 .. d - 1 /\ depart[depart[d].pid].exists
  <2>1. depart[d].pid \in Depart
    BY <1>0, <1>3
  <2>2. depart[d].pid \notin gone
    BY <1>1 DEF Children
  <2>3. QED
    BY <1>1, <1>3, <2>1, <2>2
<1> QED
  BY <1>1, <1>2, <1>3 DEF Hung

\* Every step keeps what departments hang on.
LEMMA HungStep == Base /\ Hung /\ [Next]_vars => Hung'
<1> SUFFICES ASSUME Base, Hung, [Next]_vars PROVE Hung'
  OBVIOUS
<1>0. Typed /\ Steps /\ Fresh
  BY DEF Base
<1>1. ASSUME NEW s \in Slot, NEW d \in Depart, NEW p \in Name \cup {None}, NEW n \in Name,
             AddDepart(s, d, p, n)
      PROVE  Hung'
  BY <1>0, <1>1, AddDepartFacts, HungStays
<1>2. ASSUME NEW s \in Slot, AddDepartMessage(s) PROVE Hung'
  <2> DEFINE n == [exists |-> TRUE, root |-> request[s].parent = None, pid |-> request[s].d,
                   parent |-> request[s].parent, name |-> request[s].name]
  <2>1. /\ departs' = departs + 1 /\ departs' \in Depart /\ loose \subseteq loose'
        /\ \A c \in Depart : c # departs' => depart'[c] = depart[c]
        /\ request[s].op = "add"
    BY <1>0, <1>2, AddDepartMessageFacts
  <2>2. depart'[departs'] = n
    <3>1. depart' = [depart EXCEPT ![departs + 1] = n]
      BY <1>2 DEF AddDepartMessage
    <3>2. depart \in [Depart -> Node]
      BY <1>0, TypedParts
    <3> HIDE DEF n
    <3>3. QED
      BY <2>1, <3>1, <3>2
  <2>3. /\ ~InTable(request[s].d) => <<"orphan", departs'>> \in loose'
        /\ request[s].parent = None => \A r \in Roots : <<"orphan", r>> \in loose'
    BY <1>2, <2>1 DEF AddDepartMessage
  <2>4. request[s].d \in 1 .. departs
    BY <1>0, <2>1 DEF Steps, Regular
  <2>5. /\ depart'[departs'].root => request[s].parent = None
        /\ depart'[departs'].pid = request[s].d
    <3>1. (n.root <=> request[s].parent = None) /\ n.pid = request[s].d
      OBVIOUS
    <3> HIDE DEF n
    <3>2. QED
      BY <2>2, <3>1
  <2>6. depart'[departs'].pid \in 0 .. departs
    BY <1>0, <2>4, <2>5, Numbers
  <2> HIDE DEF n
  <2>7. QED
    BY <1>0, <2>1, <2>3, <2>5, <2>6, HungAdded
<1>3. ASSUME NEW s \in Slot, NEW d \in Depart, NEW n \in Name, UpdateDepart(s, d, n)
      PROVE  Hung'
  BY <1>0, <1>3, UpdateDepartFacts, HungStays
<1>4. ASSUME NEW s \in Slot, UpdateParentDepart(s) PROVE Hung'
  BY <1>0, <1>4, UpdateParentDepartFacts, HungStays
<1>5. ASSUME NEW s \in Slot, NEW d \in Depart, DeleteDepart(s, d) PROVE Hung'
  BY <1>0, <1>5, DeleteDepartFacts, HungStays
<1>6. ASSUME NEW s \in Slot, MoveMachines(s) PROVE Hung'
  BY <1>0, <1>6, MoveMachinesFacts, HungStays
<1>7. ASSUME NEW s \in Slot, DeleteDepartNode(s) PROVE Hung'
  <2>1. PICK gone \in SUBSET ({request[s].d} \cup Children(request[s].d)) :
           /\ depart' = [c \in Depart |-> IF c \in gone THEN NoDepart ELSE depart[c]]
           /\ loose' = loose \cup {<<"orphan", c>> : c \in UNION {Children(x) : x \in gone}}
    BY <1>7 DEF DeleteDepartNode
  <2>2. \A x \in gone : \A c \in Children(x) : <<"orphan", c>> \in loose'
    BY <2>1
  <2>3. \A x \in gone \ Depart : FALSE
    <3>1. request[s].op = "delete"
      BY <1>0, <1>7 DEF DeleteDepartNode, Steps, Regular
    <3>2. request[s].d \in 1 .. departs
      BY <1>0, <3>1 DEF Steps, Regular
    <3>3. request[s].d \in Depart /\ Children(request[s].d) \subseteq Depart
      BY <1>0, <3>2, Numbers DEF Depart, Children
    <3>4. QED
      BY <3>3
  <2>4. gone \in SUBSET Depart
    BY <2>3
  <2>5. /\ \A c \in Depart : depart'[c] = IF c \in gone THEN NoDepart ELSE depart[c]
        /\ loose \subseteq loose'
    BY <2>1
  <2>6. QED
    BY <2>2, <2>4, <2>5, HungTakenAway
<1>8. ASSUME NEW s \in Slot, DelUser(s) PROVE Hung'
  BY <1>0, <1>8, DelUserFacts, HungStays
<1>9. ASSUME NEW s \in Slot, NEW m \in Machine, NEW d \in Depart, ModifyMachineDepart(s, m, d)
      PROVE  Hung'
  <2>1. \A c \in Depart : <<"orphan", c>> # <<"machine", m>>
    OBVIOUS
  <2>2. QED
    BY <1>0, <1>9, <2>1, ModifyMachineDepartFacts, HungStays
<1>10. ASSUME NEW s \in Slot, NEW f \in Form, Register(s, f) PROVE Hung'
  BY <1>0, <1>10, RegisterFacts, HungStays
<1>11. ASSUME NEW s \in Slot, AddUser(s) PROVE Hung'
  <2>1. depart' = depart /\ loose \subseteq loose'
    BY <1>0, <1>11, AddUserFacts DEF AddUser
  <2>2. QED
    BY <2>1, HungStays
<1>12. ASSUME NEW s \in Slot, NEW e \in Email, NEW d \in Depart, UpdateUser(s, e, d)
      PROVE  Hung'
  <2>1. \A c \in Depart, u \in User : <<"orphan", c>> # <<"user", u>>
    OBVIOUS
  <2>2. QED
    BY <1>0, <1>12, <2>1, UpdateUserFacts, HungStays
<1>13. ASSUME NEW s \in Slot, NEW e \in Email, DeleteUser(s, e) PROVE Hung'
  BY <1>0, <1>13, DeleteUserFacts, HungStays
<1>14. ASSUME NEW s \in Slot, NEW q \in RoleId, AddRole(s, q) PROVE Hung'
  BY <1>0, <1>14, AddRoleFacts, HungStays
<1>15. ASSUME NEW s \in Slot, NEW q \in RoleId, DeleteUserRole(s, q) PROVE Hung'
  BY <1>0, <1>15, DeleteUserRoleFacts, HungStays
<1>16. ASSUME NEW s \in Slot, DeleteRole(s) PROVE Hung'
  BY <1>0, <1>16, DeleteRoleFacts, HungStays
<1>17. ASSUME NEW s \in Slot, StatementFails(s) PROVE Hung'
  BY <1>0, <1>17, StatementFailsFacts, HungStays
<1>18. ASSUME Restart PROVE Hung'
  <2> DEFINE lacking == ~\E d \in Depart : depart[d].exists /\ depart[d].pid = 0
  <2>1. loose \subseteq loose'
    BY <1>0, <1>18, RestartFacts
  <2>2. CASE UNCHANGED <<depart, departs>>
    BY <2>1, <2>2, HungStays
  <2>3. CASE /\ departs' = departs + 1 /\ departs' \in Depart
             /\ depart'[departs'] = Root
             /\ \A c \in Depart : c # departs' => depart'[c] = depart[c]
    <3>1. lacking
      <4>1. departs \in Nat
        BY <1>0, Numbers
      <4>2. departs' # departs
        BY <2>3, <4>1
      <4>3. IF lacking THEN TRUE ELSE UNCHANGED <<depart, departs>>
        BY <1>18 DEF Restart
      <4>4. QED
        BY <4>2, <4>3
    <3>2. \A r \in Roots : <<"orphan", r>> \in loose'
      BY <1>18, <3>1 DEF Restart
    <3>3. depart'[departs'].root /\ depart'[departs'].pid \in 0 .. departs
      BY <1>0, <2>3, Numbers DEF Root
    <3>4. QED
      BY <1>0, <2>1, <2>3, <3>2, <3>3, HungAdded
  <2>4. QED
    BY <1>0, <1>18, <2>2, <2>3, RestartFacts
<1>19. ASSUME CreateAdministratorUser PROVE Hung'
  <2>1. depart' = depart /\ loose \subseteq loose'
    BY <1>0, <1>19, CreateAdministratorUserFacts
  <2>2. QED
    BY <2>1, HungStays
<1>20. ASSUME UNCHANGED vars PROVE Hung'
  BY <1>20, HungStays DEF vars, tables
<1>21. QED
  BY <1>1, <1>2, <1>3, <1>4, <1>5, <1>6, <1>7, <1>8, <1>9, <1>10,
     <1>11, <1>12, <1>13, <1>14, <1>15, <1>16, <1>17, <1>18, <1>19, <1>20 DEF Next

\* The first department that is not shown would hang on an older one that is.
LEMMA HungAreShown ==
    ASSUME Hung
    PROVE  EveryDepartShown
<1> DEFINE Missing == {d \in Depart : depart[d].exists /\ ~(Shown[d] \/ Orphaned[d])}
<1>1. SUFFICES ASSUME Missing # {} PROVE FALSE
  BY DEF EveryDepartShown
<1>2. PICK d \in Missing : \A c \in Missing : d <= c
  <2>1. Missing \in SUBSET Nat
    BY DEF Depart
  <2> HIDE DEF Missing
  <2>2. QED
    BY <1>1, <2>1, Least
<1>3. /\ d \in Depart /\ depart[d].exists /\ ~Shown[d] /\ ~Orphaned[d]
      /\ <<"orphan", d>> \notin loose
  BY <1>2, OrphanedUnfolds
<1>4. /\ ~depart[d].root /\ depart[d].pid \in 1 .. d - 1 /\ depart[depart[d].pid].exists
  <2>1. ~(depart[d].root /\ \A r \in Roots : r <= d)
    BY <1>3, ShownUnfolds
  <2>2. QED
    BY <1>3, <2>1 DEF Hung
<1>5. ~Shown[depart[d].pid] /\ ~Orphaned[depart[d].pid]
  BY <1>3, <1>4, ShownUnfolds, OrphanedUnfolds
<1>6. depart[d].pid \in Depart /\ depart[d].pid < d /\ d \in Nat /\ depart[d].pid \in Nat
  <2>1. d \in 1 .. MaxDeparts /\ MaxDeparts \in Nat
    BY <1>3, OrganisationAssumption DEF Depart
  <2>2. QED
    BY <1>4, <2>1 DEF Depart
<1>7. depart[d].pid \in Missing
  BY <1>4, <1>5, <1>6
<1>8. d <= depart[d].pid
  BY <1>2, <1>7
<1> QED
  BY <1>6, <1>8

------------------------------------------------------------------------------
\* Results.

\* The inductive invariant holds in every behaviour.
THEOREM InductiveHolds == Spec => []Inductive
<1>1. Init => Inductive
  BY InductiveInit
<1>2. Inductive /\ [Next]_vars => Inductive'
  <2> SUFFICES ASSUME Inductive, [Next]_vars PROVE Inductive'
    OBVIOUS
  <2>1. Base /\ Machines /\ UserPlaced /\ Names /\ Emails /\ RolesKept
    BY DEF Inductive, Base, Machines, Names, Emails, RolesKept
  <2>2. Typed'
    BY <2>1, TypedStep DEF Base
  <2>3. Steps' /\ Fresh'
    BY <2>1, StepsStep, FreshStep
  <2>4. Machines' /\ UserPlaced' /\ Names' /\ Emails' /\ RolesKept'
    BY <2>1, MachinesStep, UserPlacedStep, NamesStep, EmailsStep, RolesStep
  <2>5. QED
    BY <2>2, <2>3, <2>4 DEF Inductive, Machines, Names, Emails, RolesKept
<1>3. QED
  BY <1>1, <1>2, PTL DEF Spec

\* The variables hold what the code can put in them: no statement writes an
\* id that was never given, and no handler goes past the steps of its kind.
THEOREM TypeCorrect == Spec => []TypeOK
<1>1. Inductive => TypeOK
  BY DEF Inductive, Typed
<1>2. QED
  BY <1>1, InductiveHolds, PTL

\* A machine is in a department of the table, for every tree of departments
\* and any number of deletions at a time.
THEOREM MachinesArePlaced == Spec => []MachinePlaced
<1>1. Inductive => MachinePlaced
  BY DEF Inductive
<1>2. QED
  BY <1>1, InductiveHolds, PTL

\* A user is in a department of the table, or is one of those that
\* DeleteDepartData leaves behind.
THEOREM UsersArePlaced == Spec => []UserPlaced
<1>1. Inductive => UserPlaced
  BY DEF Inductive
<1>2. QED
  BY <1>1, InductiveHolds, PTL

\* The copy of the parent's name in a department is the parent's name once
\* the rename that wrote the parent has ended.
THEOREM ParentsAreNamed == Spec => []ParentNamed
<1>1. Inductive => ParentNamed
  BY DEF Inductive
<1>2. QED
  BY <1>1, InductiveHolds, PTL

\* Only two requests that overlap, or a start of the server, give two users
\* one email.
THEOREM EmailsAreUnique == Spec => []UniqueEmail
<1>1. Inductive => UniqueEmail
  BY DEF Inductive
<1>2. QED
  BY <1>1, InductiveHolds, PTL

\* A role that a user has stays, but for one that was deleted while the user
\* was being added.
THEOREM BoundRolesStay == Spec => []BoundRoleStays
<1>1. Inductive => BoundRoleStays
  BY DEF Inductive
<1>2. QED
  BY <1>1, InductiveHolds, PTL

\* The tree shows every department of the table, however it was built, but for
\* those left behind: MakeTree finds a place for each.
THEOREM DepartsAreShown == Spec => []EveryDepartShown
<1>1. Init => Hung
  BY HungInit
<1>2. Inductive /\ Hung /\ [Next]_vars => Hung'
  BY HungStep DEF Inductive, Base
<1>3. Hung => EveryDepartShown
  BY HungAreShown
<1>4. QED
  BY <1>1, <1>2, <1>3, InductiveHolds, PTL DEF Spec
=============================================================================
