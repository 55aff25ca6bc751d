---------------------------- MODULE ServicesProofs ---------------------------
(***************************************************************************)
(* Proofs about Services: of its four parts, the configuration files, for  *)
(* every number of files, versions, requests and handlers at a time, and   *)
(* the batches, for every tree of departments and number of machines.  The *)
(* tasks and the plugins have modules of their own.                        *)
(***************************************************************************)
EXTENDS Services, PluginManagerProofs, FiniteSetTheorems, SequenceTheorems,
        WellFoundedInduction, TLAPS

------------------------------------------------------------------------------
(***************************************************************************)
(* The inductive invariant.  An excused file (losing) is one for which the *)
(* code does lose versions; nothing is said of it.                         *)
(***************************************************************************)

Writes(s) == serving[s].op \in {"update", "rollback"}
RowOf(v, f) == v \in DOMAIN history /\ history[v].file = f
Holds(f, text) == \E v \in DOMAIN history : history[v].file = f /\ history[v].text = text

\* Which steps the requests of each kind have.
Shape ==
    \A s \in Slot :
       /\ serving[s].op = "none" => serving[s].pc = "idle"
       /\ serving[s].op = "delete" => serving[s].pc = "drop"
       /\ serving[s].op = "update" => serving[s].pc \in {"read", "keep", "exist", "mark", "rename", "write"}
       /\ serving[s].op = "rollback" => serving[s].pc \in {"read", "keep", "mark", "write"}

\* Nothing is known of a file that was not saved yet.
Fresh ==
    /\ \A s \in Slot : serving[s].op # "none" => serving[s].file <= saved
    /\ \A v \in DOMAIN history : history[v].file <= saved

\* Two requests that write a file excuse it.
Sole ==
    \A s, z \in Slot :
       s # z /\ Writes(s) /\ Writes(z) /\ serving[s].file = serving[z].file
          => serving[s].file \in losing

\* What holds of a file that is not excused: every text it had is there; at
\* most one of its versions is the latest; where one is, the current text is a
\* version too; a version that would stay the latest when it is renamed has
\* the name from the file.
FileKept(f) ==
    f \notin losing =>
       /\ f \in DOMAIN files =>
             /\ \A text \in past[f] : text = files[f].text \/ Holds(f, text)
             /\ F!LatestOf(f) # {} => Holds(f, files[f].text)
             /\ \A v \in DOMAIN history :
                   RowOf(v, f) /\ history[v].name = "front" => files[f].name = "front"
       /\ \A u, v \in F!LatestOf(f) : u = v

\* What a handler relies on between two of its steps.
Relies(s) ==
    LET q == serving[s]
        f == q.file
    IN  f \notin losing =>
           /\ q.pc = "keep" /\ f \in DOMAIN files => q.read = files[f]
           /\ q.pc = "exist" /\ f \in DOMAIN files => ~F!Contains(files[f].name)
           /\ q.op = "update" /\ q.pc \in {"mark", "rename", "write"} =>
                 \A v \in DOMAIN history : RowOf(v, f) => history[v].name # "front"
           /\ q.pc = "rename" => F!LatestOf(f) \subseteq {q.version}
           /\ q.op = "update" /\ q.pc = "write" => F!LatestOf(f) = {}
           /\ q.op = "rollback" /\ q.pc \in {"read", "keep"} => F!LatestOf(f) = {}
           /\ /\ f \in DOMAIN files
              /\ q.pc \in {"exist", "rename", "write"} \/ (q.op = "update" /\ q.pc = "mark")
              => Holds(f, files[f].text)

FilesInductive ==
    /\ F!TypeOK /\ Shape /\ Fresh /\ Sole
    /\ \A f \in F!File : FileKept(f)
    /\ \A s \in Slot : Relies(s)

------------------------------------------------------------------------------
(***************************************************************************)
(* What a step may do to a file without harm: take it away, or its         *)
(* versions if it is gone or excused, and unmark the latest one.           *)
(***************************************************************************)

Worn(f) ==
    /\ f \in DOMAIN files' => f \in DOMAIN files /\ files'[f] = files[f]
    /\ past'[f] = past[f]
    /\ f \in losing => f \in losing'
    /\ \A v \in DOMAIN history' :
          history'[v].file = f =>
             /\ v \in DOMAIN history /\ history[v].file = f
             /\ history'[v].text = history[v].text
             /\ history'[v].name = history[v].name \/ history'[v].name = "plain"
    /\ f \in DOMAIN files' /\ f \notin losing' =>
          \A v \in DOMAIN history :
             history[v].file = f =>
                /\ v \in DOMAIN history' /\ history'[v].file = f
                /\ history'[v].text = history[v].text

\* The latest versions of a file.
LEMMA LatestRows ==
    \A f, v : v \in F!LatestOf(f) <=> RowOf(v, f) /\ F!Contains(history[v].name)
BY DEF F!LatestOf, F!VersionsOf, RowOf

\* The same after a step.
LEMMA LatestRowsNext ==
    \A f, v : v \in F!LatestOf(f)' <=>
       v \in DOMAIN history' /\ history'[v].file = f /\ F!Contains(history'[v].name)
BY DEF F!LatestOf, F!VersionsOf

\* No version becomes the latest.
LEMMA WornLatest ==
    ASSUME NEW f, Worn(f)
    PROVE  F!LatestOf(f)' \subseteq F!LatestOf(f)
BY LatestRows, LatestRowsNext DEF Worn, RowOf, F!Contains

\* No text is lost that somebody may want back.
LEMMA WornHolds ==
    ASSUME NEW f, Worn(f), f \in DOMAIN files', f \notin losing'
    PROVE  \A text : Holds(f, text) => Holds(f, text)'
BY DEF Worn, Holds

\* What holds of a file holds still.
LEMMA WornKept ==
    ASSUME NEW f, FileKept(f), Worn(f)
    PROVE  FileKept(f)'
<1> SUFFICES ASSUME f \notin losing'
             PROVE  /\ f \in DOMAIN files' =>
                         /\ \A text \in past'[f] : text = files'[f].text \/ Holds(f, text)'
                         /\ F!LatestOf(f)' # {} => Holds(f, files[f].text)'
                         /\ \A v \in DOMAIN history' :
                               history'[v].file = f /\ history'[v].name = "front"
                                  => files'[f].name = "front"
                    /\ \A u, v \in F!LatestOf(f)' : u = v
  BY DEF FileKept, RowOf
<1>1. f \notin losing
  BY DEF Worn
<1>2. F!LatestOf(f)' \subseteq F!LatestOf(f)
  BY WornLatest
<1>3. ASSUME f \in DOMAIN files'
      PROVE  /\ \A text \in past'[f] : text = files'[f].text \/ Holds(f, text)'
             /\ F!LatestOf(f)' # {} => Holds(f, files[f].text)'
             /\ \A v \in DOMAIN history' :
                   history'[v].file = f /\ history'[v].name = "front"
                      => files'[f].name = "front"
  <2>1. f \in DOMAIN files /\ files'[f] = files[f] /\ past'[f] = past[f]
    BY <1>3 DEF Worn
  <2>2. \A text : Holds(f, text) => Holds(f, text)'
    BY <1>3, WornHolds
  <2>3. \A text \in past'[f] : text = files'[f].text \/ Holds(f, text)'
    BY <1>1, <2>1, <2>2 DEF FileKept
  <2>4. F!LatestOf(f)' # {} => Holds(f, files[f].text)'
    BY <1>1, <1>2, <2>1, <2>2 DEF FileKept
  <2>5. \A v \in DOMAIN history' :
           history'[v].file = f /\ history'[v].name = "front" => files'[f].name = "front"
    BY <1>1, <2>1 DEF FileKept, Worn, RowOf
  <2> QED
    BY <2>3, <2>4, <2>5
<1>4. \A u, v \in F!LatestOf(f)' : u = v
  BY <1>1, <1>2 DEF FileKept
<1> QED
  BY <1>3, <1>4

\* And a handler that takes no step relies on what it relied on.
LEMMA WornRelies ==
    ASSUME NEW s, Relies(s), serving'[s] = serving[s], Worn(serving[s].file)
    PROVE  Relies(s)'
<1> DEFINE q == serving[s]
           f == q.file
           here == f \in DOMAIN files'
           held == \/ q.pc \in {"exist", "rename", "write"}
                   \/ q.op = "update" /\ q.pc = "mark"
<1> SUFFICES ASSUME f \notin losing'
             PROVE
               /\ q.pc = "keep" /\ here => q.read = files'[f]
               /\ q.pc = "exist" /\ here => ~F!Contains(files'[f].name)
               /\ q.op = "update" /\ q.pc \in {"mark", "rename", "write"} =>
                     \A v \in DOMAIN history' : history'[v].file = f => history'[v].name # "front"
               /\ q.pc = "rename" => F!LatestOf(f)' \subseteq {q.version}
               /\ q.op = "update" /\ q.pc = "write" => F!LatestOf(f)' = {}
               /\ q.op = "rollback" /\ q.pc \in {"read", "keep"} => F!LatestOf(f)' = {}
               /\ here /\ held => Holds(f, files[f].text)'
  BY DEF Relies, RowOf
<1>1. f \notin losing /\ (here => f \in DOMAIN files /\ files'[f] = files[f])
  BY DEF Worn
<1>2. F!LatestOf(f)' \subseteq F!LatestOf(f)
  BY WornLatest
<1>3. here => \A text : Holds(f, text) => Holds(f, text)'
  BY WornHolds
<1>4. \A v \in DOMAIN history' :
         history'[v].file = f /\ history'[v].name = "front"
            => RowOf(v, f) /\ history[v].name = "front"
  BY DEF Worn, RowOf
<1>5. q.pc = "keep" /\ here => q.read = files'[f]
  BY <1>1 DEF Relies
<1>6. q.pc = "exist" /\ here => ~F!Contains(files'[f].name)
  BY <1>1 DEF Relies
<1>7. q.op = "update" /\ q.pc \in {"mark", "rename", "write"} =>
         \A v \in DOMAIN history' : history'[v].file = f => history'[v].name # "front"
  BY <1>1, <1>4 DEF Relies, RowOf
<1>8. /\ q.pc = "rename" => F!LatestOf(f)' \subseteq {q.version}
      /\ q.op = "update" /\ q.pc = "write" => F!LatestOf(f)' = {}
      /\ q.op = "rollback" /\ q.pc \in {"read", "keep"} => F!LatestOf(f)' = {}
  BY <1>1, <1>2 DEF Relies
<1>9. here /\ held => Holds(f, files[f].text)'
  BY <1>1, <1>3 DEF Relies
<1> QED
  BY <1>5, <1>6, <1>7, <1>8, <1>9

------------------------------------------------------------------------------
(***************************************************************************)
(* Numbers.                                                                *)
(***************************************************************************)

\* Every set of numbers has a least one: the order of the naturals is well
\* founded.
LEMMA Least ==
    ASSUME NEW T \in SUBSET Nat, T # {}
    PROVE  \E x \in T : \A y \in T : x <= y
<1>1. PICK x \in T : \A y \in T : ~(<<y, x>> \in OpToRel(<, Nat))
  BY NatLessThanWellFounded, WFMin
<1>2. \A y \in T : ~(y < x)
  BY <1>1 DEF OpToRel
<1> QED
  BY <1>2

\* So the newest of some versions is one of them.
LEMMA NewestIsOne ==
    ASSUME NEW n \in Nat, NEW S \in SUBSET (1 .. n), S # {}
    PROVE  F!Newest(S) \in S
<1> DEFINE T == {n - v : v \in S}
<1>1. \E v \in S : n - v \in T
  OBVIOUS
<1>2. T \in SUBSET Nat /\ T # {}
  BY <1>1
<1>3. PICK x \in T : \A y \in T : x <= y
  BY <1>2, Least
<1>4. PICK v \in S : x = n - v
  BY <1>3
<1>5. \A u \in S : n - v <= n - u
  BY <1>3, <1>4
<1>6. \A u \in S : u <= v
  BY <1>5
<1> QED
  BY <1>6 DEF F!Newest

------------------------------------------------------------------------------
(***************************************************************************)
(* Requests.                                                               *)
(***************************************************************************)

PC == {"idle", "drop", "read", "keep", "exist", "mark", "rename", "write"}
Op == {"none", "update", "rollback", "delete"}
Serving == [op : Op, file : F!File, version : F!Version, form : F!Content,
            read : F!Content, pc : PC]

\* The requests are of their type.
LEMMA ServingType == F!TypeOK => serving \in [Slot -> Serving]
BY DEF F!TypeOK, Serving, PC, Op

\* Where nothing is read yet, an empty file is.
LEMMA IdleServing == F!Idle \in Serving /\ F!NoFile \in F!Content
<1>1. F!NoFile \in F!Content
  BY DEF F!NoFile, F!Content, F!Name
<1>2. 1 \in F!File /\ 1 \in F!Version
  BY FilesAssumption DEF F!File, F!Version
<1> QED
  BY <1>1, <1>2 DEF F!Idle, Serving, Op, PC

\* Every file and every handler but one, where the step wears all files out.
LEMMA AllWorn ==
    ASSUME FilesInductive, NEW s \in Slot, \A f \in F!File : Worn(f),
           \A z \in Slot \ {s} : serving'[z] = serving[z], Relies(s)'
    PROVE  (\A f \in F!File : FileKept(f)') /\ (\A z \in Slot : Relies(z)')
<1>1. \A f \in F!File : FileKept(f)'
  BY WornKept DEF FilesInductive
<1>2. ASSUME NEW z \in Slot, z # s PROVE Relies(z)'
  <2>1. serving[z].file \in F!File
    BY ServingType DEF FilesInductive, Serving
  <2> QED
    BY <1>2, <2>1, WornRelies DEF FilesInductive
<1> QED
  BY <1>1, <1>2

\* The same where the step does something to one file, which no other request
\* is writing, or which is excused.
LEMMA OthersWorn ==
    ASSUME FilesInductive, NEW s \in Slot, NEW f \in F!File, \A g \in F!File \ {f} : Worn(g),
           \A z \in Slot \ {s} : serving'[z] = serving[z],
           \A z \in Slot \ {s} : Writes(z) /\ serving[z].file = f => f \in losing',
           FileKept(f)', Relies(s)'
    PROVE  (\A g \in F!File : FileKept(g)') /\ (\A z \in Slot : Relies(z)')
<1>1. ASSUME NEW g \in F!File PROVE FileKept(g)'
  BY WornKept DEF FilesInductive
<1>2. ASSUME NEW z \in Slot, z # s PROVE Relies(z)'
  <2>1. serving[z].file \in F!File
    BY ServingType DEF FilesInductive, Serving
  <2>2. CASE serving[z].file # f
    BY <1>2, <2>1, <2>2, WornRelies DEF FilesInductive
  <2>3. CASE serving[z].file = f /\ f \in losing'
    BY <1>2, <2>3 DEF Relies
  <2>4. CASE ~Writes(z)
    <3>1. serving[z].op \in {"none", "delete"}
      BY <2>4, ServingType DEF Writes, FilesInductive, Serving, Op
    <3>2. serving[z].pc \in {"idle", "drop"}
      BY <3>1 DEF FilesInductive, Shape
    <3> QED
      BY <1>2, <3>1, <3>2 DEF Relies
  <2> QED
    BY <1>2, <2>2, <2>3, <2>4
<1> QED
  BY <1>1, <1>2

------------------------------------------------------------------------------
(***************************************************************************)
(* Every action keeps the invariant.                                       *)
(***************************************************************************)

\* A request that comes does nothing to the files, or deletes one.
LEMMA ArriveStep ==
    ASSUME FilesInductive, NEW s \in Slot, NEW op \in Op, NEW f \in F!File, f <= saved,
           NEW v \in F!Version, NEW form \in F!Content, NEW pc \in PC,
           <<op, pc>> \in {<<"update", "read">>, <<"rollback", "mark">>, <<"delete", "drop">>},
           F!Arrive(s, op, f, v, form, pc), UNCHANGED <<saved, kept, history, past>>,
           files' = files \/ files' = F!Without(files, {f})
    PROVE  FilesInductive'
<1> DEFINE new == [op |-> op, file |-> f, version |-> v, form |-> form, read |-> F!NoFile,
                   pc |-> pc]
<1> USE DEF FilesInductive
<1>1. /\ new \in Serving /\ new.op = op /\ new.pc = pc /\ new.file = f
      /\ serving \in [Slot -> Serving]
  BY IdleServing, ServingType DEF Serving
<1>2. /\ serving' = [serving EXCEPT ![s] = new]
      /\ serving[s].pc = "idle" /\ served < MaxServed /\ served' = served + 1
      /\ losing' = IF op # "delete" /\ F!Writers(f) # {} THEN losing \cup {f} ELSE losing
  BY DEF F!Arrive
<1> HIDE DEF new
<1>3. /\ serving' \in [Slot -> Serving] /\ serving'[s] = new
      /\ \A z \in Slot \ {s} : serving'[z] = serving[z]
  BY <1>1, <1>2
<1>4. losing \subseteq losing' /\ losing' \subseteq F!File
  BY <1>2 DEF F!TypeOK
<1>5. \A x \in DOMAIN files' : x \in DOMAIN files /\ files'[x] = files[x]
  BY DEF F!Without
<1>6. F!TypeOK'
  <2>1. served' \in 0 .. MaxServed
    BY <1>2, FilesAssumption DEF F!TypeOK
  <2> QED
    BY <1>3, <1>4, <1>5, <2>1 DEF F!TypeOK, Serving, Op, PC
<1>7. Shape'
  BY <1>1, <1>3 DEF Shape
<1>8. Fresh'
  BY <1>1, <1>3 DEF Fresh
<1>9. Sole'
  <2>1. ASSUME NEW y \in Slot, NEW z \in Slot, y # z, Writes(y)', Writes(z)',
               serving'[y].file = serving'[z].file
        PROVE  serving'[y].file \in losing'
    <3>1. ASSUME NEW x \in Slot \ {s}, serving[x].op \in {"update", "rollback"},
                 serving[x].file = f, op # "delete"
          PROVE  f \in losing'
      BY <1>2, <3>1 DEF F!Writers
    <3>2. CASE y = s
      BY <1>1, <1>3, <2>1, <3>1, <3>2 DEF Writes
    <3>3. CASE z = s
      BY <1>1, <1>3, <2>1, <3>1, <3>3 DEF Writes
    <3>4. CASE y # s /\ z # s
      BY <1>3, <1>4, <2>1, <3>4 DEF Sole, Writes
    <3> QED
      BY <3>2, <3>3, <3>4
  <2> QED
    BY <2>1 DEF Sole
<1>10. \A g \in F!File : Worn(g)
  BY <1>4, <1>5 DEF Worn
<1>11. Relies(s)'
  BY <1>1, <1>3 DEF Relies
<1> QED
  BY <1>3, <1>6, <1>7, <1>8, <1>9, <1>10, <1>11, AllWorn

\* Update comes with a form.
LEMMA UpdateStep ==
    ASSUME FilesInductive, NEW s \in Slot, NEW f \in F!File, NEW name \in FormName,
           NEW text \in Text \cup {Empty}, F!Update(s, f, [name |-> name, text |-> text])
    PROVE  FilesInductive'
<1>1. [name |-> name, text |-> text] \in F!Content /\ 1 \in F!Version
  BY FilesAssumption DEF F!Content, F!Name, F!Version
<1>2. /\ f <= saved /\ F!Arrive(s, "update", f, 1, [name |-> name, text |-> text], "read")
      /\ UNCHANGED <<saved, files, kept, history, past>>
  BY DEF F!Update
<1> QED
  BY <1>1, <1>2, ArriveStep DEF Op, PC

\* LastFileRollBack comes with the text of a version, or with none.
LEMMA LastFileRollBackStep ==
    ASSUME FilesInductive, NEW s \in Slot, NEW f \in F!File, NEW v \in F!Version,
           F!LastFileRollBack(s, f, v)
    PROVE  FilesInductive'
<1> DEFINE text == IF v \in DOMAIN history THEN history[v].text ELSE Empty
           form == [F!NoFile EXCEPT !.text = text]
<1>1. text \in Text \cup {Empty}
  BY DEF FilesInductive, F!TypeOK, F!Row
<1>2. /\ f <= saved /\ F!Arrive(s, "rollback", f, v, form, "mark")
      /\ UNCHANGED <<saved, files, kept, history, past>>
  BY DEF F!LastFileRollBack
<1> HIDE DEF text
<1>3. form \in F!Content
  BY <1>1 DEF F!Content, F!NoFile, F!Name
<1> HIDE DEF form
<1> QED
  BY <1>2, <1>3, ArriveStep DEF Op, PC

\* Delete drops the file, or fails to.
LEMMA DeleteStep ==
    ASSUME FilesInductive, NEW s \in Slot, NEW f \in F!File, F!Delete(s, f)
    PROVE  FilesInductive'
<1>1. /\ f <= saved /\ F!Arrive(s, "delete", f, 1, F!NoFile, "drop")
      /\ UNCHANGED <<saved, kept, history, past>>
      /\ files' = files \/ files' = F!Without(files, {f})
  BY DEF F!Delete
<1>2. 1 \in F!Version /\ F!NoFile \in F!Content
  BY IdleServing, FilesAssumption DEF F!Version
<1> QED
  BY <1>1, <1>2, ArriveStep DEF Op, PC

\* A handler goes on with its request, or is done.
Went(s) ==
    /\ serving' \in [Slot -> Serving]
    /\ \A z \in Slot \ {s} : serving'[z] = serving[z]
    /\ \/ serving'[s].op = "none" /\ serving'[s].pc = "idle"
       \/ /\ serving'[s].op = serving[s].op /\ serving[s].op # "none"
          /\ serving'[s].file = serving[s].file
          /\ serving[s].op = "update" =>
                serving'[s].pc \in {"read", "keep", "exist", "mark", "rename", "write"}
          /\ serving[s].op = "rollback" => serving'[s].pc \in {"read", "keep", "mark", "write"}
          /\ serving[s].op = "delete" => serving'[s].pc = "drop"

\* So the requests are in shape.
LEMMA WentShape ==
    ASSUME FilesInductive, NEW s \in Slot, Went(s), losing \subseteq losing'
    PROVE  Shape' /\ Sole' /\ \A z \in Slot : serving'[z].op # "none" => serving'[z].file <= saved
<1> USE DEF FilesInductive
<1>1. Shape'
  <2> SUFFICES ASSUME NEW z \in Slot
               PROVE
                 /\ serving'[z].op = "none" => serving'[z].pc = "idle"
                 /\ serving'[z].op = "delete" => serving'[z].pc = "drop"
                 /\ serving'[z].op = "update" =>
                       serving'[z].pc \in {"read", "keep", "exist", "mark", "rename", "write"}
                 /\ serving'[z].op = "rollback" => serving'[z].pc \in {"read", "keep", "mark", "write"}
    BY DEF Shape
  <2>1. CASE z = s
    BY <2>1 DEF Went
  <2>2. CASE z # s
    BY <2>2 DEF Went, Shape
  <2> QED
    BY <2>1, <2>2
<1>2. \A z \in Slot : Writes(z)' => Writes(z) /\ serving'[z].file = serving[z].file
  BY DEF Went, Writes
<1>3. Sole'
  BY <1>2 DEF Sole
<1>4. \A z \in Slot : serving'[z].op # "none" => serving'[z].file <= saved
  BY DEF Went, Fresh
<1> QED
  BY <1>1, <1>3, <1>4

\* What GoOn and Answer make of a request.
LEMMA GoOnFacts ==
    ASSUME FilesInductive, NEW s \in Slot, NEW pc \in PC, F!GoOn(s, pc)
    PROVE  /\ serving' \in [Slot -> Serving]
           /\ \A z \in Slot \ {s} : serving'[z] = serving[z]
           /\ serving'[s].pc = pc /\ serving'[s].op = serving[s].op
           /\ serving'[s].file = serving[s].file /\ serving'[s].version = serving[s].version
           /\ serving'[s].form = serving[s].form /\ serving'[s].read = serving[s].read
BY ServingType DEF F!GoOn, FilesInductive, Serving, PC

\* An answer ends the request of a slot.
LEMMA AnswerFacts ==
    ASSUME FilesInductive, NEW s \in Slot, F!Answer(s)
    PROVE  Went(s) /\ serving'[s].pc = "idle" /\ serving'[s].op = "none"
<1>1. F!Idle.pc = "idle" /\ F!Idle.op = "none"
  BY DEF F!Idle
<1>2. serving' = [serving EXCEPT ![s] = F!Idle]
  BY DEF F!Answer
<1>3. serving \in [Slot -> Serving]
  BY ServingType DEF FilesInductive
<1> QED
  BY <1>1, <1>2, <1>3, IdleServing DEF Went

\* A handler that is done relies on nothing.
LEMMA DoneRelies ==
    ASSUME NEW s, serving'[s].pc = "idle"
    PROVE  Relies(s)'
BY DEF Relies

\* DeleteHistoryFile drops the versions of a file that is gone, or excuses it.
LEMMA DeleteHistoryFileStep ==
    ASSUME FilesInductive, NEW s \in Slot, F!DeleteHistoryFile(s)
    PROVE  FilesInductive'
<1> USE DEF FilesInductive
<1> DEFINE f == serving[s].file
<1>1. /\ F!Answer(s) /\ losing' = losing \cup ({f} \cap DOMAIN files)
      /\ UNCHANGED <<saved, files, kept, past, served>>
      /\ history' = F!Without(history, F!VersionsOf(f)) \/ history' = history
  BY DEF F!DeleteHistoryFile
<1>2. Went(s) /\ serving'[s].pc = "idle"
  BY <1>1, AnswerFacts
<1>3. losing \subseteq losing' /\ losing' \subseteq F!File
  BY <1>1, ServingType DEF Serving, F!TypeOK
<1>4. \A v \in DOMAIN history' : v \in DOMAIN history /\ history'[v] = history[v]
  BY <1>1 DEF F!Without
<1>5. \A v \in DOMAIN history : history[v].file # f => v \in DOMAIN history'
  BY <1>1 DEF F!Without, F!VersionsOf
<1>6. F!TypeOK'
  BY <1>1, <1>2, <1>3, <1>4 DEF F!TypeOK, Went, Serving, Op, PC
<1>7. Shape' /\ Sole' /\ Fresh'
  BY <1>1, <1>2, <1>3, <1>4, WentShape DEF Fresh
<1>8. \A g \in F!File : Worn(g)
  BY <1>1, <1>4, <1>5 DEF Worn
<1>9. (\A g \in F!File : FileKept(g)') /\ (\A z \in Slot : Relies(z)')
  BY <1>2, <1>8, AllWorn, DoneRelies DEF Went
<1> QED
  BY <1>6, <1>7, <1>9

\* A step of a handler that leaves the tables as they are.
LEMMA StillTables ==
    ASSUME FilesInductive, NEW s \in Slot, Went(s), Relies(s)',
           UNCHANGED <<saved, files, kept, history, past, served>>,
           losing \subseteq losing', losing' \subseteq F!File
    PROVE  FilesInductive'
<1> USE DEF FilesInductive
<1>1. F!TypeOK'
  BY DEF F!TypeOK, Went, Serving, Op, PC
<1>2. Shape' /\ Sole' /\ Fresh'
  BY WentShape DEF Fresh
<1>3. \A g \in F!File : Worn(g)
  BY DEF Worn
<1>4. (\A g \in F!File : FileKept(g)') /\ (\A z \in Slot : Relies(z)')
  BY <1>3, AllWorn DEF Went
<1> QED
  BY <1>1, <1>2, <1>4

\* What a handler must rely on after a step, for the file it serves.
LEMMA ReliesNext ==
    ASSUME NEW s, NEW f, serving'[s].file = f,
           f \notin losing' =>
              /\ serving'[s].pc = "keep" /\ f \in DOMAIN files' => serving'[s].read = files'[f]
              /\ serving'[s].pc = "exist" /\ f \in DOMAIN files' => ~F!Contains(files'[f].name)
              /\ serving'[s].op = "update" /\ serving'[s].pc \in {"mark", "rename", "write"} =>
                    \A v \in DOMAIN history' : history'[v].file = f => history'[v].name # "front"
              /\ serving'[s].pc = "rename" => F!LatestOf(f)' \subseteq {serving'[s].version}
              /\ serving'[s].op = "update" /\ serving'[s].pc = "write" => F!LatestOf(f)' = {}
              /\ serving'[s].op = "rollback" /\ serving'[s].pc \in {"read", "keep"}
                    => F!LatestOf(f)' = {}
              /\ /\ f \in DOMAIN files'
                 /\ \/ serving'[s].pc \in {"exist", "rename", "write"}
                    \/ serving'[s].op = "update" /\ serving'[s].pc = "mark"
                 => Holds(f, files[f].text)'
    PROVE  Relies(s)'
BY DEF Relies, RowOf, Holds, F!LatestOf, F!VersionsOf

\* ReadFile reads the file as it is.
LEMMA ReadFileStep ==
    ASSUME FilesInductive, NEW s \in Slot, F!ReadFile(s)
    PROVE  FilesInductive'
<1>0. PICK f \in F!File : f = serving[s].file
  BY ServingType DEF FilesInductive, Serving
<1> DEFINE q == [serving[s] EXCEPT !.read = F!Found(f), !.pc = "keep"]
<1>1. /\ serving[s].pc = "read" /\ serving' = [serving EXCEPT ![s].read = F!Found(f), ![s].pc = "keep"]
      /\ UNCHANGED <<saved, files, kept, history, past, served, losing>>
  BY <1>0 DEF F!ReadFile
<1>2. serving \in [Slot -> Serving] /\ serving[s] \in Serving
  BY ServingType DEF FilesInductive
<1>3. F!Found(f) \in F!Content
  BY IdleServing DEF FilesInductive, F!TypeOK, F!Found, F!Content
<1>4. q \in Serving
  BY <1>2, <1>3 DEF Serving, PC
<1>5. /\ q.pc = "keep" /\ q.op = serving[s].op /\ q.file = f /\ q.read = F!Found(f)
  BY <1>0, <1>2 DEF Serving
<1>6. serving[s].op \in {"update", "rollback"}
  BY <1>1, <1>2 DEF FilesInductive, Shape, Serving, Op
<1>7. serving' = [serving EXCEPT ![s] = q]
  BY <1>1, <1>2
<1> HIDE DEF q
<1>8. serving'[s] = q
  BY <1>2, <1>7
<1>9. Went(s)
  BY <1>0, <1>2, <1>4, <1>5, <1>6, <1>7 DEF Went
<1>10. f \in DOMAIN files => q.read = files[f]
  BY <1>5 DEF F!Found
<1>11. Relies(s)'
  <2>1. Relies(s) /\ F!LatestOf(f)' = F!LatestOf(f)
    BY <1>1 DEF FilesInductive, F!LatestOf, F!VersionsOf
  <2>2. f \notin losing /\ q.op = "rollback" => F!LatestOf(f)' = {}
    BY <1>0, <1>1, <1>5, <2>1 DEF Relies
  <2> QED
    BY <1>1, <1>5, <1>8, <1>10, <2>2, ReliesNext
<1>12. losing \subseteq losing' /\ losing' \subseteq F!File
  BY <1>1 DEF FilesInductive, F!TypeOK
<1> QED
  BY <1>1, <1>9, <1>11, <1>12, StillTables

\* A statement that fails ends the request.
LEMMA RefusedStep ==
    ASSUME FilesInductive, NEW s \in Slot, F!Refused(s)
    PROVE  FilesInductive'
<1>1. F!Answer(s) /\ UNCHANGED <<saved, files, kept, history, past, served, losing>>
  BY DEF F!Refused
<1>2. Went(s) /\ serving'[s].pc = "idle"
  BY <1>1, AnswerFacts
<1>3. losing \subseteq losing' /\ losing' \subseteq F!File
  BY <1>1 DEF FilesInductive, F!TypeOK
<1> QED
  BY <1>1, <1>2, <1>3, StillTables, DoneRelies

\* IsExistId lets an update of a file go on only if the file is there, and it
\* had no "latest" in its name when its version was kept.
LEMMA IsExistIdStep ==
    ASSUME FilesInductive, NEW s \in Slot, F!IsExistId(s)
    PROVE  FilesInductive'
<1> DEFINE f == serving[s].file
<1>1. /\ serving[s].pc = "exist"
      /\ UNCHANGED <<saved, files, kept, history, past, served, losing>>
      /\ IF f \in DOMAIN files THEN F!GoOn(s, "mark") ELSE F!Answer(s)
  BY DEF F!IsExistId
<1>2. losing \subseteq losing' /\ losing' \subseteq F!File
  BY <1>1 DEF FilesInductive, F!TypeOK
<1>3. CASE F!Answer(s)
  BY <1>1, <1>2, <1>3, AnswerFacts, StillTables, DoneRelies
<1>4. CASE f \in DOMAIN files /\ F!GoOn(s, "mark")
  <2>1. serving[s].op = "update"
    BY <1>1, ServingType DEF FilesInductive, Shape, Serving, Op
  <2>2. /\ serving' \in [Slot -> Serving]
        /\ \A z \in Slot \ {s} : serving'[z] = serving[z]
        /\ serving'[s].pc = "mark" /\ serving'[s].op = "update" /\ serving'[s].file = f
    BY <1>4, <2>1, GoOnFacts DEF PC
  <2>3. Went(s)
    BY <2>1, <2>2 DEF Went
  <2>4. Relies(s)'
    <3> SUFFICES ASSUME f \notin losing
                 PROVE  /\ \A v \in DOMAIN history : RowOf(v, f) => history[v].name # "front"
                        /\ Holds(f, files[f].text)
      BY <1>1, <2>2 DEF Relies, RowOf, Holds
    <3>1. Relies(s) /\ f \in F!File
      BY ServingType DEF FilesInductive, Serving
    <3>2. ~F!Contains(files[f].name) /\ Holds(f, files[f].text)
      BY <1>1, <1>4, <3>1 DEF Relies
    <3>3. FileKept(f)
      BY <3>1 DEF FilesInductive
    <3> QED
      BY <1>4, <3>2, <3>3 DEF FileKept, F!Contains
  <2> QED
    BY <1>1, <1>2, <2>3, <2>4, StillTables
<1> QED
  BY <1>1, <1>3, <1>4

\* IsExistFileLatest finds the one latest version of an update's file, or there
\* is none; a rollback finds one, and the current text is kept, or goes on to
\* keep it.
LEMMA IsExistFileLatestStep ==
    ASSUME FilesInductive, NEW s \in Slot, F!IsExistFileLatest(s)
    PROVE  FilesInductive'
<1>0. PICK f \in F!File : f = serving[s].file
  BY ServingType DEF FilesInductive, Serving
<1> DEFINE L == F!LatestOf(f)
<1>1. /\ serving[s].pc = "mark" /\ UNCHANGED <<saved, files, kept, history, past, served>>
      /\ \/ /\ serving[s].op = "update" /\ losing' = losing /\ L = {}
            /\ F!GoOn(s, "write")
         \/ /\ serving[s].op = "update" /\ losing' = losing /\ L # {}
            /\ serving' = [serving EXCEPT ![s].version = F!Newest(L), ![s].pc = "rename"]
         \/ /\ serving[s].op = "update" /\ losing' = losing \cup {f}
            /\ F!GoOn(s, "write")
         \/ /\ serving[s].op = "rollback" /\ losing' = losing
            /\ F!GoOn(s, F!SaveLatest(f))
  BY <1>0 DEF F!IsExistFileLatest
<1>2. losing \subseteq losing' /\ losing' \subseteq F!File
  BY <1>1 DEF FilesInductive, F!TypeOK
<1>3. /\ FileKept(f) /\ Relies(s) /\ serving \in [Slot -> Serving] /\ L' = L
      /\ Holds(f, files[f].text)' <=> Holds(f, files[f].text)
  BY <1>1, ServingType DEF FilesInductive, Holds, F!LatestOf, F!VersionsOf
<1>4. f \notin losing /\ f \in DOMAIN files /\ serving[s].op = "update" => Holds(f, files[f].text)
  BY <1>0, <1>1, <1>3 DEF Relies
<1>5. f \notin losing /\ serving[s].op = "update" =>
         \A v \in DOMAIN history : history[v].file = f => history[v].name # "front"
  BY <1>0, <1>1, <1>3 DEF Relies, RowOf
<1>6. CASE serving[s].op = "update" /\ (L = {} \/ f \in losing') /\ F!GoOn(s, "write")
  <2>1. /\ serving' \in [Slot -> Serving]
        /\ \A z \in Slot \ {s} : serving'[z] = serving[z]
        /\ serving'[s].pc = "write" /\ serving'[s].op = "update" /\ serving'[s].file = f
    BY <1>0, <1>6, GoOnFacts DEF PC
  <2>2. Went(s)
    BY <1>0, <1>6, <2>1 DEF Went
  <2>3. Relies(s)'
    BY <1>1, <1>2, <1>3, <1>4, <1>5, <1>6, <2>1, ReliesNext
  <2> QED
    BY <1>1, <1>2, <2>2, <2>3, StillTables
<1>7. CASE /\ serving[s].op = "update" /\ losing' = losing /\ L # {}
           /\ serving' = [serving EXCEPT ![s].version = F!Newest(L), ![s].pc = "rename"]
  <2> DEFINE q == [serving[s] EXCEPT !.version = F!Newest(L), !.pc = "rename"]
  <2>1. kept \in Nat /\ L \subseteq 1 .. kept
    BY FilesAssumption DEF FilesInductive, F!TypeOK, F!LatestOf, F!VersionsOf
  <2>2. F!Newest(L) \in L
    BY <1>7, <2>1, NewestIsOne
  <2>3. F!Newest(L) \in F!Version
    BY <2>1, <2>2, FilesAssumption DEF FilesInductive, F!TypeOK, F!Version
  <2>4. q \in Serving /\ serving[s] \in Serving
    BY <1>3, <2>3 DEF Serving, PC
  <2>5. q.pc = "rename" /\ q.op = "update" /\ q.file = f /\ q.version = F!Newest(L)
    BY <1>0, <1>7, <2>4 DEF Serving
  <2>6. serving' = [serving EXCEPT ![s] = q]
    BY <1>3, <1>7
  <2> HIDE DEF q
  <2>7. /\ serving' \in [Slot -> Serving] /\ serving'[s] = q
        /\ \A z \in Slot \ {s} : serving'[z] = serving[z]
    BY <1>3, <2>4, <2>6
  <2>8. Went(s)
    BY <1>0, <1>7, <2>5, <2>7 DEF Went
  <2>9. f \notin losing => L \subseteq {q.version}
    BY <1>3, <2>2, <2>5 DEF FileKept
  <2>10. Relies(s)'
    BY <1>1, <1>2, <1>3, <1>4, <1>5, <1>7, <2>5, <2>7, <2>9, ReliesNext
  <2> QED
    BY <1>1, <1>2, <2>8, <2>10, StillTables
<1>8. CASE serving[s].op = "rollback" /\ losing' = losing /\ F!GoOn(s, F!SaveLatest(f))
  <2>1. PICK pc \in {"read", "write"} : pc = F!SaveLatest(f)
    BY DEF F!SaveLatest
  <2>2. pc = "read" <=> L = {}
    BY <2>1 DEF F!SaveLatest
  <2>3. /\ serving' \in [Slot -> Serving]
        /\ \A z \in Slot \ {s} : serving'[z] = serving[z]
        /\ serving'[s].pc = pc /\ serving'[s].op = "rollback" /\ serving'[s].file = f
    BY <1>0, <1>8, <2>1, GoOnFacts DEF PC
  <2>4. Went(s)
    BY <1>0, <1>8, <2>3 DEF Went
  <2>5. f \notin losing /\ f \in DOMAIN files /\ L # {} => Holds(f, files[f].text)
    BY <1>3 DEF FileKept
  <2>6. Relies(s)'
    BY <1>1, <1>2, <1>3, <1>8, <2>2, <2>3, <2>5, ReliesNext
  <2> QED
    BY <1>1, <1>2, <2>4, <2>6, StillTables
<1> QED
  BY <1>1, <1>6, <1>7, <1>8

\* UpdateLastFile unmarks the one latest version.
LEMMA UpdateLastFileStep ==
    ASSUME FilesInductive, NEW s \in Slot, F!UpdateLastFile(s)
    PROVE  FilesInductive'
<1>0. PICK f \in F!File : f = serving[s].file
  BY ServingType DEF FilesInductive, Serving
<1> DEFINE v == serving[s].version
           stays == v \in DOMAIN history /\ F!FirstPart(history[v].name) = "empty"
<1>1. /\ serving[s].pc = "rename" /\ F!GoOn(s, "write")
      /\ UNCHANGED <<saved, files, kept, past, served>>
      /\ history' = IF v \notin DOMAIN history \/ stays THEN history
                    ELSE [history EXCEPT ![v].name = F!FirstPart(@)]
      /\ losing' = IF stays THEN losing \cup {f} ELSE losing
  BY <1>0 DEF F!UpdateLastFile
<1>a. losing \subseteq losing' /\ losing' \subseteq F!File
  BY <1>1 DEF FilesInductive, F!TypeOK
<1>2. serving[s].op = "update"
  BY <1>1, ServingType DEF FilesInductive, Shape, Serving, Op
<1>3. /\ serving' \in [Slot -> Serving]
      /\ \A z \in Slot \ {s} : serving'[z] = serving[z]
      /\ serving'[s].pc = "write" /\ serving'[s].op = "update" /\ serving'[s].file = f
  BY <1>0, <1>1, <1>2, GoOnFacts DEF PC
<1>4. Went(s)
  BY <1>0, <1>2, <1>3 DEF Went
<1>5. \A u \in DOMAIN history : history[u] \in F!Row
  BY DEF FilesInductive, F!TypeOK
<1>6. DOMAIN history' = DOMAIN history
  BY <1>1
<1>7. \A u \in DOMAIN history :
         /\ history'[u].file = history[u].file /\ history'[u].text = history[u].text
         /\ history'[u].name = IF u = v /\ ~stays THEN F!FirstPart(history[u].name)
                               ELSE history[u].name
         /\ history'[u] \in F!Row
  BY <1>1, <1>5 DEF F!Row, F!FirstPart, F!Name
<1>8. F!TypeOK'
  BY <1>1, <1>a, <1>3, <1>6, <1>7 DEF FilesInductive, F!TypeOK, Serving, Op, PC
<1>9. Shape' /\ Sole' /\ Fresh'
  BY <1>1, <1>a, <1>4, <1>6, <1>7, WentShape DEF FilesInductive, Fresh
<1>10. \A u \in DOMAIN history :
          history'[u].name = history[u].name \/ history'[u].name = "plain"
  BY <1>5, <1>7 DEF F!FirstPart, F!Row, F!Name
<1>11. \A g \in F!File : Worn(g)
  BY <1>1, <1>a, <1>6, <1>7, <1>10 DEF Worn
<1>12. Relies(s)'
  <2> SUFFICES ASSUME f \notin losing, ~stays
               PROVE  /\ F!LatestOf(f)' = {}
                      /\ \A u \in DOMAIN history' : history'[u].file = f => history'[u].name # "front"
                      /\ f \in DOMAIN files => Holds(f, files[f].text)'
    BY <1>1, <1>3, ReliesNext
  <2>1. Relies(s)
    BY DEF FilesInductive
  <2>2. /\ \A u \in DOMAIN history : history[u].file = f => history[u].name # "front"
        /\ F!LatestOf(f) \subseteq {v}
        /\ f \in DOMAIN files => Holds(f, files[f].text)
    BY <1>0, <1>1, <1>2, <2>1 DEF Relies, RowOf
  <2>3. \A u \in DOMAIN history' : history'[u].file = f => history'[u].name # "front"
    BY <1>6, <1>7, <1>10, <2>2
  <2>4. \A u : u \notin F!LatestOf(f)'
    <3> SUFFICES ASSUME NEW u \in DOMAIN history', history'[u].file = f,
                        F!Contains(history'[u].name)
                 PROVE  FALSE
      BY LatestRowsNext
    <3>1. u \in F!LatestOf(f)
      BY <1>6, <1>7, <1>10, LatestRows DEF RowOf, F!Contains
    <3>2. u = v
      BY <2>2, <3>1
    <3> QED
      BY <1>5, <1>6, <1>7, <2>2, <3>2 DEF F!FirstPart, F!Row, F!Name, F!Contains
  <2>5. f \in DOMAIN files => Holds(f, files[f].text)'
    BY <1>1, <1>6, <1>7, <2>2 DEF Holds
  <2> QED
    BY <2>3, <2>4, <2>5
<1> QED
  BY <1>a, <1>3, <1>8, <1>9, <1>11, <1>12, AllWorn DEF FilesInductive

\* SaveVersion keeps what was read, which is what the file holds, and marks it
\* as the latest where there is none.
LEMMA SaveVersionStep ==
    ASSUME FilesInductive, NEW s \in Slot, F!SaveVersion(s)
    PROVE  FilesInductive'
<1>0. PICK f \in F!File : f = serving[s].file
  BY ServingType DEF FilesInductive, Serving
<1> DEFINE q == serving[s]
           new == [file |-> f, name |-> F!KeptName(s), text |-> q.read.text]
           pc == IF q.op = "update" THEN "exist" ELSE "write"
<1>1. /\ q.pc = "keep" /\ kept < MaxVersions /\ kept' = kept + 1
      /\ history' = F!With(history, kept + 1, new) /\ F!GoOn(s, pc)
      /\ losing' = IF q.op = "update" /\ F!Contains(q.read.name) THEN losing \cup {f} ELSE losing
      /\ UNCHANGED <<saved, files, past, served>>
  BY <1>0 DEF F!SaveVersion
<1>2. q \in Serving /\ serving \in [Slot -> Serving] /\ q.op \in {"update", "rollback"}
  BY <1>1, ServingType DEF FilesInductive, Shape, Serving, Op
<1>3. /\ serving' \in [Slot -> Serving] /\ \A z \in Slot \ {s} : serving'[z] = serving[z]
      /\ serving'[s].pc = pc /\ serving'[s].op = q.op /\ serving'[s].file = f
  BY <1>0, <1>1, GoOnFacts DEF PC
<1>4. Went(s)
  BY <1>0, <1>2, <1>3 DEF Went
<1>5. /\ q.read \in F!Content
      /\ F!KeptName(s) = IF q.op = "update" THEN q.read.name ELSE F!WithLatest(q.read.name)
  BY <1>2 DEF Serving, F!KeptName
<1>6. F!KeptName(s) \in F!Name
  BY <1>5 DEF F!Content, F!WithLatest, F!Name
<1>7. /\ new \in F!Row /\ new.file = f /\ new.name = F!KeptName(s) /\ new.text = q.read.text
  BY <1>5, <1>6 DEF F!Content, F!Row
<1> HIDE DEF new
<1>8. kept \in Nat /\ kept + 1 \in F!Version /\ DOMAIN history \subseteq 1 .. kept
  BY <1>1, FilesAssumption DEF FilesInductive, F!TypeOK, F!Version
<1>9. kept + 1 \notin DOMAIN history
  BY <1>8
<1>10. /\ DOMAIN history' = DOMAIN history \cup {kept + 1} /\ history'[kept + 1] = new
       /\ \A u \in DOMAIN history : history'[u] = history[u]
  BY <1>1, <1>9 DEF F!With
<1>11. losing \subseteq losing' /\ losing' \subseteq F!File
  BY <1>1 DEF FilesInductive, F!TypeOK
<1>12. F!TypeOK'
  <2>1. kept' \in 0 .. MaxVersions /\ DOMAIN history' \subseteq 1 .. kept'
    BY <1>1, <1>8, <1>10, FilesAssumption DEF F!Version
  <2>2. \A u \in DOMAIN history' : history'[u] \in F!Row
    BY <1>7, <1>10 DEF FilesInductive, F!TypeOK
  <2> QED
    BY <1>1, <1>3, <1>11, <2>1, <2>2 DEF FilesInductive, F!TypeOK, Serving, Op, PC
<1>13. Shape' /\ Sole' /\ Fresh'
  <2>1. f <= saved
    BY <1>0, <1>2 DEF FilesInductive, Fresh
  <2> QED
    BY <1>1, <1>4, <1>7, <1>10, <1>11, <2>1, WentShape DEF FilesInductive, Fresh
<1>14. \A g \in F!File \ {f} : Worn(g)
  BY <1>1, <1>7, <1>10, <1>11 DEF Worn
<1>15. \A z \in Slot \ {s} : Writes(z) /\ serving[z].file = f => f \in losing'
  BY <1>0, <1>2, <1>11 DEF FilesInductive, Sole, Writes
<1>16. Relies(s) /\ FileKept(f)
  BY DEF FilesInductive
<1>17. f \notin losing' /\ f \in DOMAIN files => q.read = files[f] /\ Holds(f, files[f].text)'
  <2>1. f \notin losing' /\ f \in DOMAIN files => q.read = files[f]
    BY <1>0, <1>1, <1>11, <1>16 DEF Relies
  <2> QED
    BY <1>1, <1>7, <1>10, <2>1 DEF Holds
<1>18. f \notin losing' /\ q.op = "update" => ~F!Contains(q.read.name) /\ ~F!Contains(new.name)
  BY <1>1, <1>5, <1>7
<1>19. f \notin losing' /\ q.op = "rollback" => F!LatestOf(f) = {}
  BY <1>0, <1>1, <1>11, <1>16 DEF Relies
<1>20. FileKept(f)'
  <2> SUFFICES ASSUME f \notin losing'
               PROVE  /\ f \in DOMAIN files =>
                           /\ \A text \in past[f] : text = files[f].text \/ Holds(f, text)'
                           /\ Holds(f, files[f].text)'
                           /\ \A v \in DOMAIN history' :
                                 history'[v].file = f /\ history'[v].name = "front"
                                    => files[f].name = "front"
                      /\ \A u, v \in F!LatestOf(f)' : u = v
    BY <1>1 DEF FileKept, RowOf
  <2>1. \A text : Holds(f, text) => Holds(f, text)'
    BY <1>10 DEF Holds
  <2>2. f \in DOMAIN files => \A text \in past[f] : text = files[f].text \/ Holds(f, text)'
    BY <1>11, <1>16, <2>1 DEF FileKept
  <2>3. ASSUME f \in DOMAIN files, NEW v \in DOMAIN history', history'[v].file = f,
               history'[v].name = "front"
        PROVE  files[f].name = "front"
    <3>1. CASE v = kept + 1
      <4>1. F!KeptName(s) = "front"
        BY <1>7, <1>10, <2>3, <3>1
      <4>2. q.read.name = "front"
        BY <1>5, <4>1 DEF F!WithLatest, F!Content, F!Name
      <4> QED
        BY <1>17, <2>3, <4>2
    <3>2. CASE v # kept + 1
      BY <1>10, <1>11, <1>16, <2>3, <3>2 DEF FileKept, RowOf
    <3> QED
      BY <3>1, <3>2
  <2>4. F!LatestOf(f)' \subseteq F!LatestOf(f) \cup (IF F!Contains(new.name) THEN {kept + 1} ELSE {})
    BY <1>7, <1>10, LatestRows, LatestRowsNext DEF RowOf
  <2>5. \A u, v \in F!LatestOf(f)' : u = v
    <3>1. CASE q.op = "update"
      BY <1>11, <1>16, <1>18, <2>4, <3>1 DEF FileKept
    <3>2. CASE q.op = "rollback"
      BY <1>19, <2>4, <3>2
    <3> QED
      BY <1>2, <3>1, <3>2
  <2> QED
    BY <1>17, <2>2, <2>3, <2>5
<1>21. Relies(s)'
  BY <1>1, <1>2, <1>3, <1>17, <1>18, ReliesNext
<1> QED
  BY <1>3, <1>12, <1>13, <1>14, <1>15, <1>20, <1>21, OthersWorn DEF FilesInductive

\* UpdateFile changes a file whose text is kept.
LEMMA UpdateFileStep ==
    ASSUME FilesInductive, NEW s \in Slot, F!UpdateFile(s)
    PROVE  FilesInductive'
<1>0. PICK f \in F!File : f = serving[s].file
  BY ServingType DEF FilesInductive, Serving
<1> DEFINE q == serving[s]
           text == IF q.form.text = Empty THEN files[f].text ELSE q.form.text
           name == IF q.op = "rollback" \/ q.form.name = "empty" THEN files[f].name
                   ELSE q.form.name
           foreign == /\ q.op = "rollback" /\ q.form.text # Empty
                      /\ \A v \in F!VersionsOf(f) : history[v].text # q.form.text
<1>1. /\ q.pc = "write" /\ F!Answer(s) /\ UNCHANGED <<saved, kept, history, served>>
      /\ \/ /\ f \in DOMAIN files
            /\ files' = [files EXCEPT ![f] = [name |-> name, text |-> text]]
            /\ past' = [past EXCEPT ![f] = @ \cup {text}]
            /\ losing' = IF foreign THEN losing \cup {f} ELSE losing
         \/ UNCHANGED <<files, past, losing>>
  BY <1>0 DEF F!UpdateFile
<1>2. Went(s) /\ serving'[s].pc = "idle" /\ Relies(s)'
  BY <1>1, AnswerFacts, DoneRelies
<1>3. losing \subseteq losing' /\ losing' \subseteq F!File
  BY <1>1 DEF FilesInductive, F!TypeOK
<1>4. CASE UNCHANGED <<files, past, losing>>
  BY <1>1, <1>2, <1>3, <1>4, StillTables
<1>5. ASSUME f \in DOMAIN files,
             files' = [files EXCEPT ![f] = [name |-> name, text |-> text]],
             past' = [past EXCEPT ![f] = @ \cup {text}],
             losing' = IF foreign THEN losing \cup {f} ELSE losing
      PROVE  FilesInductive'
  <2>1. q \in Serving /\ q.op \in {"update", "rollback"}
    BY <1>1, ServingType DEF FilesInductive, Shape, Serving, Op
  <2>2. /\ files[f] \in [name : F!Name, text : Text] /\ q.form \in F!Content
        /\ past[f] \in SUBSET Text /\ past \in [F!File -> SUBSET Text]
    BY <1>5, <2>1 DEF FilesInductive, F!TypeOK, Serving
  <2>3. text \in Text /\ name \in F!Name
    BY <2>2 DEF F!Content
  <2>4. /\ DOMAIN files' = DOMAIN files /\ files'[f].name = name /\ files'[f].text = text
        /\ files'[f] \in [name : F!Name, text : Text]
        /\ \A g \in DOMAIN files \ {f} : files'[g] = files[g]
        /\ past'[f] = past[f] \cup {text} /\ \A g \in F!File \ {f} : past'[g] = past[g]
        /\ past' \in [F!File -> SUBSET Text]
    BY <1>5, <2>2, <2>3
  <2>5. F!TypeOK'
    BY <1>1, <1>2, <1>3, <2>4 DEF FilesInductive, F!TypeOK, Went, Serving, Op, PC
  <2>6. Shape' /\ Sole' /\ Fresh'
    BY <1>1, <1>2, <1>3, WentShape DEF FilesInductive, Fresh
  <2>7. \A g \in F!File \ {f} : Worn(g)
    BY <1>1, <1>3, <2>4 DEF Worn
  <2>8. \A z \in Slot \ {s} : Writes(z) /\ serving[z].file = f => f \in losing'
    BY <1>0, <1>3, <2>1 DEF FilesInductive, Sole, Writes
  <2>9. FileKept(f)'
    <3> HIDE DEF text, name
    <3> SUFFICES ASSUME f \notin losing'
                 PROVE  /\ \A t \in past'[f] : t = text \/ Holds(f, t)
                        /\ F!LatestOf(f) # {} => Holds(f, text)
                        /\ \A v \in DOMAIN history : RowOf(v, f) /\ history[v].name = "front"
                              => name = "front"
                        /\ \A u, v \in F!LatestOf(f) : u = v
      <4>1. F!LatestOf(f)' = F!LatestOf(f) /\ \A t : Holds(f, t)' <=> Holds(f, t)
        BY <1>1 DEF F!LatestOf, F!VersionsOf, Holds
      <4>2. Holds(f, files[f].text)' <=> Holds(f, text)
        BY <1>1, <2>4 DEF Holds
      <4> QED
        BY <1>1, <2>4, <4>1, <4>2 DEF FileKept, RowOf
    <3>1. f \notin losing /\ ~foreign
      BY <1>3, <1>5
    <3>2. Relies(s) /\ FileKept(f)
      BY DEF FilesInductive
    <3>3. Holds(f, files[f].text)
      BY <1>0, <1>1, <1>5, <3>1, <3>2 DEF Relies
    <3>4. \A t \in past[f] : Holds(f, t)
      BY <1>5, <3>1, <3>2, <3>3 DEF FileKept
    <3>5. \A t \in past'[f] : t = text \/ Holds(f, t)
      BY <2>4, <3>4
    <3>6. ASSUME F!LatestOf(f) # {} PROVE Holds(f, text)
      <4>1. q.op = "rollback"
        BY <1>0, <1>1, <2>1, <3>1, <3>2, <3>6 DEF Relies
      <4>2. CASE q.form.text = Empty
        BY <3>3, <4>2 DEF text
      <4>3. CASE q.form.text # Empty
        BY <3>1, <4>1, <4>3 DEF text, F!VersionsOf, Holds
      <4> QED
        BY <4>2, <4>3
    <3>7. \A v \in DOMAIN history : RowOf(v, f) /\ history[v].name = "front" => name = "front"
      <4>1. CASE q.op = "update"
        BY <1>0, <1>1, <3>1, <3>2, <4>1 DEF Relies
      <4>2. CASE q.op = "rollback"
        BY <1>5, <3>1, <3>2, <4>2 DEF FileKept, name
      <4> QED
        BY <2>1, <4>1, <4>2
    <3>8. \A u, v \in F!LatestOf(f) : u = v
      BY <3>1, <3>2 DEF FileKept
    <3> QED
      BY <3>5, <3>6, <3>7, <3>8
  <2> QED
    BY <1>2, <2>5, <2>6, <2>7, <2>8, <2>9, OthersWorn DEF FilesInductive, Went
<1> QED
  BY <1>1, <1>4, <1>5

\* SaveToDatabase saves a file nothing is known of.
LEMMA SaveToDatabaseStep ==
    ASSUME FilesInductive, NEW name \in FormName \ {"empty"}, NEW text \in Text,
           F!SaveToDatabase(name, text)
    PROVE  FilesInductive'
<1> DEFINE new == [name |-> name, text |-> text]
<1>1. /\ saved < MaxFiles /\ served < MaxServed /\ served' = served + 1 /\ saved' = saved + 1
      /\ files' = F!With(files, saved + 1, new) /\ past' = [past EXCEPT ![saved + 1] = {text}]
      /\ UNCHANGED <<kept, history, serving, losing>>
  BY DEF F!SaveToDatabase
<1>2. /\ saved \in Nat /\ served \in Nat /\ saved + 1 \in F!File
      /\ DOMAIN files \subseteq 1 .. saved
  BY <1>1, FilesAssumption DEF FilesInductive, F!TypeOK, F!File
<1>3. saved + 1 \notin DOMAIN files
  BY <1>2
<1>4. /\ DOMAIN files' = DOMAIN files \cup {saved + 1} /\ files'[saved + 1] = new
      /\ \A g \in DOMAIN files : files'[g] = files[g]
  BY <1>1, <1>3 DEF F!With
<1>5. /\ past' \in [F!File -> SUBSET Text] /\ past'[saved + 1] = {text}
      /\ \A g \in F!File \ {saved + 1} : past'[g] = past[g]
  BY <1>1, <1>2 DEF FilesInductive, F!TypeOK
<1>6. F!TypeOK'
  <2>1. saved' \in 0 .. MaxFiles /\ served' \in 0 .. MaxServed /\ DOMAIN files' \subseteq 1 .. saved'
    BY <1>1, <1>2, <1>4, FilesAssumption DEF F!File
  <2>2. \A g \in DOMAIN files' : files'[g] \in [name : F!Name, text : Text]
    <3>1. name \in F!Name
      BY FilesAssumption DEF F!Name
    <3>2. new \in [name : F!Name, text : Text]
      BY <3>1
    <3>3. \A g \in DOMAIN files : files[g] \in [name : F!Name, text : Text]
      BY DEF FilesInductive, F!TypeOK
    <3> HIDE DEF new
    <3>4. QED
      BY <1>4, <3>2, <3>3
  <2> QED
    BY <1>1, <1>5, <2>1, <2>2 DEF FilesInductive, F!TypeOK
<1>7. Shape' /\ Sole'
  BY <1>1 DEF FilesInductive, Shape, Sole, Writes
<1>8. Fresh'
  <2>1. \A z \in Slot : serving[z].file \in Nat
    BY ServingType DEF FilesInductive, Serving, F!File
  <2>2. \A v \in DOMAIN history : history[v].file \in Nat
    BY DEF FilesInductive, F!TypeOK, F!Row, F!File
  <2> QED
    BY <1>1, <1>2, <2>1, <2>2 DEF FilesInductive, Fresh
<1>9. \A g \in F!File \ {saved + 1} : Worn(g)
  BY <1>1, <1>4, <1>5 DEF Worn
<1>10. \A g \in F!File \ {saved + 1} : FileKept(g)'
  BY <1>9, WornKept DEF FilesInductive
<1>11. PICK f \in F!File : f = saved + 1
  BY <1>2
<1>12. \A v \in DOMAIN history : history[v].file # f
  BY <1>2, <1>11 DEF FilesInductive, Fresh
<1>13. FileKept(f)'
  <2>1. F!LatestOf(f)' = {}
    BY <1>1, <1>12, LatestRowsNext
  <2> QED
    BY <1>1, <1>4, <1>5, <1>11, <1>12, <2>1 DEF FileKept, RowOf
<1>14. ASSUME NEW z \in Slot PROVE Relies(z)'
  <2>1. CASE serving[z].op = "none"
    BY <1>1, <2>1, DoneRelies DEF FilesInductive, Shape
  <2>2. CASE serving[z].op # "none"
    <3>1. serving[z].file \in F!File /\ serving[z].file # saved + 1
      BY <1>2, <2>2, ServingType DEF FilesInductive, Serving, Fresh, F!File
    <3> QED
      BY <1>1, <1>9, <3>1, WornRelies DEF FilesInductive
  <2> QED
    BY <2>1, <2>2
<1> QED
  BY <1>6, <1>7, <1>8, <1>10, <1>11, <1>13, <1>14 DEF FilesInductive

------------------------------------------------------------------------------
(***************************************************************************)
(* The service, and all four together.                                     *)
(***************************************************************************)

\* Nothing is saved at first.
LEMMA FilesBegin == F!Init => FilesInductive
<1> SUFFICES ASSUME F!Init PROVE FilesInductive
  OBVIOUS
<1>1. /\ saved = 0 /\ files = << >> /\ kept = 0 /\ history = << >> /\ served = 0 /\ losing = {}
      /\ past = [f \in F!File |-> {}] /\ serving = [s \in Slot |-> F!Idle]
  BY DEF F!Init
<1>2. DOMAIN files = {} /\ DOMAIN history = {}
  BY <1>1
<1>3. serving \in [Slot -> Serving] /\ \A s \in Slot : serving[s].op = "none" /\ serving[s].pc = "idle"
  BY <1>1, IdleServing DEF F!Idle
<1>4. F!TypeOK
  BY <1>1, <1>2, <1>3, FilesAssumption DEF F!TypeOK, Serving, Op, PC
<1>5. Shape /\ Fresh /\ Sole
  BY <1>2, <1>3 DEF Shape, Fresh, Sole, Writes
<1>6. \A f \in F!File : FileKept(f)
  BY <1>2, LatestRows DEF FileKept, RowOf
<1>7. \A s \in Slot : Relies(s)
  BY <1>3 DEF Relies
<1> QED
  BY <1>4, <1>5, <1>6, <1>7 DEF FilesInductive

\* A step of the service of files, or of another one.
LEMMA FilesStep == FilesInductive /\ [F!Next]_fileVars => FilesInductive'
<1> SUFFICES ASSUME FilesInductive, [F!Next]_fileVars PROVE FilesInductive'
  OBVIOUS
<1>1. CASE UNCHANGED fileVars
  <2>1. UNCHANGED <<saved, files, kept, history, past, serving, served, losing>>
    BY <1>1 DEF fileVars
  <2>2. F!TypeOK' /\ Shape' /\ Fresh' /\ Sole'
    BY <2>1 DEF FilesInductive, F!TypeOK, Shape, Fresh, Sole, Writes
  <2>3. \A f \in F!File : Worn(f)
    BY <2>1 DEF Worn
  <2>4. \A f \in F!File : FileKept(f)'
    BY <2>3, WornKept DEF FilesInductive
  <2>5. ASSUME NEW s \in Slot PROVE Relies(s)'
    <3>1. serving[s].file \in F!File
      BY ServingType DEF FilesInductive, Serving
    <3> QED
      BY <2>1, <2>3, <3>1, WornRelies DEF FilesInductive
  <2> QED
    BY <2>2, <2>4, <2>5 DEF FilesInductive
<1>2. ASSUME NEW name \in FormName \ {"empty"}, NEW text \in Text, F!SaveToDatabase(name, text)
      PROVE  FilesInductive'
  BY <1>2, SaveToDatabaseStep
<1>3. ASSUME NEW s \in Slot, NEW f \in F!File, F!Delete(s, f) PROVE FilesInductive'
  BY <1>3, DeleteStep
<1>4. ASSUME NEW s \in Slot, NEW f \in F!File, NEW name \in FormName,
             NEW text \in Text \cup {Empty}, F!Update(s, f, [name |-> name, text |-> text])
      PROVE  FilesInductive'
  BY <1>4, UpdateStep
<1>5. ASSUME NEW s \in Slot, NEW f \in F!File, NEW v \in F!Version, F!LastFileRollBack(s, f, v)
      PROVE  FilesInductive'
  BY <1>5, LastFileRollBackStep
<1>6. ASSUME NEW s \in Slot,
             \/ F!DeleteHistoryFile(s) \/ F!ReadFile(s) \/ F!SaveVersion(s) \/ F!IsExistId(s)
             \/ F!IsExistFileLatest(s) \/ F!UpdateLastFile(s) \/ F!UpdateFile(s) \/ F!Refused(s)
      PROVE  FilesInductive'
  BY <1>6, DeleteHistoryFileStep, ReadFileStep, SaveVersionStep, IsExistIdStep,
     IsExistFileLatestStep, UpdateLastFileStep, UpdateFileStep, RefusedStep
<1> QED
  BY <1>1, <1>2, <1>3, <1>4, <1>5, <1>6 DEF F!Next

\* The files are kept whatever the other services do.
LEMMA FilesAlways == ServicesSpec => []FilesInductive
<1>1. ServicesInit => FilesInductive
  BY FilesBegin DEF ServicesInit
<1>2. FilesInductive /\ [ServicesNext]_allVars => FilesInductive'
  <2>1. ServicesNext => F!Next \/ UNCHANGED fileVars
    BY DEF ServicesNext, CronStep, FileStep, PluginStep, BatchStep
  <2>2. UNCHANGED allVars => UNCHANGED fileVars
    BY DEF allVars
  <2> QED
    BY <2>1, <2>2, FilesStep
<1> QED
  BY <1>1, <1>2, PTL DEF ServicesSpec

\* Every text a configuration file had can be gone back to, through any
\* sequence of updates and rollbacks several of which fail half way, for every
\* file that is not excused (service/file: Update, LastFileRollBack).
THEOREM VersionsAreKept == ServicesSpec => []NoVersionLost
<1>1. FilesInductive => NoVersionLost
  <2> SUFFICES ASSUME FilesInductive, NEW f \in DOMAIN files \ losing, NEW text \in past[f]
               PROVE  text \in {files[f].text} \cup {history[v].text : v \in F!VersionsOf(f)}
    BY DEF NoVersionLost, F!NoVersionLost
  <2>1. f \in F!File
    BY FilesAssumption DEF FilesInductive, F!TypeOK, F!File
  <2>2. text = files[f].text \/ Holds(f, text)
    BY <2>1 DEF FilesInductive, FileKept
  <2> QED
    BY <2>2 DEF Holds, F!VersionsOf
<1> QED
  BY <1>1, FilesAlways, PTL

\* Cardinality as ConfigHistory has it from its own module of finite sets.
LEMMA SameCardinality == ASSUME NEW S PROVE F!Cardinality(S) = Cardinality(S)
BY DEF F!Cardinality, Cardinality

\* And at most one version of such a file is marked as the latest, the one
\* that the next update unmarks (dao: SaveLatestFile, UpdateLastFile).
THEOREM LatestIsOne == ServicesSpec => []AtMostOneLatest
<1>1. ASSUME FilesInductive, NEW f \in F!File, f \notin losing
      PROVE  Cardinality(F!LatestOf(f)) <= 1
  <2>1. \A u, v \in F!LatestOf(f) : u = v
    BY <1>1 DEF FilesInductive, FileKept
  <2>2. CASE F!LatestOf(f) = {}
    <3>1. Cardinality(F!LatestOf(f)) = 0
      BY <2>2, FS_EmptySet
    <3> QED
      BY <3>1
  <2>3. ASSUME NEW v \in F!LatestOf(f) PROVE Cardinality(F!LatestOf(f)) <= 1
    <3>1. F!LatestOf(f) = {v}
      BY <2>1
    <3>2. Cardinality(F!LatestOf(f)) = 1
      BY <3>1, FS_Singleton
    <3> QED
      BY <3>2
  <2> QED
    BY <2>2, <2>3
<1>2. FilesInductive => AtMostOneLatest
  BY <1>1, SameCardinality DEF AtMostOneLatest, F!AtMostOneLatest
<1> QED
  BY <1>2, FilesAlways, PTL

------------------------------------------------------------------------------
(***************************************************************************)
(* Batches.  What a batch lists is a sum over the ids of its machines and  *)
(* what a request still has to read a list made of lists, two recursive    *)
(* definitions of the library: these are the facts about them.             *)
(***************************************************************************)

\* Adding up over no index ...
LEMMA SumOverNone ==
    ASSUME NEW f
    PROVE  B!SumFunctionOnSet(f, {}) = 0
<1> DEFINE Is(it) == it = [s \in SUBSET {} |-> IF s = {} THEN 0
                             ELSE f[CHOOSE x \in s : TRUE] + it[s \ {CHOOSE x \in s : TRUE}]]
           zero == [s \in SUBSET {} |-> 0]
<1>1. Is(zero)
  OBVIOUS
<1>2. B!SumFunctionOnSet(f, {}) = (CHOOSE it : Is(it))[{}]
  BY DEF B!SumFunctionOnSet, B!FoldFunctionOnSet, B!MapThenFoldSet
<1> DEFINE chosen == CHOOSE it : Is(it)
<1>3. Is(chosen)
  <2> HIDE DEF Is
  <2>1. QED
    BY <1>1
<1>4. chosen[{}] = 0
  <2> HIDE DEF chosen
  <2>1. QED
    BY <1>3
<1> QED
  BY <1>2, <1>4

\* ... and over one.
LEMMA SumOverOne ==
    ASSUME NEW f, NEW i, f[i] \in Nat
    PROVE  B!SumFunctionOnSet(f, {i}) = f[i]
<1> DEFINE Sum(it, s) == IF s = {} THEN 0
                         ELSE f[CHOOSE x \in s : TRUE] + it[s \ {CHOOSE x \in s : TRUE}]
           Is(it) == it = [s \in SUBSET {i} |-> Sum(it, s)]
           one == [s \in SUBSET {i} |-> IF s = {} THEN 0 ELSE f[i]]
<1>0. \A s \in SUBSET {i} : s # {} => s = {i}
  OBVIOUS
<1>1. Is(one)
  <2>1. ASSUME NEW s \in SUBSET {i}, s # {}
        PROVE  one[s] = f[CHOOSE x \in s : TRUE] + one[s \ {CHOOSE x \in s : TRUE}]
    <3>1. s = {i}
      BY <2>1
    <3> DEFINE c == CHOOSE x \in s : TRUE
    <3>2. c = i
      BY <3>1
    <3>3. s \ {i} = {} /\ {} \in SUBSET {i}
      BY <3>1
    <3>4. one[s] = f[i] /\ one[{}] = 0
      BY <2>1, <3>3
    <3> HIDE DEF one, c
    <3>5. one[s] = f[c] + one[s \ {c}]
      BY <3>2, <3>3, <3>4
    <3>6. QED
      BY <3>5 DEF c
  <2>2. \A s \in SUBSET {i} : one[s] = Sum(one, s)
    BY <2>1
  <2>3. one = [s \in SUBSET {i} |-> one[s]]
    OBVIOUS
  <2> HIDE DEF one, Sum
  <2>4. QED
    BY <2>2, <2>3
<1>2. B!SumFunctionOnSet(f, {i}) = (CHOOSE it : Is(it))[{i}]
  BY DEF B!SumFunctionOnSet, B!FoldFunctionOnSet, B!MapThenFoldSet
<1> DEFINE chosen == CHOOSE it : Is(it)
<1>3. Is(chosen)
  <2> HIDE DEF Is
  <2>1. QED
    BY <1>1
<1>4. chosen[{i}] = f[i]
  <2> HIDE DEF chosen
  <2>1. (CHOOSE x \in {i} : TRUE) = i /\ {i} \ {i} = {}
    OBVIOUS
  <2>2. chosen[{}] = 0 /\ chosen[{i}] = f[i] + chosen[{}]
    BY <1>3, <2>1
  <2>3. QED
    BY <2>2
<1> QED
  BY <1>2, <1>4

------------------------------------------------------------------------------
\* Lists of departments.

Has(list, x) == \E i \in DOMAIN list : list[i] = x
Distinct(list) == \A i, j \in DOMAIN list : list[i] = list[j] => i = j

\* Lists of departments that are all different.
Apart(lists) ==
    /\ \A n \in DOMAIN lists : Distinct(lists[n])
    /\ \A n, k \in DOMAIN lists : n < k => \A x : ~(Has(lists[n], x) /\ Has(lists[k], x))

\* Two lists in one.
LEMMA Joined ==
    ASSUME NEW S, NEW u \in Seq(S), NEW v \in Seq(S)
    PROVE  /\ u \o v \in Seq(S)
           /\ \A x : Has(u \o v, x) <=> Has(u, x) \/ Has(v, x)
           /\ Distinct(u) /\ Distinct(v) /\ (\A x : ~(Has(u, x) /\ Has(v, x))) => Distinct(u \o v)
<1> DEFINE w == u \o v
<1>1. /\ w \in Seq(S) /\ DOMAIN w = 1 .. Len(u) + Len(v)
      /\ \A i \in 1 .. Len(u) + Len(v) : w[i] = IF i <= Len(u) THEN u[i] ELSE v[i - Len(u)]
      /\ DOMAIN u = 1 .. Len(u) /\ DOMAIN v = 1 .. Len(v) /\ Len(u) \in Nat /\ Len(v) \in Nat
  OBVIOUS
<1> HIDE DEF w
<1>2. ASSUME NEW i \in DOMAIN w
      PROVE  \/ i \in DOMAIN u /\ w[i] = u[i]
             \/ i - Len(u) \in DOMAIN v /\ i \notin DOMAIN u /\ w[i] = v[i - Len(u)]
  BY <1>1
<1>3. \A i \in DOMAIN u : i \in DOMAIN w /\ w[i] = u[i]
  BY <1>1
<1>4. \A i \in DOMAIN v : i + Len(u) \in DOMAIN w /\ w[i + Len(u)] = v[i]
  BY <1>1
<1>5. \A x : Has(w, x) <=> Has(u, x) \/ Has(v, x)
  BY <1>2, <1>3, <1>4 DEF Has
<1>6. ASSUME Distinct(u), Distinct(v), \A x : ~(Has(u, x) /\ Has(v, x)) PROVE Distinct(w)
  <2> SUFFICES ASSUME NEW i \in DOMAIN w, NEW j \in DOMAIN w, w[i] = w[j] PROVE i = j
    BY DEF Distinct
  <2>0. i \in Int /\ j \in Int /\ Len(u) \in Int
    BY <1>1
  <2>1. CASE i \in DOMAIN u /\ j \in DOMAIN u
    BY <1>3, <1>6, <2>1 DEF Distinct
  <2>2. CASE i \notin DOMAIN u /\ j \notin DOMAIN u
    <3>1. i - Len(u) \in DOMAIN v /\ j - Len(u) \in DOMAIN v /\ v[i - Len(u)] = v[j - Len(u)]
      BY <1>2, <2>2
    <3>2. i - Len(u) = j - Len(u)
      BY <1>6, <3>1 DEF Distinct
    <3>3. QED
      BY <2>0, <3>2
  <2>3. CASE i \in DOMAIN u /\ j \notin DOMAIN u
    BY <1>2, <1>6, <2>3 DEF Has
  <2>4. CASE i \notin DOMAIN u /\ j \in DOMAIN u
    BY <1>2, <1>6, <2>4 DEF Has
  <2>5. QED
    BY <2>1, <2>2, <2>3, <2>4
<1>7. QED
  BY <1>1, <1>5, <1>6 DEF w

\* list[k] is the first k of the lists in one.
Flattens(list, lists, n) ==
    \A k \in 1 .. n : list[k] = IF k = 1 THEN lists[k] ELSE list[k - 1] \o lists[k]

\* There are such lists.
LEMMA FlattensExist ==
    ASSUME NEW n \in Nat, NEW lists
    PROVE  \E f : f = [k \in 1 .. n |-> f[k]] /\ Flattens(f, lists, n)
<1> DEFINE Ready(k) == \E f : f = [i \in 1 .. k |-> f[i]] /\ Flattens(f, lists, k)
           Lacks  == {k \in Nat : ~Ready(k)}
<1>1. SUFFICES ASSUME Lacks # {} PROVE FALSE
  OBVIOUS
<1>2. PICK k \in Lacks : \A j \in Lacks : k <= j
  <2>1. Lacks \in SUBSET Nat
    OBVIOUS
  <2> HIDE DEF Lacks
  <2>2. QED
    BY <1>1, <2>1, Least
<1>3. k # 0
  <2> DEFINE f == [i \in 1 .. 0 |-> 0]
  <2>1. f = [i \in 1 .. 0 |-> f[i]]
    OBVIOUS
  <2>2. Flattens(f, lists, 0)
    BY DEF Flattens
  <2>3. QED
    BY <1>2, <2>1, <2>2
<1>4. k - 1 \in Nat /\ k \in Nat /\ Ready(k - 1)
  BY <1>2, <1>3
<1>5. PICK f : f = [i \in 1 .. k - 1 |-> f[i]] /\ Flattens(f, lists, k - 1)
  BY <1>4
<1> DEFINE last == IF k = 1 THEN lists[k] ELSE f[k - 1] \o lists[k]
           g == [i \in 1 .. k |-> IF i = k THEN last ELSE f[i]]
<1>6. g = [i \in 1 .. k |-> g[i]] /\ g[k] = last /\ \A i \in 1 .. k - 1 : g[i] = f[i]
  <2> HIDE DEF last
  <2>1. QED
    BY <1>3, <1>4
<1> HIDE DEF g
<1>7. Flattens(g, lists, k)
  <2>1. ASSUME NEW i \in 1 .. k - 1
        PROVE  g[i] = IF i = 1 THEN lists[i] ELSE g[i - 1] \o lists[i]
    <3>1. i # 1 => i - 1 \in 1 .. k - 1
      BY <1>4
    <3>2. g[i] = f[i] /\ (i # 1 => g[i - 1] = f[i - 1])
      BY <1>6, <3>1
    <3>3. f[i] = IF i = 1 THEN lists[i] ELSE f[i - 1] \o lists[i]
      BY <1>5 DEF Flattens
    <3>4. QED
      BY <3>2, <3>3
  <2>2. g[k] = IF k = 1 THEN lists[k] ELSE g[k - 1] \o lists[k]
    <3>0. k # 1 => k - 1 \in 1 .. k - 1
      BY <1>3, <1>4
    <3>1. k # 1 => g[k - 1] = f[k - 1]
      BY <1>6, <3>0
    <3>2. QED
      BY <1>6, <3>1
  <2>3. \A i \in 1 .. k : i \in 1 .. k - 1 \/ i = k
    BY <1>4
  <2>4. QED
    BY <2>1, <2>2, <2>3 DEF Flattens
<1>8. Ready(k)
  BY <1>6, <1>7
<1> QED
  BY <1>2, <1>8

\* What such lists have.
LEMMA FlattensHas ==
    ASSUME NEW S, NEW n \in Nat, NEW lists \in [1 .. n -> Seq(S)], NEW f, Flattens(f, lists, n)
    PROVE  \A k \in 1 .. n :
              /\ f[k] \in Seq(S)
              /\ \A x : Has(f[k], x) <=> \E i \in 1 .. k : Has(lists[i], x)
              /\ Apart(lists) => Distinct(f[k])
<1> DEFINE Good(k) == /\ f[k] \in Seq(S)
                      /\ \A x : Has(f[k], x) <=> \E i \in 1 .. k : Has(lists[i], x)
                      /\ Apart(lists) => Distinct(f[k])
           Bad == {k \in 1 .. n : ~Good(k)}
<1>1. SUFFICES ASSUME Bad # {} PROVE FALSE
  OBVIOUS
<1>2. PICK k \in Bad : \A j \in Bad : k <= j
  <2>1. Bad \in SUBSET Nat
    OBVIOUS
  <2> HIDE DEF Bad
  <2>2. QED
    BY <1>1, <2>1, Least
<1>3. k \in 1 .. n /\ f[k] = IF k = 1 THEN lists[k] ELSE f[k - 1] \o lists[k]
  BY <1>2 DEF Flattens
<1>4. CASE k = 1
  <2>1. f[k] = lists[k] /\ lists[k] \in Seq(S)
    BY <1>3, <1>4
  <2>2. \A x : Has(f[k], x) <=> \E i \in 1 .. k : Has(lists[i], x)
    BY <1>4, <2>1
  <2>3. Apart(lists) => Distinct(f[k])
    BY <1>3, <2>1 DEF Apart
  <2>4. QED
    BY <1>2, <2>1, <2>2, <2>3
<1>5. CASE k # 1
  <2>1. k - 1 \in 1 .. n /\ k \in Nat
    BY <1>3, <1>5
  <2>2. Good(k - 1)
    <3>1. k - 1 \notin Bad
      <4>1. ~(k <= k - 1)
        BY <2>1
      <4> HIDE DEF Bad
      <4>2. QED
        BY <1>2, <4>1
    <3>2. QED
      BY <2>1, <3>1
  <2>3. f[k] = f[k - 1] \o lists[k] /\ f[k - 1] \in Seq(S) /\ lists[k] \in Seq(S)
    BY <1>3, <1>5, <2>2
  <2>4. f[k] \in Seq(S) /\ \A x : Has(f[k], x) <=> Has(f[k - 1], x) \/ Has(lists[k], x)
    BY <2>3, Joined
  <2>5. \A x : Has(f[k], x) <=> \E i \in 1 .. k : Has(lists[i], x)
    <3>1. \A i : i \in 1 .. k <=> i \in 1 .. k - 1 \/ i = k
      BY <1>3, <2>1
    <3>2. \A x : Has(f[k - 1], x) <=> \E i \in 1 .. k - 1 : Has(lists[i], x)
      BY <2>2
    <3>3. QED
      BY <2>4, <3>1, <3>2
  <2>6. ASSUME Apart(lists) PROVE Distinct(f[k])
    <3>1. Distinct(f[k - 1]) /\ Distinct(lists[k])
      BY <1>3, <2>2, <2>6 DEF Apart
    <3>2. \A x : ~(Has(f[k - 1], x) /\ Has(lists[k], x))
      <4>1. \A i \in 1 .. k - 1 : i \in DOMAIN lists /\ k \in DOMAIN lists /\ i < k
        BY <1>3, <2>1
      <4>2. \A x : Has(f[k - 1], x) => \E i \in 1 .. k - 1 : Has(lists[i], x)
        BY <2>2
      <4>3. QED
        BY <2>6, <4>1, <4>2 DEF Apart
    <3>3. QED
      BY <2>3, <3>1, <3>2, Joined
  <2>7. QED
    BY <1>2, <2>4, <2>5, <2>6
<1> QED
  BY <1>4, <1>5

\* So FlattenSeq puts the lists together.
LEMMA Flattened ==
    ASSUME NEW S, NEW n \in Nat \ {0}, NEW lists \in [1 .. n -> Seq(S)]
    PROVE  /\ B!FlattenSeq(lists) \in Seq(S)
           /\ \A x : Has(B!FlattenSeq(lists), x) <=> \E i \in 1 .. n : Has(lists[i], x)
           /\ Apart(lists) => Distinct(B!FlattenSeq(lists))
<1> DEFINE Is(f) == f = [k \in 1 .. n |-> IF k = 1 THEN lists[k] ELSE f[k - 1] \o lists[k]]
           chosen == CHOOSE f : Is(f)
<1>1. Len(lists) = n
  OBVIOUS
<1>2. B!FlattenSeq(lists) = chosen[n]
  BY <1>1 DEF B!FlattenSeq
<1>3. \E f : Is(f)
  <2>1. PICK f : f = [k \in 1 .. n |-> f[k]] /\ Flattens(f, lists, n)
    BY FlattensExist
  <2>2. \A k \in 1 .. n : f[k] = IF k = 1 THEN lists[k] ELSE f[k - 1] \o lists[k]
    BY <2>1 DEF Flattens
  <2>3. Is(f)
    BY <2>1, <2>2
  <2>4. QED
    BY <2>3
<1>4. Is(chosen)
  <2> HIDE DEF Is
  <2>1. QED
    BY <1>3
<1> HIDE DEF chosen
<1>5. Flattens(chosen, lists, n)
  BY <1>4 DEF Flattens
<1>6. n \in 1 .. n /\ n \in Nat
  OBVIOUS
<1>7. \A k \in 1 .. n :
         /\ chosen[k] \in Seq(S)
         /\ \A x : Has(chosen[k], x) <=> \E i \in 1 .. k : Has(lists[i], x)
         /\ Apart(lists) => Distinct(chosen[k])
  BY <1>5, <1>6, FlattensHas
<1> QED
  BY <1>2, <1>6, <1>7

------------------------------------------------------------------------------
(***************************************************************************)
(* The inductive invariant of the batches.                                 *)
(***************************************************************************)

Making  == [departs : Seq(Department), list : [B!Id -> Nat], open : BOOLEAN,
            cover : SUBSET Department, nested : BOOLEAN,
            stayed : SUBSET B!Id, seen : SUBSET B!Id]
Listing == [list : [B!Id -> Nat], stayed : SUBSET B!Id, seen : SUBSET B!Id, nested : BOOLEAN]

\* Machine m, that has been in one of the departments all the time, was read
\* or will be; not both, unless the departments lie in one another.
Owed(m) ==
    LET times == making.list[member[m].id]
    IN  member[m].id \in making.stayed =>
           /\ times = 0 => Has(making.departs, member[m].dept)
           /\ ~making.nested => /\ times <= 1
                                /\ times = 1 => ~Has(making.departs, member[m].dept)

\* A batch lists those that stayed, and nothing that was never there.
Complete(b) ==
    /\ \A i \in b.stayed : b.list[i] >= 1 /\ (~b.nested => b.list[i] = 1)
    /\ \A i \in B!Id : b.list[i] > 0 => i \in b.seen

Batching ==
    /\ inserted \in 0 .. MaxRows /\ asked \in 0 .. MaxBatches
    /\ member \in [Machine -> [id : 0 .. inserted, dept : Department]]
    /\ making \in Making /\ batches \subseteq Listing

\* Ids are those of one machine each; what a request has read it has seen.
Reading ==
    /\ \A m, n \in Machine : member[m].id # 0 /\ member[m].id = member[n].id => m = n
    /\ ~making.open => making.departs = << >>
    /\ ~making.nested => Distinct(making.departs)
    /\ \A d : Has(making.departs, d) => d \in making.cover
    /\ \A i \in B!Id : making.list[i] > 0 => i \in making.seen
    /\ \A m \in Machine : member[m].id # 0 /\ member[m].dept \in making.cover
                              => member[m].id \in making.seen
    /\ \A i \in making.stayed : \E m \in Machine : member[m].id = i
    /\ \A m \in Machine : Owed(m)

BatchesInductive == Batching /\ Reading /\ \A b \in batches : Complete(b)

\* The ids of the machines in some departments.
LEMMA InRows ==
    \A D, i : i \in B!In(D) <=> \E m \in Machine : member[m].id = i /\ i # 0 /\ member[m].dept \in D
BY DEF B!In, B!Present

\* An empty list has nothing.
LEMMA HasNothing == \A x : ~Has(<< >>, x)
BY DEF Has

\* What a list has is its head or in its tail.
LEMMA TailHas ==
    ASSUME NEW S, NEW s \in Seq(S), s # << >>
    PROVE  /\ Tail(s) \in Seq(S) /\ Head(s) \in S
           /\ \A x : Has(s, x) <=> x = Head(s) \/ Has(Tail(s), x)
           /\ Distinct(s) => Distinct(Tail(s)) /\ ~Has(Tail(s), Head(s))
<1>1. /\ Tail(s) \in Seq(S) /\ Head(s) = s[1] /\ 1 \in DOMAIN s /\ Head(s) \in S
      /\ \A i \in DOMAIN Tail(s) : i + 1 \in DOMAIN s /\ Tail(s)[i] = s[i + 1]
      /\ \A i \in DOMAIN s : i # 1 => i - 1 \in DOMAIN Tail(s) /\ Tail(s)[i - 1] = s[i]
      /\ \A i \in DOMAIN Tail(s) : i \in Nat /\ i # 0
  OBVIOUS
<1>2. \A x : Has(s, x) <=> x = Head(s) \/ Has(Tail(s), x)
  <2>1. ASSUME NEW x, Has(s, x) PROVE x = Head(s) \/ Has(Tail(s), x)
    BY <1>1, <2>1 DEF Has
  <2>2. ASSUME NEW x, x = Head(s) \/ Has(Tail(s), x) PROVE Has(s, x)
    BY <1>1, <2>2 DEF Has
  <2>3. QED
    BY <2>1, <2>2
<1>3. ASSUME Distinct(s) PROVE Distinct(Tail(s)) /\ ~Has(Tail(s), Head(s))
  <2>1. ASSUME NEW i \in DOMAIN Tail(s), NEW j \in DOMAIN Tail(s), Tail(s)[i] = Tail(s)[j]
        PROVE  i = j
    <3>1. i + 1 = j + 1
      BY <1>1, <1>3, <2>1 DEF Distinct
    <3>2. QED
      BY <1>1, <3>1
  <2>2. ASSUME NEW i \in DOMAIN Tail(s), Tail(s)[i] = Head(s) PROVE FALSE
    <3>1. i + 1 = 1
      BY <1>1, <1>3, <2>2 DEF Distinct
    <3>2. QED
      BY <1>1, <3>1
  <2>3. QED
    BY <2>1, <2>2 DEF Distinct, Has
<1> QED
  BY <1>1, <1>2, <1>3

\* A request that is not there.
LEMMA NothingMaking ==
    /\ B!NoRequest \in Making
    /\ B!NoRequest.departs = << >> /\ B!NoRequest.open = FALSE /\ B!NoRequest.nested = FALSE
    /\ B!NoRequest.cover = {} /\ B!NoRequest.stayed = {} /\ B!NoRequest.list = B!NoList
BY DEF B!NoRequest, B!NoList, Making

\* No machine, no batch.
LEMMA BatchesBegin == B!Init => BatchesInductive
<1> SUFFICES ASSUME B!Init PROVE BatchesInductive
  OBVIOUS
<1>1. /\ inserted = 0 /\ asked = 0 /\ member = [m \in Machine |-> B!NoRow]
      /\ making = B!NoRequest /\ batches = {}
  BY DEF B!Init
<1>2. B!NoRow \in [id : 0 .. 0, dept : Department] /\ B!NoRow.id = 0
  BY BatchesAssumption DEF B!NoRow
<1>3. Batching
  BY <1>1, <1>2, NothingMaking, BatchesAssumption DEF Batching
<1>4. \A i \in B!Id : making.list[i] = 0
  BY <1>1, NothingMaking DEF B!NoList
<1>5. Reading
  BY <1>1, <1>2, <1>4, NothingMaking, HasNothing DEF Reading, Owed, Distinct
<1> QED
  BY <1>1, <1>3, <1>5 DEF BatchesInductive

\* A step that leaves requests alone, or ends one.
LEMMA BatchAdded ==
    ASSUME BatchesInductive, asked' \in 0 .. MaxBatches,
           \A b \in batches' : b \in batches \/ (b \in Listing /\ Complete(b)),
           making' = making \/ making' = B!NoRequest, UNCHANGED <<inserted, member>>
    PROVE  BatchesInductive'
<1>1. Batching'
  BY NothingMaking DEF BatchesInductive, Batching
<1>2. Reading'
  <2>1. CASE making' = making
    BY <2>1 DEF BatchesInductive, Reading, Owed
  <2>2. CASE making' = B!NoRequest
    <3>1. \A i \in B!Id : making'.list[i] = 0
      BY <2>2, NothingMaking DEF B!NoList
    <3>2. QED
      BY <2>2, <3>1, NothingMaking, HasNothing DEF BatchesInductive, Reading, Owed, Distinct
  <2>3. QED
    BY <2>1, <2>2
<1>3. \A b \in batches' : Complete(b)
  BY DEF BatchesInductive
<1> QED
  BY <1>1, <1>2, <1>3 DEF BatchesInductive, Complete

\* The row of machine m becomes r; i is the id it had or has, and a request
\* counts i no longer as one that stayed, but as seen where it is now.
LEMMA MemberChanged ==
    ASSUME BatchesInductive, NEW m \in Machine, NEW i \in B!Id,
           inserted' \in inserted .. MaxRows,
           NEW r \in [id : 0 .. inserted', dept : Department],
           member' = [member EXCEPT ![m] = r],
           member[m].id \in {0, i}, r.id \in {0, i},
           \A n \in Machine : n # m => member[n].id # i,
           making' = IF r.id = i /\ r.dept \in making.cover
                     THEN [making EXCEPT !.stayed = @ \ {i}, !.seen = @ \cup {i}]
                     ELSE [making EXCEPT !.stayed = @ \ {i}],
           UNCHANGED <<asked, batches>>
    PROVE  BatchesInductive'
<1>0. /\ Batching /\ Reading /\ inserted \in Nat /\ inserted' \in Nat /\ inserted <= inserted'
      /\ \A b \in batches : Complete(b)
      /\ i # 0
  BY BatchesAssumption DEF BatchesInductive, Batching, B!Id
<1>1. /\ making' \in Making
      /\ making'.departs = making.departs /\ making'.list = making.list
      /\ making'.open = making.open /\ making'.cover = making.cover /\ making'.nested = making.nested
      /\ making'.stayed = making.stayed \ {i} /\ making.seen \subseteq making'.seen
      /\ r.id = i /\ r.dept \in making.cover => i \in making'.seen
  BY <1>0 DEF Batching, Making
<1>2. /\ member' \in [Machine -> [id : 0 .. inserted', dept : Department]]
      /\ member'[m] = r /\ \A n \in Machine : n # m => member'[n] = member[n]
  <2>1. 0 .. inserted \subseteq 0 .. inserted'
    BY <1>0
  <2>2. \A n \in Machine : member[n] \in [id : 0 .. inserted', dept : Department]
    BY <1>0, <2>1 DEF Batching
  <2>3. member \in [Machine -> [id : 0 .. inserted', dept : Department]]
    BY <1>0, <2>2 DEF Batching
  <2>4. QED
    BY <2>3
<1>3. Batching'
  BY <1>0, <1>1, <1>2 DEF Batching
<1>4. Reading'
  <2>1. ASSUME NEW n \in Machine, NEW k \in Machine, member'[n].id # 0, member'[n].id = member'[k].id
        PROVE  n = k
    BY <1>0, <1>2, <2>1 DEF Reading
  <2>2. ASSUME NEW n \in Machine, member'[n].id # 0, member'[n].dept \in making'.cover
        PROVE  member'[n].id \in making'.seen
    <3>1. CASE n = m
      BY <1>1, <1>2, <2>2, <3>1
    <3>2. CASE n # m
      BY <1>0, <1>1, <1>2, <2>2, <3>2 DEF Reading
    <3>3. QED
      BY <3>1, <3>2
  <2>3. ASSUME NEW j \in making'.stayed PROVE \E n \in Machine : member'[n].id = j
    <3>1. j \in making.stayed /\ j # i /\ j # 0
      BY <1>0, <1>1 DEF Batching, Making, B!Id
    <3>2. PICK n \in Machine : member[n].id = j
      BY <1>0, <3>1 DEF Reading
    <3>3. n # m
      BY <3>1, <3>2
    <3>4. QED
      BY <1>2, <3>2, <3>3
  <2>4. ASSUME NEW n \in Machine, member'[n].id \in making'.stayed
        PROVE  /\ making'.list[member'[n].id] = 0 => Has(making'.departs, member'[n].dept)
               /\ ~making'.nested => /\ making'.list[member'[n].id] <= 1
                                     /\ making'.list[member'[n].id] = 1 => ~Has(making'.departs, member'[n].dept)
    <3>1. member'[n].id \in making.stayed /\ member'[n].id # i /\ member'[n].id # 0
      BY <1>0, <1>1, <2>4 DEF Batching, Making, B!Id
    <3>2. n # m
      BY <1>2, <3>1
    <3>3. Owed(n) /\ member'[n] = member[n]
      BY <1>0, <1>2, <3>2 DEF Reading
    <3>4. QED
      BY <1>1, <3>1, <3>3 DEF Owed
  <2>5. /\ ~making'.open => making'.departs = << >>
        /\ ~making'.nested => Distinct(making'.departs)
        /\ \A d : Has(making'.departs, d) => d \in making'.cover
        /\ \A j \in B!Id : making'.list[j] > 0 => j \in making'.seen
    BY <1>0, <1>1 DEF Reading
  <2>6. QED
    BY <2>1, <2>2, <2>3, <2>4, <2>5 DEF Reading, Owed
<1> QED
  BY <1>0, <1>3, <1>4 DEF BatchesInductive, Complete

\* The steps that change the row of a machine.
LEMMA MembersStep ==
    ASSUME BatchesInductive, NEW m \in Machine,
           B!AddAgent(m) \/ B!DeleteMachine(m) \/ \E d \in Department : B!ModifyMachineDepart(m, d)
    PROVE  BatchesInductive'
<1>0. /\ Batching /\ Reading /\ inserted \in 0 .. MaxRows /\ MaxRows \in Nat
      /\ member \in [Machine -> [id : 0 .. inserted, dept : Department]]
      /\ \A i \in 1 .. inserted : i \in B!Id
  BY BatchesAssumption DEF BatchesInductive, Batching, B!Id
<1>1. CASE B!AddAgent(m)
  <2> DEFINE i == inserted + 1
             r == [id |-> inserted + 1, dept |-> Root]
  <2>1. /\ member[m].id = 0 /\ inserted < MaxRows /\ inserted' = inserted + 1
        /\ member' = [member EXCEPT ![m] = r] /\ making' = B!Comes(inserted + 1, Root)
        /\ UNCHANGED <<asked, batches>>
    BY <1>1 DEF B!AddAgent, B!Present
  <2>2. /\ inserted' \in inserted .. MaxRows /\ i \in B!Id
        /\ r \in [id : 0 .. inserted', dept : Department] /\ r.id = i /\ r.dept = Root
    BY <1>0, <2>1, BatchesAssumption DEF B!Id
  <2>3. \A n \in Machine : member[n].id # i
    BY <1>0
  <2>4. making' = IF r.id = i /\ r.dept \in making.cover
                  THEN [making EXCEPT !.stayed = @ \ {i}, !.seen = @ \cup {i}]
                  ELSE [making EXCEPT !.stayed = @ \ {i}]
    BY <2>1, <2>2 DEF B!Comes, B!Leaves
  <2> HIDE DEF i, r
  <2>5. QED
    BY <2>1, <2>2, <2>3, <2>4, MemberChanged
<1>2. CASE B!DeleteMachine(m)
  <2> DEFINE i == member[m].id
  <2>1. /\ i # 0 /\ member' = [member EXCEPT ![m] = B!NoRow] /\ making' = B!Leaves(i)
        /\ UNCHANGED <<inserted, asked, batches>>
    BY <1>2 DEF B!DeleteMachine, B!Present
  <2>2. /\ inserted' \in inserted .. MaxRows /\ i \in B!Id
        /\ B!NoRow \in [id : 0 .. inserted', dept : Department] /\ B!NoRow.id = 0
    BY <1>0, <2>1, BatchesAssumption DEF B!NoRow
  <2>3. \A n \in Machine : n # m => member[n].id # i
    BY <1>0, <2>1 DEF Reading
  <2>4. making' = [making EXCEPT !.stayed = @ \ {i}]
    BY <2>1 DEF B!Leaves
  <2> HIDE DEF i
  <2>5. member[m].id = i
    BY DEF i
  <2> DEFINE r == B!NoRow
  <2>6. r \in [id : 0 .. inserted', dept : Department] /\ r.id = 0 /\ r.id # i
    BY <2>1, <2>2
  <2>7. member' = [member EXCEPT ![m] = r]
    BY <2>1
  <2> HIDE DEF r
  <2>8. making' = IF r.id = i /\ r.dept \in making.cover
                  THEN [making EXCEPT !.stayed = @ \ {i}, !.seen = @ \cup {i}]
                  ELSE [making EXCEPT !.stayed = @ \ {i}]
    BY <2>4, <2>6
  <2>9. /\ member[m].id \in {0, i} /\ r.id \in {0, i}
        /\ inserted' \in inserted .. MaxRows /\ i \in B!Id
        /\ r \in [id : 0 .. inserted', dept : Department]
        /\ UNCHANGED <<asked, batches>>
    BY <2>1, <2>2, <2>5, <2>6
  <2>10. QED
    BY <2>3, <2>7, <2>8, <2>9, MemberChanged
<1>3. ASSUME NEW d \in Department, B!ModifyMachineDepart(m, d) PROVE BatchesInductive'
  <2> DEFINE i == member[m].id
             r == [member[m] EXCEPT !.dept = d]
  <2>1. /\ i # 0 /\ member' = [member EXCEPT ![m].dept = d] /\ making' = B!Comes(i, d)
        /\ UNCHANGED <<inserted, asked, batches>>
    BY <1>3 DEF B!ModifyMachineDepart, B!Present
  <2>2. /\ inserted' \in inserted .. MaxRows /\ i \in B!Id
        /\ r \in [id : 0 .. inserted', dept : Department] /\ r.id = i /\ r.dept = d
    BY <1>0, <2>1
  <2>3. \A n \in Machine : n # m => member[n].id # i
    BY <1>0, <2>1 DEF Reading
  <2>4. making' = IF r.id = i /\ r.dept \in making.cover
                  THEN [making EXCEPT !.stayed = @ \ {i}, !.seen = @ \cup {i}]
                  ELSE [making EXCEPT !.stayed = @ \ {i}]
    BY <2>1, <2>2 DEF B!Comes, B!Leaves
  <2>5. member' = [member EXCEPT ![m] = r]
    BY <1>0, <2>1
  <2> HIDE DEF i, r
  <2>6. member[m].id = i
    BY DEF i
  <2>7. /\ member[m].id \in {0, i} /\ r.id \in {0, i}
        /\ inserted' \in inserted .. MaxRows /\ i \in B!Id
        /\ r \in [id : 0 .. inserted', dept : Department]
        /\ UNCHANGED <<asked, batches>>
    BY <2>1, <2>2, <2>5, <2>6
  <2>8. QED
    BY <2>3, <2>4, <2>5, <2>7, MemberChanged
<1> QED
  BY <1>1, <1>2, <1>3

\* A batch of machines that were named.
LEMMA CreateOfMachinesStep ==
    ASSUME BatchesInductive, NEW S \in SUBSET (1 .. inserted), B!CreateOfMachines(S)
    PROVE  BatchesInductive'
<1> DEFINE l == [i \in B!Id |-> IF i \in S THEN 1 ELSE 0]
           b == [list |-> l, stayed |-> S, seen |-> S, nested |-> FALSE]
<1>1. /\ asked < MaxBatches /\ asked' = asked + 1 /\ batches' = batches \cup {b}
      /\ UNCHANGED <<inserted, member, making>>
  BY DEF B!CreateOfMachines, B!Batch
<1>2. asked' \in 0 .. MaxBatches
  BY <1>1, BatchesAssumption DEF BatchesInductive, Batching
<1>3. S \subseteq B!Id
  BY BatchesAssumption DEF BatchesInductive, Batching, B!Id
<1>4. l \in [B!Id -> Nat] /\ \A i \in B!Id : l[i] = IF i \in S THEN 1 ELSE 0
  OBVIOUS
<1> HIDE DEF l
<1>5. b \in Listing /\ Complete(b)
  BY <1>3, <1>4 DEF Listing, Complete
<1> HIDE DEF b
<1>6. \A c \in batches' : c \in batches \/ (c \in Listing /\ Complete(c))
  BY <1>1, <1>5
<1> QED
  BY <1>1, <1>2, <1>6, BatchAdded

\* What is found of a department is a list of different departments.
LEMMA FoundHas ==
    ASSUME NEW d \in Department, NEW failed
    PROVE  B!Found(d, failed) \in Seq(Department) /\ Distinct(B!Found(d, failed))
<1> DEFINE below == Below[d]
           missed == UNION {B!ToSet(Below[x]) : x \in failed}
           parts == [i \in DOMAIN below |-> IF below[i] \in missed THEN << >> ELSE <<below[i]>>]
           rest == B!FlattenSeq(parts)
           u == <<d>>
<1>1. B!Found(d, failed) = u \o rest
  BY DEF B!Found
<1>2. /\ below \in Seq(Department)
      /\ \A i, j \in DOMAIN below : below[i] # d /\ (below[i] = below[j] => i = j)
  BY BatchesAssumption
<1>3. rest \in Seq(Department) /\ Distinct(rest) /\ ~Has(rest, d)
  <2>1. CASE Len(below) = 0
    <3>1. parts = << >> /\ Len(parts) = 0
      BY <1>2, <2>1
    <3>2. rest = << >>
      BY <3>1 DEF B!FlattenSeq
    <3>3. QED
      BY <3>2, HasNothing DEF Distinct
  <2>2. CASE Len(below) # 0
    <3> DEFINE k == Len(below)
    <3>1. k \in Nat \ {0} /\ DOMAIN below = 1 .. k
      BY <1>2, <2>2
    <3>2. \A i \in 1 .. k : below[i] \in Department
      BY <1>2, <3>1
    <3> HIDE DEF missed, k
    <3>3. \A i \in 1 .. k : /\ parts[i] = << >> \/ parts[i] = <<below[i]>>
                            /\ parts[i] \in Seq(Department)
      BY <3>1, <3>2
    <3>4. parts \in [1 .. k -> Seq(Department)]
      BY <3>1, <3>3
    <3> HIDE DEF parts
    <3>5. \A i \in 1 .. k : /\ \A x : Has(parts[i], x) => x = below[i]
                            /\ Distinct(parts[i])
      <4>1. \A y : Distinct(<<y>>) /\ \A x : Has(<<y>>, x) => x = y
        BY DEF Has, Distinct
      <4>2. Distinct(<< >>)
        BY DEF Distinct
      <4> HIDE DEF below
      <4>3. QED
        BY <3>3, <4>1, <4>2, HasNothing
    <3>6. Apart(parts)
      <4>1. DOMAIN parts = 1 .. k
        BY <3>4
      <4>2. \A i, j \in 1 .. k : i < j => below[i] # below[j]
        BY <1>2, <3>1
      <4>3. QED
        BY <3>5, <4>1, <4>2 DEF Apart
    <3>7. /\ rest \in Seq(Department) /\ Distinct(rest)
          /\ \A x : Has(rest, x) <=> \E i \in 1 .. k : Has(parts[i], x)
      BY <3>1, <3>4, <3>6, Flattened
    <3>8. QED
      BY <1>2, <3>1, <3>5, <3>7
  <2>3. QED
    BY <2>1, <2>2
<1> HIDE DEF rest
<1>4. u \in Seq(Department) /\ Distinct(u) /\ \A x : Has(u, x) => x = d
  BY DEF Has, Distinct
<1> HIDE DEF u
<1>5. QED
  BY <1>1, <1>3, <1>4, Joined

\* A batch of departments is begun: those found are to be read, each once unless
\* some of them were found twice.
LEMMA CreateOfDepartsStep ==
    ASSUME BatchesInductive, NEW k \in Nat \ {0}, NEW chosen \in [1 .. k -> Department],
           NEW failed, B!CreateOfDeparts(chosen, failed)
    PROVE  BatchesInductive'
<1> DEFINE Within(n) == B!ToSet(B!Found(chosen[n], failed[n]))
           cover == UNION {Within(n) : n \in DOMAIN chosen}
           lists == [n \in DOMAIN chosen |-> B!Found(chosen[n], failed[n])]
           nested == \E n, j \in DOMAIN chosen : n < j /\ Within(n) \cap Within(j) # {}
<1>1. /\ asked < MaxBatches /\ asked' = asked + 1 /\ UNCHANGED <<inserted, member, batches>>
      /\ making' = [departs |-> B!FlattenSeq(lists), list |-> B!NoList, open |-> TRUE,
                    cover |-> cover, stayed |-> B!In(cover), seen |-> B!In(cover), nested |-> nested]
  BY DEF B!CreateOfDeparts, B!Departids
<1>2. \A n \in 1 .. k : /\ B!Found(chosen[n], failed[n]) \in Seq(Department)
                        /\ Distinct(B!Found(chosen[n], failed[n]))
  BY FoundHas
<1>3. \A n \in 1 .. k :
         /\ lists[n] \in Seq(Department)
         /\ \A x : Has(lists[n], x) <=> x \in Within(n)
         /\ Distinct(lists[n])
  <2>1. \A n \in 1 .. k : \A x : Has(B!Found(chosen[n], failed[n]), x) <=> x \in Within(n)
    BY DEF Has, B!ToSet
  <2> HIDE DEF Within
  <2>2. QED
    BY <1>2, <2>1
<1>4. lists \in [1 .. k -> Seq(Department)] /\ DOMAIN lists = 1 .. k
  BY <1>3
<1> HIDE DEF lists
<1> DEFINE all == B!FlattenSeq(lists)
<1>5. /\ all \in Seq(Department)
      /\ \A x : Has(all, x) <=> \E i \in 1 .. k : Has(lists[i], x)
      /\ Apart(lists) => Distinct(all)
  BY <1>4, Flattened
<1>6. ~nested => Apart(lists)
  <2>1. nested <=> \E n, j \in 1 .. k : n < j /\ Within(n) \cap Within(j) # {}
    OBVIOUS
  <2> HIDE DEF nested, Within
  <2>2. ASSUME ~nested, NEW n \in 1 .. k, NEW j \in 1 .. k, n < j, NEW x
        PROVE  ~(Has(lists[n], x) /\ Has(lists[j], x))
    BY <1>3, <2>1, <2>2
  <2>3. QED
    BY <1>3, <1>4, <2>2 DEF Apart
<1>7. \A x : Has(all, x) <=> x \in cover
  <2>1. \A x : x \in cover <=> \E n \in 1 .. k : x \in Within(n)
    OBVIOUS
  <2> HIDE DEF all, cover, Within
  <2>2. QED
    BY <1>3, <1>5, <2>1
<1>8. cover \subseteq Department /\ nested \in BOOLEAN
  <2>1. ASSUME NEW n \in 1 .. k PROVE Within(n) \subseteq Department
    <3>1. \A list : list \in Seq(Department) => B!ToSet(list) \subseteq Department
      BY DEF B!ToSet
    <3>2. QED
      BY <1>2, <3>1
  <2>2. QED
    BY <2>1
<1> HIDE DEF all, cover, nested, Within
<1>9. B!In(cover) \subseteq B!Id
  BY InRows, BatchesAssumption DEF BatchesInductive, Batching, B!Id
<1>10. B!NoList \in [B!Id -> Nat] /\ \A i \in B!Id : B!NoList[i] = 0
  BY DEF B!NoList
<1>11. /\ making' \in Making
       /\ making'.departs = all /\ making'.list = B!NoList /\ making'.open = TRUE
       /\ making'.cover = cover /\ making'.stayed = B!In(cover) /\ making'.seen = B!In(cover)
       /\ making'.nested = nested
  BY <1>1, <1>5, <1>8, <1>9, <1>10 DEF Making, all
<1>12. Batching'
  BY <1>1, <1>11, BatchesAssumption DEF BatchesInductive, Batching
<1>13. Reading'
  <2>1. ASSUME NEW m \in Machine, member[m].id \in B!In(cover) PROVE Has(all, member[m].dept)
    <3>1. PICK n \in Machine : member[n].id = member[m].id /\ member[m].id # 0 /\ member[n].dept \in cover
      BY <2>1, InRows
    <3>2. n = m
      BY <3>1 DEF BatchesInductive, Reading
    <3>3. QED
      BY <1>7, <3>1, <3>2
  <2>2. \A m \in Machine : member[m].id # 0 /\ member[m].dept \in cover => member[m].id \in B!In(cover)
    BY InRows
  <2>3. \A i \in B!In(cover) : \E m \in Machine : member[m].id = i
    BY InRows
  <2>4. \A m, n \in Machine : member[m].id # 0 /\ member[m].id = member[n].id => m = n
    BY DEF BatchesInductive, Reading
  <2>5. \A m \in Machine : Owed(m)'
    BY <1>1, <1>9, <1>10, <1>11, <2>1 DEF Owed
  <2>6. QED
    BY <1>1, <1>5, <1>6, <1>7, <1>10, <1>11, <2>2, <2>3, <2>4, <2>5 DEF Reading
<1>14. \A b \in batches' : Complete(b)
  BY <1>1 DEF BatchesInductive
<1> QED
  BY <1>12, <1>13, <1>14 DEF BatchesInductive, Complete

\* The machines of the next department are read.
LEMMA MachineListStep ==
    ASSUME BatchesInductive, B!MachineList
    PROVE  BatchesInductive'
<1> DEFINE d == Head(making.departs)
           rest == Tail(making.departs)
           found == B!In({d})
           l == [i \in B!Id |-> IF i \in found THEN making.list[i] + 1 ELSE making.list[i]]
<1>1. /\ making.departs # << >>
      /\ making' = [making EXCEPT !.departs = rest, !.list = l]
      /\ UNCHANGED <<inserted, member, asked, batches>>
  BY DEF B!MachineList
<1>2. Batching /\ Reading /\ making \in Making /\ making.departs \in Seq(Department)
  BY DEF BatchesInductive, Batching, Making
<1>3. /\ rest \in Seq(Department) /\ d \in Department
      /\ \A x : Has(making.departs, x) <=> x = d \/ Has(rest, x)
      /\ Distinct(making.departs) => Distinct(rest) /\ ~Has(rest, d)
  BY <1>1, <1>2, TailHas
<1>4. making.list \in [B!Id -> Nat]
  BY <1>2 DEF Making
<1>5. /\ l \in [B!Id -> Nat]
      /\ \A i \in B!Id : l[i] = IF i \in found THEN making.list[i] + 1 ELSE making.list[i]
  BY <1>4
<1>6. \A i : i \in found <=> \E m \in Machine : member[m].id = i /\ i # 0 /\ member[m].dept = d
  BY InRows
<1> HIDE DEF d, rest, found, l
<1>7. /\ making' \in Making
      /\ making'.departs = rest /\ making'.list = l
      /\ making'.open = making.open /\ making'.cover = making.cover /\ making'.nested = making.nested
      /\ making'.stayed = making.stayed /\ making'.seen = making.seen
  BY <1>1, <1>2, <1>3, <1>5 DEF Making
<1>8. Batching'
  BY <1>1, <1>2, <1>7 DEF Batching
<1>9. Reading'
  <2>1. making.open
    BY <1>1, <1>2 DEF Reading
  <2>2. ASSUME NEW i \in B!Id, l[i] > 0 PROVE i \in making.seen
    <3>1. CASE i \in found
      <4>1. PICK m \in Machine : member[m].id = i /\ i # 0 /\ member[m].dept = d
        BY <1>6, <3>1
      <4>2. d \in making.cover
        BY <1>2, <1>3 DEF Reading
      <4>3. QED
        BY <1>2, <4>1, <4>2 DEF Reading
    <3>2. CASE i \notin found
      BY <1>2, <1>5, <2>2, <3>2 DEF Reading
    <3>3. QED
      BY <3>1, <3>2
  <2>3. ASSUME NEW m \in Machine, member[m].id \in making.stayed
        PROVE  /\ l[member[m].id] = 0 => Has(rest, member[m].dept)
               /\ ~making.nested => /\ l[member[m].id] <= 1
                                    /\ l[member[m].id] = 1 => ~Has(rest, member[m].dept)
    <3> DEFINE i == member[m].id
    <3>1. i \in B!Id /\ i # 0
      BY <1>2, <2>3 DEF Making, B!Id
    <3>2. i \in found <=> member[m].dept = d
      <4>1. \A n \in Machine : member[n].id = i => n = m
        BY <1>2, <3>1 DEF Reading
      <4>2. QED
        BY <1>6, <3>1, <4>1
    <3>3. /\ making.list[i] = 0 => Has(making.departs, member[m].dept)
          /\ ~making.nested => /\ making.list[i] <= 1
                               /\ making.list[i] = 1 => ~Has(making.departs, member[m].dept)
      BY <1>2, <2>3 DEF Reading, Owed
    <3>4. making.list[i] \in Nat /\ l[i] \in Nat
          /\ l[i] = IF i \in found THEN making.list[i] + 1 ELSE making.list[i]
      BY <1>4, <1>5, <3>1
    <3>5. ~making.nested => Distinct(making.departs)
      BY <1>2 DEF Reading
    <3> HIDE DEF i
    <3>6. CASE member[m].dept = d
      <4>1. l[i] = making.list[i] + 1 /\ Has(making.departs, member[m].dept)
        BY <1>3, <3>2, <3>4, <3>6
      <4>2. l[i] # 0
        BY <3>4, <4>1
      <4>3. ~making.nested => making.list[i] = 0 /\ ~Has(rest, member[m].dept)
        BY <1>3, <3>3, <3>4, <3>5, <3>6, <4>1
      <4>4. QED
        BY <4>1, <4>2, <4>3 DEF i
    <3>7. CASE member[m].dept # d
      <4>1. l[i] = making.list[i] /\ (Has(making.departs, member[m].dept) <=> Has(rest, member[m].dept))
        BY <1>3, <3>2, <3>4, <3>7
      <4>2. QED
        BY <3>3, <4>1 DEF i
    <3>8. QED
      BY <3>6, <3>7
  <2>4. \A m \in Machine : Owed(m)'
    BY <1>1, <1>7, <2>3 DEF Owed
  <2>5. /\ \A m, n \in Machine : member[m].id # 0 /\ member[m].id = member[n].id => m = n
        /\ ~making.nested => Distinct(rest)
        /\ \A x : Has(rest, x) => x \in making.cover
        /\ \A m \in Machine : member[m].id # 0 /\ member[m].dept \in making.cover
                               => member[m].id \in making.seen
        /\ \A i \in making.stayed : \E m \in Machine : member[m].id = i
    BY <1>2, <1>3 DEF Reading
  <2>6. QED
    BY <1>1, <1>7, <2>1, <2>2, <2>4, <2>5 DEF Reading
<1>10. \A b \in batches' : Complete(b)
  BY <1>1 DEF BatchesInductive
<1> QED
  BY <1>8, <1>9, <1>10 DEF BatchesInductive, Complete

\* The row of the batch is written: every department has been read.
LEMMA CreateBatchMessageStep ==
    ASSUME BatchesInductive, B!CreateBatchMessage
    PROVE  BatchesInductive'
<1> DEFINE b == B!Batch(making)
<1>1. /\ making.departs = << >> /\ batches' \subseteq batches \cup {b} /\ making' = B!NoRequest
      /\ UNCHANGED <<inserted, member, asked>>
  BY DEF B!CreateBatchMessage
<1>2. Batching /\ Reading /\ making \in Making
  BY DEF BatchesInductive, Batching
<1>3. /\ b \in Listing /\ b.list = making.list /\ b.stayed = making.stayed
      /\ b.seen = making.seen /\ b.nested = making.nested
  BY <1>2 DEF B!Batch, Making, Listing
<1> HIDE DEF b
<1>4. ASSUME NEW i \in making.stayed
      PROVE  making.list[i] >= 1 /\ (~making.nested => making.list[i] = 1)
  <2>1. i \in B!Id /\ making.list[i] \in Nat
    BY <1>2 DEF Making
  <2>2. PICK m \in Machine : member[m].id = i
    BY <1>2 DEF Reading
  <2>3. making.list[i] # 0 /\ (~making.nested => making.list[i] <= 1)
    BY <1>1, <1>2, <2>2, HasNothing DEF Reading, Owed
  <2>4. QED
    BY <2>1, <2>3
<1>5. Complete(b)
  BY <1>2, <1>3, <1>4 DEF Complete, Reading
<1>6. asked' \in 0 .. MaxBatches
  BY <1>1, <1>2 DEF Batching
<1>7. \A c \in batches' : c \in batches \/ (c \in Listing /\ Complete(c))
  BY <1>1, <1>3, <1>5
<1> QED
  BY <1>1, <1>6, <1>7, BatchAdded

\* Every step of the batches keeps the invariant.
LEMMA BatchesStep ==
    ASSUME BatchesInductive, B!Next \/ UNCHANGED batchVars
    PROVE  BatchesInductive'
<1>0. asked \in 0 .. MaxBatches
  BY DEF BatchesInductive, Batching
<1>1. CASE \E m \in Machine : \/ B!AddAgent(m) \/ B!DeleteMachine(m)
                              \/ \E d \in Department : B!ModifyMachineDepart(m, d)
  BY <1>1, MembersStep
<1>2. CASE \E S \in SUBSET (1 .. inserted) \ {{}} : B!CreateOfMachines(S)
  BY <1>2, CreateOfMachinesStep
<1>3. CASE \E n \in 1 .. MaxChosen :
               \E chosen \in [1 .. n -> Department], failed \in [1 .. n -> SUBSET Department] :
                  B!CreateOfDeparts(chosen, failed)
  <2>1. PICK n \in 1 .. MaxChosen :
               \E chosen \in [1 .. n -> Department], failed \in [1 .. n -> SUBSET Department] :
                  B!CreateOfDeparts(chosen, failed)
    BY <1>3
  <2>2. n \in Nat \ {0}
    OBVIOUS
  <2>3. QED
    BY <2>1, <2>2, CreateOfDepartsStep
<1>4. CASE B!MachineList
  BY <1>4, MachineListStep
<1>5. CASE B!CreateBatchMessage
  BY <1>5, CreateBatchMessageStep
<1>6. CASE B!CreateFails
  BY <1>0, <1>6, BatchAdded DEF B!CreateFails
<1>7. CASE \E b \in batches : B!DeleteBatch(b)
  BY <1>0, <1>7, BatchAdded DEF B!DeleteBatch
<1>8. CASE UNCHANGED batchVars
  BY <1>0, <1>8, BatchAdded DEF batchVars
<1> QED
  BY <1>1, <1>2, <1>3, <1>4, <1>5, <1>6, <1>7, <1>8 DEF B!Next

\* The batches are kept whatever the other services do.
LEMMA BatchesAlways == ServicesSpec => []BatchesInductive
<1>1. ServicesInit => BatchesInductive
  BY BatchesBegin DEF ServicesInit
<1>2. BatchesInductive /\ [ServicesNext]_allVars => BatchesInductive'
  <2>1. ServicesNext => B!Next \/ UNCHANGED batchVars
    BY DEF ServicesNext, CronStep, FileStep, PluginStep, BatchStep
  <2>2. UNCHANGED allVars => UNCHANGED batchVars
    BY DEF allVars
  <2> QED
    BY <2>1, <2>2, BatchesStep
<1> QED
  BY <1>1, <1>2, PTL DEF ServicesSpec

\* So are the plugins.
LEMMA PluginsAlways == ServicesSpec => []Inductive
<1>1. ServicesInit => Inductive
  BY InductiveInit DEF ServicesInit
<1>2. Inductive /\ [ServicesNext]_allVars => Inductive'
  <2>1. ServicesNext => [PluginNext]_pluginVars
    BY DEF ServicesNext, CronStep, FileStep, PluginStep, BatchStep
  <2>2. UNCHANGED allVars => UNCHANGED pluginVars
    BY DEF allVars
  <2> QED
    BY <2>1, <2>2, InductiveStep
<1> QED
  BY <1>1, <1>2, PTL DEF ServicesSpec

\* The variables of files, plugins and batches hold what the code can put in
\* them, whatever the others do.
THEOREM TypesAreKept == ServicesSpec => []ServicesTypeOK
<1>1. BatchesInductive => B!TypeOK
  <2> SUFFICES ASSUME BatchesInductive PROVE B!TypeOK
    OBVIOUS
  <2>1. /\ making.departs \in Seq(Department) /\ making.list \in [B!Id -> Nat]
        /\ making.stayed \subseteq B!Id /\ making.seen \subseteq B!Id
    BY DEF BatchesInductive, Batching, Making
  <2>2. \A b \in batches : b.list \in [B!Id -> Nat] /\ b.stayed \subseteq B!Id /\ b.seen \subseteq B!Id
    BY DEF BatchesInductive, Batching, Listing
  <2>3. QED
    BY <2>1, <2>2 DEF BatchesInductive, Batching, B!TypeOK
<1>2. FilesInductive /\ Inductive /\ BatchesInductive => ServicesTypeOK
  BY <1>1 DEF FilesInductive, Inductive, ServicesTypeOK
<1> QED
  BY <1>2, FilesAlways, PluginsAlways, BatchesAlways, PTL

\* A broadcast to a batch addresses each machine that was in the departments
\* found all the time the batch was made, once unless they lie in one another,
\* and none that never was, for every tree of departments, however machines move
\* meanwhile and whichever statements fail; a failed SELECT takes out its machine
\* and no other (service/batch: CreateBatch; common: ReturnSpecifiedDepart;
\* dao: MachineList, BatchIds2UUIDs).
THEOREM BatchesReachTheirs == ServicesSpec => []ReachesItsMachines
<1>1. ASSUME BatchesInductive, NEW b \in batches, NEW m \in Machine, NEW failed \in SUBSET B!Id
      PROVE  LET times == B!Addressed(b, failed)[m]
             IN  /\ member[m].id \in b.stayed \ failed => times >= 1 /\ (~b.nested => times = 1)
                 /\ times > 0 => member[m].id \in b.seen
  <2> DEFINE Answer(i) == IF i \in failed THEN NoMachine ELSE B!Owner(i)
             mine == {i \in B!Id : Answer(i) = m}
  <2>0. /\ Batching /\ Reading /\ Complete(b) /\ b \in Listing
        /\ b.stayed \subseteq B!Id /\ b.list \in [B!Id -> Nat] /\ 0 \notin B!Id
    BY <1>1 DEF BatchesInductive, Batching, Listing, B!Id
  <2>1. B!Addressed(b, failed)[m] = B!SumFunctionOnSet(b.list, mine)
    BY DEF B!Addressed
  <2>2. ASSUME NEW i \in B!Id PROVE B!Owner(i) = m <=> member[m].id = i
    <3>1. ASSUME member[m].id = i PROVE B!Owner(i) = m
      <4>1. i # 0 /\ member[m].dept \in Department
        BY <2>0 DEF Batching
      <4>2. i \in B!In(Department)
        BY <3>1, <4>1, InRows
      <4>3. \A n \in Machine : member[n].id = i => n = m
        BY <2>0, <3>1, <4>1 DEF Reading
      <4>4. (CHOOSE n \in Machine : member[n].id = i) = m
        BY <3>1, <4>3
      <4>5. QED
        BY <4>2, <4>4 DEF B!Owner
    <3>2. ASSUME B!Owner(i) = m PROVE member[m].id = i
      <4>1. m # NoMachine
        BY BatchesAssumption
      <4>2. i \in B!In(Department) /\ m = CHOOSE n \in Machine : member[n].id = i
        BY <3>2, <4>1 DEF B!Owner
      <4>3. \E n \in Machine : member[n].id = i
        BY <4>2, InRows
      <4>4. QED
        BY <4>2, <4>3
    <3>3. QED
      BY <3>1, <3>2
  <2>3. \A i \in B!Id : i \in mine <=> i \notin failed /\ member[m].id = i
    <3>1. m # NoMachine
      BY BatchesAssumption
    <3>2. QED
      BY <2>2, <3>1
  <2> HIDE DEF mine, Answer
  <2>4. CASE member[m].id = 0 \/ member[m].id \in failed
    <3>1. mine = {}
      BY <2>0, <2>3, <2>4 DEF mine
    <3>2. B!Addressed(b, failed)[m] = 0
      BY <2>1, <3>1, SumOverNone
    <3>3. QED
      BY <2>0, <2>4, <3>2
  <2>5. CASE member[m].id # 0 /\ member[m].id \notin failed
    <3> DEFINE i == member[m].id
    <3>1. i \in B!Id
      BY <2>0, <2>5, BatchesAssumption DEF Batching, B!Id
    <3>2. mine = {i}
      BY <2>3, <2>5, <3>1 DEF mine
    <3>3. b.list[i] \in Nat
      BY <2>0, <3>1
    <3>4. B!Addressed(b, failed)[m] = b.list[i]
      BY <2>1, <3>2, <3>3, SumOverOne
    <3>5. QED
      BY <2>0, <3>1, <3>4 DEF Complete
  <2>6. QED
    BY <2>4, <2>5
<1>2. BatchesInductive => ReachesItsMachines
  BY <1>1 DEF ReachesItsMachines, B!ReachesItsMachines
<1> QED
  BY <1>2, BatchesAlways, PTL

=============================================================================
