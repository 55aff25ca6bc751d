---------------------------- MODULE ConfigHistory ----------------------------
(***************************************************************************)
(* Configuration files kept on the server: the table of files, the table   *)
(* of their earlier versions, and the requests that save, update, delete   *)
(* and roll back.  Each statement a request sends to the database is a     *)
(* step, and may fail; gin serves any number of requests at once.          *)
(*                                                                         *)
(* Of a file name only what the code looks for is kept: whether it is      *)
(* empty, begins with a dash, contains "latest", and where.                *)
(***************************************************************************)
EXTENDS Naturals, FiniteSets

CONSTANTS MaxFiles,     \* bound: files ever saved
          MaxVersions,  \* bound: rows of history ever saved
          MaxRequests,  \* bound: requests made
          Slot,         \* requests being served at a time
          FormName,     \* names a form gives a file, of those in Name
          Text,         \* contents of files
          Empty         \* the empty text, not in Text

File == 1 .. MaxFiles
Version == 1 .. MaxVersions
\* An empty name; one without "latest", without and with a dash in front; one
\* with "latest" before the first dash, after it, and after a dash in front.
Name == {"empty", "plain", "dash", "front", "back", "tail"}
Contains(name) == name \in {"front", "back", "tail"}  \* strings.Contains(name, "latest")
WithLatest(name) ==                                   \* name + "-latest"
    CASE name = "front"              -> "front"
      [] name \in {"plain", "back"}  -> "back"
      [] name \in {"empty", "dash", "tail"} -> "tail"
FirstPart(name) ==                                    \* strings.Split(name, "-")[0]
    CASE name = "front"              -> "front"
      [] name \in {"plain", "back"}  -> "plain"
      [] name \in {"empty", "dash", "tail"} -> "empty"

NoFile == [name |-> "empty", text |-> Empty]  \* what Find leaves without a row
Content == [name : Name, text : Text \cup {Empty}]
Row == [file : File, name : Name, text : Text \cup {Empty}]
Idle == [op |-> "none", file |-> 1, version |-> 1, form |-> NoFile, read |-> NoFile,
         pc |-> "idle"]

VARIABLES
    saved,     \* ids of files given out so far
    files,     \* table files: a function from the ids there are
    kept,      \* ids of history rows given out so far
    history,   \* table history_files: a function from the ids there are
    past,      \* the texts each file has had
    serving,   \* the handler goroutine in each slot
    served,    \* requests made so far
    excused    \* files whose versions may get lost, see NoVersionLost

vars == <<saved, files, kept, history, past, serving, served, excused>>

Init ==
    /\ saved = 0 /\ files = << >>
    /\ kept = 0 /\ history = << >>
    /\ past = [f \in File |-> {}]
    /\ serving = [s \in Slot |-> Idle]
    /\ served = 0 /\ excused = {}

VersionsOf(f) == {v \in DOMAIN history : history[v].file = f}
LatestOf(f) == {v \in VersionsOf(f) : Contains(history[v].name)}
Newest(S) == CHOOSE v \in S : \A u \in S : u <= v
Found(f) == IF f \in DOMAIN files THEN files[f] ELSE NoFile
Without(table, S) == [x \in DOMAIN table \ S |-> table[x]]
With(table, x, y) == [z \in DOMAIN table \cup {x} |-> IF z = x THEN y ELSE table[z]]

------------------------------------------------------------------------------
\* Requests.

Writers(f) == {s \in Slot : serving[s].op \in {"update", "rollback"} /\ serving[s].file = f}

Arrive(s, op, f, v, form, pc) ==
    /\ serving[s].pc = "idle" /\ served < MaxRequests
    /\ served' = served + 1
    /\ serving' = [serving EXCEPT ![s] = [op |-> op, file |-> f, version |-> v,
                                          form |-> form, read |-> NoFile, pc |-> pc]]
    /\ excused' = IF op # "delete" /\ Writers(f) # {} THEN excused \cup {f} ELSE excused

GoOn(s, pc) == serving' = [serving EXCEPT ![s].pc = pc]
Answer(s) == serving' = [serving EXCEPT ![s] = Idle]

\* A statement fails and the handler answers its error.
Refused(s) ==
    /\ serving[s].op \in {"update", "rollback"}
    /\ serving[s].pc # "mark" \/ serving[s].op = "rollback"
    /\ Answer(s)
    /\ UNCHANGED <<saved, files, kept, history, past, served, excused>>

\* SaveToDatabase refuses empty fields and a name that is taken.
SaveToDatabase(name, text) ==
    /\ saved < MaxFiles /\ served < MaxRequests
    /\ served' = served + 1
    /\ saved' = saved + 1
    /\ files' = With(files, saved + 1, [name |-> name, text |-> text])
    /\ past' = [past EXCEPT ![saved + 1] = {text}]
    /\ UNCHANGED <<kept, history, serving, excused>>

\* Delete: the file and then its history; errors are only logged.
Delete(s, f) ==
    /\ f <= saved
    /\ \E done \in BOOLEAN : files' = IF done THEN Without(files, {f}) ELSE files
    /\ Arrive(s, "delete", f, 1, NoFile, "drop")
    /\ UNCHANGED <<saved, kept, history, past>>

DeleteHistoryFile(s) ==
    /\ serving[s].pc = "drop"
    /\ LET f == serving[s].file
       IN  \/ history' = Without(history, VersionsOf(f))
           \/ UNCHANGED history
    /\ Answer(s)
    \* A file whose own row was not deleted has lost its history.
    /\ excused' = excused \cup ({serving[s].file} \cap DOMAIN files)
    /\ UNCHANGED <<saved, files, kept, past, served>>

\* Update with the whole form, LastFileRollBack with the id of a row of
\* history: each begins with a read.
Update(s, f, form) ==
    /\ f <= saved
    /\ Arrive(s, "update", f, 1, form, "read")
    /\ UNCHANGED <<saved, files, kept, history, past>>

\* LastFileText: nothing ties the row of history to the file, and no row is an
\* empty text.
LastFileRollBack(s, f, v) ==
    /\ f <= saved /\ v <= kept
    /\ LET text == IF v \in DOMAIN history THEN history[v].text ELSE Empty
       IN  Arrive(s, "rollback", f, v, [NoFile EXCEPT !.text = text], "mark")
    /\ UNCHANGED <<saved, files, kept, history, past>>

\* Variant: what is kept is the form, not what it replaces.
ReadForm(s) ==
    /\ serving[s].pc = "read"
    /\ serving' = [serving EXCEPT ![s].read = serving[s].form, ![s].pc = "keep"]
    /\ UNCHANGED <<saved, files, kept, history, past, served, excused>>

\* SaveHistoryFile and SaveLatestFile read the file ...
ReadFile(s) ==
    /\ serving[s].pc = "read"
    /\ serving' = [serving EXCEPT ![s].read = Found(serving[s].file), ![s].pc = "keep"]
    /\ UNCHANGED <<saved, files, kept, history, past, served, excused>>

\* Variant: an update saves it as the latest too.
KeptAsLatest(s) == WithLatest(serving[s].read.name)

\* ... and save it as a version, under its name or as the latest.
KeptName(s) ==
    IF serving[s].op = "update" THEN serving[s].read.name ELSE WithLatest(serving[s].read.name)

SaveVersion(s) ==
    /\ serving[s].pc = "keep" /\ kept < MaxVersions
    /\ LET q == serving[s]
       IN  /\ kept' = kept + 1
           /\ history' = With(history, kept + 1,
                              [file |-> q.file, name |-> KeptName(s), text |-> q.read.text])
           /\ GoOn(s, IF q.op = "update" THEN "exist" ELSE "write")
           /\ excused' = IF q.op = "update" /\ Contains(q.read.name)
                         THEN excused \cup {q.file} ELSE excused
    /\ UNCHANGED <<saved, files, past, served>>

\* IsExistId: an update of a file that is not there ends, with its version kept.
IsExistId(s) ==
    /\ serving[s].pc = "exist"
    /\ IF serving[s].file \in DOMAIN files THEN GoOn(s, "mark") ELSE Answer(s)
    /\ UNCHANGED <<saved, files, kept, history, past, served, excused>>

\* A rollback saves the file as the latest version, unless there is one.
SaveLatest(f) == IF LatestOf(f) = {} THEN "read" ELSE "write"

\* IsExistFileLatest: an update goes on to rename the row it finds, a rollback
\* to save the file if there is none.  Update looks at the error only if a row
\* was found, and so passes over it.
IsExistFileLatest(s) ==
    /\ serving[s].pc = "mark"
    /\ LET f == serving[s].file
           L == LatestOf(f)
       IN  \/ /\ serving[s].op = "update"
              /\ IF L = {} THEN GoOn(s, "write")
                 ELSE serving' = [serving EXCEPT ![s].version = Newest(L), ![s].pc = "rename"]
              /\ UNCHANGED excused
           \/ /\ serving[s].op = "update"
              /\ GoOn(s, "write")
              /\ excused' = excused \cup {f}
           \/ /\ serving[s].op = "rollback"
              /\ GoOn(s, SaveLatest(f))
              /\ UNCHANGED excused
    /\ UNCHANGED <<saved, files, kept, history, past, served>>

\* UpdateLastFile: the row is no longer the latest, unless its name begins with
\* a dash: the new name is empty then, and gorm's Updates leaves the old one.
UpdateLastFile(s) ==
    /\ serving[s].pc = "rename"
    /\ LET v == serving[s].version
           stays == v \in DOMAIN history /\ FirstPart(history[v].name) = "empty"
       IN  /\ history' = IF v \notin DOMAIN history \/ stays THEN history
                         ELSE [history EXCEPT ![v].name = FirstPart(@)]
           /\ excused' = IF stays THEN excused \cup {serving[s].file} ELSE excused
    /\ GoOn(s, "write")
    /\ UNCHANGED <<saved, files, kept, past, served>>

\* UpdateFile leaves the fields alone that are empty in the form.  The form of
\* a rollback has no name.
UpdateFile(s) ==
    /\ serving[s].pc = "write"
    /\ LET q == serving[s]
           f == q.file
           text == IF q.form.text = Empty THEN files[f].text ELSE q.form.text
           name == IF q.op = "rollback" \/ q.form.name = "empty" THEN files[f].name
                   ELSE q.form.name
           foreign == /\ q.op = "rollback" /\ q.form.text # Empty
                      /\ \A v \in VersionsOf(f) : history[v].text # q.form.text
       IN  IF f \in DOMAIN files
           THEN /\ files' = [files EXCEPT ![f] = [name |-> name, text |-> text]]
                /\ past' = [past EXCEPT ![f] = @ \cup {text}]
                /\ excused' = IF foreign THEN excused \cup {f} ELSE excused
           ELSE UNCHANGED <<files, past, excused>>
    /\ Answer(s)
    /\ UNCHANGED <<saved, kept, history, served>>

Next ==
    \/ \E name \in FormName \ {"empty"}, text \in Text : SaveToDatabase(name, text)
    \/ \E s \in Slot :
          \/ \E f \in File :
                \/ Delete(s, f)
                \/ \E name \in FormName, text \in Text \cup {Empty} :
                      Update(s, f, [name |-> name, text |-> text])
                \/ \E v \in Version : LastFileRollBack(s, f, v)
          \/ DeleteHistoryFile(s) \/ ReadFile(s) \/ SaveVersion(s) \/ IsExistId(s)
          \/ IsExistFileLatest(s) \/ UpdateLastFile(s) \/ UpdateFile(s) \/ Refused(s)

Spec == Init /\ [][Next]_vars
------------------------------------------------------------------------------
(***************************************************************************)
(* Properties.                                                             *)
(***************************************************************************)

\* The variables hold what the code can put in them.
TypeOK ==
    /\ saved \in 0 .. MaxFiles /\ DOMAIN files \subseteq 1 .. saved
    /\ kept \in 0 .. MaxVersions /\ DOMAIN history \subseteq 1 .. kept
    /\ \A f \in DOMAIN files : files[f] \in [name : Name, text : Text]
    /\ \A v \in DOMAIN history : history[v] \in Row
    /\ past \in [File -> SUBSET Text]
    /\ serving \in [Slot -> [op : {"none", "update", "rollback", "delete"}, file : File,
                             version : Version, form : Content, read : Content,
                             pc : {"idle", "drop", "read", "keep", "exist", "mark",
                                   "rename", "write"}]]
    /\ served \in 0 .. MaxRequests /\ excused \subseteq File

\* Every text a file has had can be gone back to: it is the current one or in
\* the history of the file, through any sequence of updates and rollbacks, of
\* which several may fail half way.  Excused are the files for which the code
\* does lose versions: two requests wrote the file at the same time; its own
\* name contains "latest", so that a rollback takes a version for the latest
\* one; the look for the latest row failed and Update passed over the error; the
\* name of the latest row begins with a dash, so that an update leaves it marked;
\* the history was deleted and the row of the file was not; it was rolled back
\* to the text of another file.
NoVersionLost ==
    \A f \in DOMAIN files \ excused :
       past[f] \subseteq {files[f].text} \cup {history[v].text : v \in VersionsOf(f)}

\* At most one row of a file's history is marked as the latest: the one that
\* the next update unmarks.  Excused are two writers at a time and a file whose
\* own name contains "latest".
AtMostOneLatest == \A f \in File \ excused : Cardinality(LatestOf(f)) <= 1
=============================================================================
