-------------------------- MODULE SavedConnections --------------------------
(***************************************************************************)
(* The saved devices as the page sees them: the list kept by the store     *)
(* savedConnections.ts, its refresh, save and remove (calls that overtake  *)
(* one another), and the dialog that edits an entry, with the two calls it *)
(* makes on opening.  The repository behind the calls is the Go store      *)
(* (module ConnectionStore), kept to what its callers see: the mock in     *)
(* bridge/index.ts states it.                                              *)
(*                                                                         *)
(* An entry's name, host, user and protocols are one value, its secret is  *)
(* the secret's kind.                                                      *)
(***************************************************************************)
EXTENDS Naturals, Sequences, FiniteSets

CONSTANTS
  Ids,
  Metas,       \* name, host, user and protocols of an entry
  Absent,      \* no such entry
  NoOne,       \* no entry is being edited
  Nothing,     \* the list before the first refresh
  Stored,      \* what the repository holds when the page comes up: the list,
  StoredKind,  \* and the kinds of the secrets
  MaxTasks,    \* bound: refresh, save and remove under way at a time
  MaxWrites,   \* bound: changes of the repository
  MaxOpenings  \* bound: times the edit dialog is opened

Kinds == {"password", "privateKeyPath"}
Tasks == 1 .. MaxTasks
Lists == [Ids -> Metas \cup {Absent}]

ASSUME SavedAssumption ==
  /\ Absent \notin Metas /\ NoOne \notin Ids
  /\ Stored \in Lists /\ StoredKind \in [Ids -> Kinds \cup {"none"}]
  /\ MaxTasks \in Nat /\ MaxWrites \in Nat /\ MaxOpenings \in Nat

VARIABLES
  past,         \* the lists the repository has held, the present one last
  secrets,      \* the kind of each entry's secret, or "none"
  connections,  \* the list the page shows
  tasks,        \* the store functions under way
  editing,      \* the entry in the edit dialog
  opening,      \* how often the dialog was opened
  asking,       \* the dialog's calls under way: <<opening, "get" or "scan">>
  subject,      \* the entry of each opening
  secretKind,   \* kind of the stored secret, "unknown" until it is read
  clearSecret,
  scanState,
  submitting

repoVars == <<past, secrets>>
formVars == <<secretKind, clearSecret, scanState>>
dialogVars == <<editing, opening, asking, subject, formVars, submitting>>
vars == <<repoVars, connections, tasks, dialogVars>>

Present == past[Len(past)]

NoTask == [op |-> "none"]

Init ==
  /\ past = <<Stored>> /\ secrets = StoredKind
  /\ connections = Nothing
  /\ tasks = [t \in Tasks |-> NoTask]
  /\ editing = NoOne /\ opening = 0
  /\ asking = {} /\ subject = [o \in 1 .. MaxOpenings |-> NoOne]
  /\ secretKind = "unknown" /\ clearSecret = FALSE /\ scanState = "scanning"
  /\ submitting = FALSE

-----------------------------------------------------------------------------
(* The store's functions.  A task is started in the first free slot.       *)
Free == {t \in Tasks : tasks[t] = NoTask}

Start(task) ==
  \E t \in Free :
    /\ \A u \in 1 .. t - 1 : u \notin Free
    /\ tasks' = [tasks EXCEPT ![t] = task]

ListTask(edit, wrote) == [op |-> "list", edit |-> edit, wrote |-> wrote]

Refresh == Start(ListTask(FALSE, 0))

(* secret: its kind, "none" to clear it, "keep" when the input has none.   *)
Save(id, meta, secret, edit) ==
  Start([op |-> "save", id |-> id, meta |-> meta, secret |-> secret, edit |-> edit])

Remove(id) == Start([op |-> "remove", id |-> id])

(* The store refreshes by itself after every save and remove.              *)
ThenList(t, edit) ==
  tasks' = [tasks EXCEPT ![t] = ListTask(edit, Len(past'))]

(* Mutant: the list is read along with the save instead of after it.       *)
MutRepoSave(t) ==
  /\ tasks[t].op = "save"
  /\ Len(past) <= MaxWrites
  /\ LET task == tasks[t] IN
     /\ past' = Append(past, [Present EXCEPT ![task.id] = task.meta])
     /\ secrets' = [secrets EXCEPT ![task.id] = IF task.secret = "keep" THEN @ ELSE task.secret]
     /\ tasks' = [tasks EXCEPT ![t] =
          [op |-> "listed", edit |-> task.edit, wrote |-> Len(past'), read |-> Len(past)]]
  /\ UNCHANGED <<connections, dialogVars>>

(* A save creates the entry when the repository has none by that id.       *)
RepoSave(t) ==
  /\ tasks[t].op = "save"
  /\ Len(past) <= MaxWrites
  /\ LET task == tasks[t] IN
     /\ past' = Append(past, [Present EXCEPT ![task.id] = task.meta])
     /\ secrets' = [secrets EXCEPT ![task.id] = IF task.secret = "keep" THEN @ ELSE task.secret]
     /\ ThenList(t, task.edit)
  /\ UNCHANGED <<connections, dialogVars>>

RepoDelete(t) ==
  /\ tasks[t].op = "remove"
  /\ LET id == tasks[t].id IN
     /\ IF Present[id] = Absent
        THEN UNCHANGED repoVars
        ELSE /\ Len(past) <= MaxWrites
             /\ past' = Append(past, [Present EXCEPT ![id] = Absent])
             /\ secrets' = [secrets EXCEPT ![id] = "none"]
     /\ ThenList(t, FALSE)
  /\ UNCHANGED <<connections, dialogVars>>

RepoList(t) ==
  /\ tasks[t].op = "list"
  /\ tasks' = [tasks EXCEPT ![t] = [op |-> "listed", edit |-> tasks[t].edit,
                                    wrote |-> tasks[t].wrote, read |-> Len(past)]]
  /\ UNCHANGED <<repoVars, connections, dialogVars>>

(* The list is set; the caller of save goes on: the edit dialog closes     *)
(* whichever entry it has by now, and takes a submission again.            *)
ListAnswered(t) ==
  /\ tasks[t].op = "listed"
  /\ connections' = past[tasks[t].read]
  /\ tasks' = [tasks EXCEPT ![t] = NoTask]
  /\ IF tasks[t].edit THEN editing' = NoOne /\ submitting' = FALSE
                      ELSE UNCHANGED <<editing, submitting>>
  /\ UNCHANGED <<repoVars, opening, asking, subject, formVars>>

(* Mutant: only a save that went well takes the spinner off (no finally).  *)
MutTaskFails(t) ==
  /\ tasks[t].op \in {"save", "remove", "list"}
  /\ tasks' = [tasks EXCEPT ![t] = NoTask]
  /\ UNCHANGED <<repoVars, connections, dialogVars>>

(* The call of a task fails, and the function with it: the caller toasts.  *)
TaskFails(t) ==
  /\ tasks[t].op \in {"save", "remove", "list"}
  /\ tasks' = [tasks EXCEPT ![t] = NoTask]
  /\ submitting' = (submitting /\ ~ (tasks[t].op # "remove" /\ tasks[t].edit))
  /\ UNCHANGED <<repoVars, connections, editing, opening, asking, subject, formVars>>

-----------------------------------------------------------------------------
(* The components.                                                         *)

(* The list is read again whenever the workbench, the welcome panel or the *)
(* new-connection dialog comes up, and when a connect finds its entry gone.*)
PageRefresh ==
  /\ Refresh
  /\ UNCHANGED <<repoVars, connections, dialogVars>>

Listed == IF connections = Nothing THEN {} ELSE {i \in Ids : connections[i] # Absent}

(* Connecting with "save this connection" ticked: an entry of the LIST     *)
(* with that host and user is updated, else one is created.                *)
SaveNew(meta, secret) ==
  /\ editing = NoOne
  /\ LET existing == {i \in Listed : connections[i] = meta}
         taken == {i \in Ids : Present[i] # Absent}
     IN \E i \in IF existing # {} THEN existing ELSE Ids \ taken :
          Save(i, meta, secret, FALSE)
  /\ UNCHANGED <<repoVars, connections, dialogVars>>

RemoveDevice(i) ==
  /\ editing = NoOne /\ i \in Listed
  /\ Remove(i)
  /\ UNCHANGED <<repoVars, connections, dialogVars>>

(* Opening resets the form, probes the host and fetches the entry.         *)
OpenEdit(i) ==
  /\ editing = NoOne /\ i \in Listed
  /\ opening < MaxOpenings \* bound
  /\ editing' = i /\ opening' = opening + 1
  /\ asking' = asking \cup {<<opening + 1, "get">>, <<opening + 1, "scan">>}
  /\ subject' = [subject EXCEPT ![opening + 1] = i]
  /\ secretKind' = "unknown" /\ clearSecret' = FALSE /\ scanState' = "scanning"
  /\ UNCHANGED <<repoVars, connections, tasks, submitting>>

CancelEdit ==
  /\ editing # NoOne
  /\ editing' = NoOne
  /\ UNCHANGED <<repoVars, connections, tasks, opening, asking, subject, formVars, submitting>>

(* An answer is for the dialog that asked: the cleanup of an effect marks  *)
(* it cancelled once the dialog is closed or has another entry.            *)
Cancelled(o) == o # opening \/ editing = NoOne

(* Mutant: the answer of an earlier opening is taken for this one's.       *)
MutGot(o) ==
  /\ <<o, "get">> \in asking
  /\ asking' = asking \ {<<o, "get">>}
  /\ secretKind' \in {secretKind, IF secrets[subject[o]] = "none" THEN secretKind
                                  ELSE secrets[subject[o]]}
  /\ UNCHANGED <<repoVars, connections, tasks, editing, opening, subject,
                 clearSecret, scanState, submitting>>

(* connections.get answers, or fails, which leaves the form as it is, like *)
(* an entry without a secret or one that is gone.                          *)
Got(o) ==
  /\ <<o, "get">> \in asking
  /\ asking' = asking \ {<<o, "get">>}
  /\ secretKind' \in {secretKind, IF Cancelled(o) \/ secrets[subject[o]] = "none" THEN secretKind
                                  ELSE secrets[subject[o]]}
  /\ UNCHANGED <<repoVars, connections, tasks, editing, opening, subject,
                 clearSecret, scanState, submitting>>

(* The hints of the probe, or that it failed.                              *)
Probed(o) ==
  /\ <<o, "scan">> \in asking
  /\ asking' = asking \ {<<o, "scan">>}
  /\ IF Cancelled(o) THEN UNCHANGED scanState ELSE scanState' = "done"
  /\ UNCHANGED <<repoVars, connections, tasks, editing, opening, subject,
                 secretKind, clearSecret, submitting>>

(* The check box is there once the dialog knows of a stored secret.        *)
TickClear ==
  /\ editing # NoOne /\ secretKind # "unknown"
  /\ clearSecret' = ~clearSecret
  /\ UNCHANGED <<repoVars, connections, tasks, editing, opening, asking, subject,
                 secretKind, scanState, submitting>>

(* The secret of a submission: cleared, replaced (a new value takes the    *)
(* kind the dialog knows, or is a password), or left out.                  *)
FormSecret(typed) ==
  IF clearSecret THEN "none"
  ELSE IF typed THEN (IF secretKind = "unknown" THEN "password" ELSE secretKind)
  ELSE "keep"

Submit(meta, typed) ==
  /\ editing # NoOne /\ ~submitting
  /\ typed => ~clearSecret
  /\ Save(editing, meta, FormSecret(typed), TRUE)
  /\ submitting' = TRUE
  /\ UNCHANGED <<repoVars, connections, editing, opening, asking, subject, formVars>>

Next ==
  \/ PageRefresh
  \/ \E meta \in Metas, kind \in Kinds \cup {"keep"} : SaveNew(meta, kind)
  \/ \E i \in Ids : RemoveDevice(i) \/ OpenEdit(i)
  \/ CancelEdit \/ TickClear
  \/ \E meta \in Metas, typed \in BOOLEAN : Submit(meta, typed)
  \/ \E o \in 1 .. MaxOpenings : Got(o) \/ Probed(o)
  \/ \E t \in Tasks :
       RepoSave(t) \/ RepoDelete(t) \/ RepoList(t) \/ ListAnswered(t) \/ TaskFails(t)

Spec == Init /\ [][Next]_vars

(* The backend answers, one way or the other.                              *)
Answers(t) ==
  RepoSave(t) \/ RepoDelete(t) \/ RepoList(t) \/ ListAnswered(t) \/ TaskFails(t)
FairSpec == Spec /\ \A t \in Tasks : WF_vars(Answers(t))

-----------------------------------------------------------------------------
(* The tasks there can be while the repository has held n lists.           *)
TasksUpTo(n) ==
  {NoTask}
    \cup [op : {"save"}, id : Ids, meta : Metas, secret : Kinds \cup {"none", "keep"},
          edit : BOOLEAN]
    \cup [op : {"remove"}, id : Ids]
    \cup [op : {"list"}, edit : BOOLEAN, wrote : 0 .. n]
    \cup [op : {"listed"}, edit : BOOLEAN, wrote : 0 .. n, read : 1 .. n]

(* Every variable has its type; a task has written and read lists that the *)
(* repository has held.                                                    *)
TypeOK ==
  /\ past \in Seq(Lists) /\ Len(past) >= 1
  /\ secrets \in [Ids -> Kinds \cup {"none"}]
  /\ connections \in Lists \cup {Nothing}
  /\ tasks \in [Tasks -> TasksUpTo(Len(past))]
  /\ editing \in Ids \cup {NoOne}
  /\ opening \in 0 .. MaxOpenings
  /\ asking \subseteq (1 .. opening) \X {"get", "scan"}
  /\ subject \in [1 .. MaxOpenings -> Ids \cup {NoOne}]
  /\ \A o \in 1 .. opening : subject[o] \in Ids
  /\ secretKind \in Kinds \cup {"unknown"}
  /\ clearSecret \in BOOLEAN /\ submitting \in BOOLEAN
  /\ scanState \in {"scanning", "done"}

(* The dialog is about the entry it shows.  What it says of the stored     *)
(* secret and of the host was asked for by this opening, however late the  *)
(* answers to an earlier one come; and it never clears a secret without    *)
(* the ticked box on the page that says so.                                *)
FormIsOwn ==
  editing # NoOne =>
    /\ secretKind # "unknown" => <<opening, "get">> \notin asking
    /\ scanState # "scanning" => <<opening, "scan">> \notin asking
    /\ clearSecret => secretKind # "unknown"

(* The page keeps what SavedList promises: it shows lists the repository   *)
(* held, and a save or remove returns only once a list that has it is on   *)
(* the page (store: "Persists via IPC and refreshes the local list").      *)
Mirror == INSTANCE SavedList
  WITH Writers <- Tasks, shown <- connections,
       waiting <- [t \in Tasks |->
                     IF tasks[t].op \in {"list", "listed"} THEN tasks[t].wrote ELSE 0]
ImplementsMirror == Mirror!MirrorSpec

(* The dialog takes a submission again: the spinner of its button is not   *)
(* left turning by a save or a list that fails, or by the dialog being     *)
(* closed or given another entry meanwhile.                                *)
SubmittingEnds == submitting ~> ~submitting
=============================================================================
