---------------------- MODULE SavedConnections_proofs ----------------------
(***************************************************************************)
(* Proofs about SavedConnections, for any entries and bounds: its types,   *)
(* that the edit dialog is about its own entry, and that the page is the   *)
(* mirror that SavedList describes.                                        *)
(***************************************************************************)
EXTENDS SavedConnections, TLAPS

-----------------------------------------------------------------------------
(* The invariant, by part of the state.                                    *)
RepoOK ==
  /\ past \in Seq(Lists) /\ Len(past) >= 1
  /\ secrets \in [Ids -> Kinds \cup {"none"}]
  /\ connections \in Lists \cup {Nothing}

(* A list that is there was read after the write it follows.               *)
TasksOK ==
  /\ tasks \in [Tasks -> TasksUpTo(Len(past))]
  /\ \A t \in Tasks : tasks[t].op = "listed" => tasks[t].wrote <= tasks[t].read

DialogOK ==
  /\ editing \in Ids \cup {NoOne}
  /\ opening \in 0 .. MaxOpenings
  /\ asking \subseteq (1 .. opening) \X {"get", "scan"}
  /\ subject \in [1 .. MaxOpenings -> Ids \cup {NoOne}]
  /\ \A o \in 1 .. opening : subject[o] \in Ids
  /\ secretKind \in Kinds \cup {"unknown"}
  /\ clearSecret \in BOOLEAN /\ submitting \in BOOLEAN
  /\ scanState \in {"scanning", "done"}
  /\ FormIsOwn

Inv == RepoOK /\ TasksOK /\ DialogOK

Waiting == [t \in Tasks |->
              IF tasks[t].op \in {"list", "listed"} THEN tasks[t].wrote ELSE 0]

MirrorStep == Mirror!MirrorNext \/ UNCHANGED <<past, connections, Waiting>>
Kept == Inv' /\ MirrorStep

-----------------------------------------------------------------------------
(* A task may stay what it is while the repository's history grows.        *)
LEMMA TasksGrow ==
  ASSUME NEW m \in Nat, NEW n \in Nat, m <= n
  PROVE  TasksUpTo(m) \subseteq TasksUpTo(n)
<1>1. 0 .. m \subseteq 0 .. n /\ 1 .. m \subseteq 1 .. n
  OBVIOUS
<1> QED
  BY <1>1 DEF TasksUpTo

LEMMA PresentType == ASSUME RepoOK PROVE Present \in Lists
BY DEF RepoOK, Present

LEMMA IdleDialogKeeps == DialogOK /\ UNCHANGED dialogVars => DialogOK'
BY DEF DialogOK, FormIsOwn, dialogVars, formVars

LEMMA IdleRepoKeeps == RepoOK /\ UNCHANGED <<repoVars, connections>> => RepoOK'
BY DEF RepoOK, repoVars

LEMMA IdleTasksKeep == TasksOK /\ UNCHANGED <<tasks, past>> => TasksOK' /\ UNCHANGED Waiting
BY DEF TasksOK, Waiting

(* A task that has not listed yet is not one the mirror knows of.          *)
LEMMA StartKeeps ==
  ASSUME TasksOK, NEW task \in TasksUpTo(0), Start(task), UNCHANGED past, Len(past) \in Nat
  PROVE  TasksOK' /\ UNCHANGED Waiting
<1>1. PICK t \in Free : tasks' = [tasks EXCEPT ![t] = task]
  BY DEF Start
<1>2. t \in Tasks /\ tasks[t] = NoTask
  BY <1>1 DEF Free
<1>3. task \in TasksUpTo(Len(past))
  BY TasksGrow
<1>4. /\ task.op # "listed"
      /\ task.op = "list" => task.wrote = 0
  BY DEF TasksUpTo, NoTask
<1>5. TasksOK'
  BY <1>1, <1>2, <1>3, <1>4 DEF TasksOK
<1>6. UNCHANGED Waiting
  BY <1>1, <1>2, <1>4 DEF Waiting, NoTask, TasksOK
<1> QED
  BY <1>5, <1>6

(* The task of a write goes on to its list, and the mirror sees the write. *)
LEMMA WriteKeeps ==
  ASSUME Inv, NEW t \in Tasks, tasks[t].op \in {"save", "remove"}, NEW edit \in BOOLEAN,
         ThenList(t, edit), UNCHANGED connections,
         \/ past' = past
         \/ \E l \in Lists : past' = Append(past, l)
  PROVE  /\ TasksOK'
         /\ past' \in Seq(Lists) /\ Len(past') >= 1
         /\ MirrorStep
<1>1. past \in Seq(Lists) /\ Len(past) \in Nat /\ Len(past) >= 1
  BY DEF Inv, RepoOK
<1>2. /\ past' \in Seq(Lists) /\ Len(past') \in Nat /\ Len(past') >= Len(past)
      /\ \/ past' = past
         \/ Len(past') = Len(past) + 1 /\ SubSeq(past', 1, Len(past)) = past
  <2>1. CASE past' = past
    BY <1>1, <2>1
  <2>2. ASSUME NEW l \in Lists, past' = Append(past, l)
        PROVE  /\ past' \in Seq(Lists) /\ Len(past') = Len(past) + 1
               /\ SubSeq(past', 1, Len(past)) = past
    BY <1>1, <2>2
  <2> QED
    BY <1>1, <2>1, <2>2
<1>3. tasks' = [tasks EXCEPT ![t] = ListTask(edit, Len(past'))]
  BY DEF ThenList
<1>4. ListTask(edit, Len(past')) \in TasksUpTo(Len(past'))
  BY <1>2 DEF ListTask, TasksUpTo
<1>5. TasksOK'
  <2>1. \A u \in Tasks : tasks[u] \in TasksUpTo(Len(past'))
    BY <1>1, <1>2, TasksGrow DEF Inv, TasksOK
  <2> QED
    BY <1>3, <1>4, <2>1 DEF Inv, TasksOK, ListTask
<1>6. Waiting[t] = 0 /\ Waiting' = [Waiting EXCEPT ![t] = Len(past')]
  BY <1>3 DEF Waiting, ListTask, Inv, TasksOK
<1>7. Mirror!Write(t)
  BY <1>2, <1>6 DEF Mirror!Write, Waiting
<1>8. Mirror!MirrorNext
  BY <1>7 DEF Mirror!MirrorNext
<1> QED
  BY <1>1, <1>2, <1>5, <1>8 DEF MirrorStep

-----------------------------------------------------------------------------
(* Actions that start a task, and change at most the dialog besides.       *)
LEMMA StarterKeeps ==
  ASSUME Inv, NEW task \in TasksUpTo(0), Start(task), UNCHANGED <<repoVars, connections>>, DialogOK'
  PROVE  Kept
<1>1. UNCHANGED past /\ Len(past) \in Nat
  BY DEF repoVars, Inv, RepoOK
<1>2. TasksOK' /\ UNCHANGED Waiting
  BY <1>1, StartKeeps DEF Inv
<1>3. RepoOK'
  BY IdleRepoKeeps DEF Inv
<1> QED
  BY <1>1, <1>2, <1>3 DEF Kept, MirrorStep, Inv

LEMMA PageRefreshKeeps == Inv /\ PageRefresh => Kept
<1> SUFFICES ASSUME Inv, PageRefresh PROVE Kept
  OBVIOUS
<1>1. ListTask(FALSE, 0) \in TasksUpTo(0)
  BY DEF ListTask, TasksUpTo
<1>2. Start(ListTask(FALSE, 0)) /\ UNCHANGED <<repoVars, connections>> /\ DialogOK'
  BY IdleDialogKeeps DEF PageRefresh, Refresh, Inv
<1> QED
  BY <1>1, <1>2, StarterKeeps

(* The task of a save that the page starts.                                *)
SaveTask(id, meta, secret, edit) ==
  [op |-> "save", id |-> id, meta |-> meta, secret |-> secret, edit |-> edit]

LEMMA SaveNewKeeps ==
  ASSUME Inv, NEW meta \in Metas, NEW secret \in Kinds \cup {"keep"}, SaveNew(meta, secret)
  PROVE  Kept
<1>1. PICK i \in Ids : Save(i, meta, secret, FALSE)
  BY DEF SaveNew, Listed
<1>2. SaveTask(i, meta, secret, FALSE) \in TasksUpTo(0)
  BY DEF SaveTask, TasksUpTo
<1>3. /\ Start(SaveTask(i, meta, secret, FALSE))
      /\ UNCHANGED <<repoVars, connections>> /\ DialogOK'
  BY <1>1, IdleDialogKeeps DEF SaveNew, Save, SaveTask, Inv
<1> QED
  BY <1>2, <1>3, StarterKeeps

LEMMA SubmitKeeps ==
  ASSUME Inv, NEW meta \in Metas, NEW typed \in BOOLEAN, Submit(meta, typed)
  PROVE  Kept
<1>1. editing \in Ids /\ FormSecret(typed) \in Kinds \cup {"none", "keep"}
  BY DEF Submit, Inv, DialogOK, FormSecret, Kinds
<1>2. SaveTask(editing, meta, FormSecret(typed), TRUE) \in TasksUpTo(0)
  BY <1>1 DEF SaveTask, TasksUpTo
<1>3. /\ Start(SaveTask(editing, meta, FormSecret(typed), TRUE))
      /\ UNCHANGED <<repoVars, connections>>
  BY DEF Submit, Save, SaveTask
<1>4. DialogOK'
  BY DEF Submit, Inv, DialogOK, FormIsOwn, formVars
<1> QED
  BY <1>2, <1>3, <1>4, StarterKeeps

LEMMA RemoveDeviceKeeps ==
  ASSUME Inv, NEW i \in Ids, RemoveDevice(i)
  PROVE  Kept
<1>1. [op |-> "remove", id |-> i] \in TasksUpTo(0)
  BY DEF TasksUpTo
<1>2. /\ Start([op |-> "remove", id |-> i])
      /\ UNCHANGED <<repoVars, connections>> /\ DialogOK'
  BY IdleDialogKeeps DEF RemoveDevice, Remove, Inv
<1> QED
  BY <1>1, <1>2, StarterKeeps

-----------------------------------------------------------------------------
(* Actions of the dialog alone.                                            *)
LEMMA FormKeeps ==
  ASSUME Inv, UNCHANGED <<repoVars, connections, tasks>>, DialogOK'
  PROVE  Kept
<1>1. RepoOK' /\ TasksOK' /\ UNCHANGED <<past, Waiting>>
  BY IdleRepoKeeps, IdleTasksKeep DEF Inv, repoVars
<1> QED
  BY <1>1 DEF Kept, Inv, MirrorStep

LEMMA OpenEditKeeps ==
  ASSUME Inv, NEW i \in Ids, OpenEdit(i)
  PROVE  Kept
<1>1. /\ opening \in Nat /\ MaxOpenings \in Nat
      /\ opening + 1 \in 1 .. MaxOpenings
      /\ 1 .. opening \subseteq 1 .. opening + 1
  BY SavedAssumption DEF OpenEdit, Inv, DialogOK
<1>2. asking' \subseteq (1 .. opening') \X {"get", "scan"}
  BY <1>1 DEF OpenEdit, Inv, DialogOK
<1>3. /\ subject' \in [1 .. MaxOpenings -> Ids \cup {NoOne}]
      /\ \A o \in 1 .. opening' : subject'[o] \in Ids
  BY <1>1 DEF OpenEdit, Inv, DialogOK
<1>4. FormIsOwn'
  BY DEF OpenEdit, FormIsOwn
<1>5. opening' \in 0 .. MaxOpenings
  BY <1>1 DEF OpenEdit
<1>6. DialogOK'
  BY <1>2, <1>3, <1>4, <1>5 DEF OpenEdit, Inv, DialogOK
<1> QED
  BY <1>6, FormKeeps DEF OpenEdit

LEMMA CancelEditKeeps == Inv /\ CancelEdit => Kept
<1> SUFFICES ASSUME Inv, CancelEdit PROVE Kept
  OBVIOUS
<1>1. DialogOK'
  BY DEF CancelEdit, Inv, DialogOK, FormIsOwn, formVars
<1> QED
  BY <1>1, FormKeeps DEF CancelEdit

LEMMA TickClearKeeps == Inv /\ TickClear => Kept
<1> SUFFICES ASSUME Inv, TickClear PROVE Kept
  OBVIOUS
<1>1. DialogOK'
  BY DEF TickClear, Inv, DialogOK, FormIsOwn
<1> QED
  BY <1>1, FormKeeps DEF TickClear

LEMMA GotKeeps ==
  ASSUME Inv, NEW o \in 1 .. MaxOpenings, Got(o)
  PROVE  Kept
<1>1. o \in 1 .. opening /\ subject[o] \in Ids
  BY DEF Got, Inv, DialogOK
<1>2. secretKind' \in Kinds \cup {"unknown"}
  BY <1>1 DEF Got, Inv, DialogOK, RepoOK
<1>3. secretKind # "unknown" => secretKind' # "unknown"
  BY <1>1 DEF Got, Inv, RepoOK, Kinds
<1>4. editing # NoOne /\ secretKind' # "unknown" => <<opening, "get">> \notin asking'
  BY DEF Got, Cancelled, Inv, DialogOK, FormIsOwn
<1>5. FormIsOwn'
  BY <1>3, <1>4 DEF Got, Inv, DialogOK, FormIsOwn
<1>6. DialogOK'
  BY <1>2, <1>5 DEF Got, Inv, DialogOK
<1> QED
  BY <1>6, FormKeeps DEF Got

LEMMA ProbedKeeps ==
  ASSUME Inv, NEW o \in 1 .. MaxOpenings, Probed(o)
  PROVE  Kept
<1>1. FormIsOwn'
  BY DEF Probed, Cancelled, Inv, DialogOK, FormIsOwn
<1>2. DialogOK'
  BY <1>1 DEF Probed, Inv, DialogOK
<1> QED
  BY <1>2, FormKeeps DEF Probed

-----------------------------------------------------------------------------
(* The steps of a task.                                                    *)
LEMMA RepoSaveKeeps ==
  ASSUME Inv, NEW t \in Tasks, RepoSave(t)
  PROVE  Kept
<1> DEFINE task == tasks[t]
<1>1. /\ task.op = "save" /\ task.id \in Ids /\ task.meta \in Metas
      /\ task.secret \in Kinds \cup {"none", "keep"} /\ task.edit \in BOOLEAN
  BY DEF RepoSave, Inv, TasksOK, TasksUpTo, NoTask
<1>2. [Present EXCEPT ![task.id] = task.meta] \in Lists
  BY <1>1, PresentType DEF Inv, Lists
<1>3. past' = Append(past, [Present EXCEPT ![task.id] = task.meta])
  BY DEF RepoSave
<1>4. TasksOK' /\ past' \in Seq(Lists) /\ Len(past') >= 1 /\ MirrorStep
  BY <1>1, <1>2, <1>3, WriteKeeps DEF RepoSave
<1>5. secrets' \in [Ids -> Kinds \cup {"none"}]
  BY <1>1 DEF RepoSave, Inv, RepoOK
<1>6. DialogOK' /\ UNCHANGED connections
  BY IdleDialogKeeps DEF RepoSave, Inv
<1> QED
  BY <1>4, <1>5, <1>6 DEF Kept, Inv, RepoOK

LEMMA RepoDeleteKeeps ==
  ASSUME Inv, NEW t \in Tasks, RepoDelete(t)
  PROVE  Kept
<1> DEFINE id == tasks[t].id
<1>1. tasks[t].op = "remove" /\ id \in Ids
  BY DEF RepoDelete, Inv, TasksOK, TasksUpTo, NoTask
<1>2. [Present EXCEPT ![id] = Absent] \in Lists
  BY <1>1, PresentType DEF Inv, Lists
<1>3. past' = past \/ past' = Append(past, [Present EXCEPT ![id] = Absent])
  BY DEF RepoDelete, repoVars
<1>4. TasksOK' /\ past' \in Seq(Lists) /\ Len(past') >= 1 /\ MirrorStep
  BY <1>1, <1>2, <1>3, WriteKeeps DEF RepoDelete
<1>5. secrets' \in [Ids -> Kinds \cup {"none"}]
  BY <1>1 DEF RepoDelete, Inv, RepoOK, repoVars
<1>6. DialogOK' /\ UNCHANGED connections
  BY IdleDialogKeeps DEF RepoDelete, Inv
<1> QED
  BY <1>4, <1>5, <1>6 DEF Kept, Inv, RepoOK

LEMMA RepoListKeeps ==
  ASSUME Inv, NEW t \in Tasks, RepoList(t)
  PROVE  Kept
<1>1. /\ tasks[t].op = "list" /\ tasks[t].edit \in BOOLEAN
      /\ tasks[t].wrote \in 0 .. Len(past)
  BY DEF RepoList, Inv, TasksOK, TasksUpTo, NoTask
<1>2. Len(past) \in Nat /\ Len(past) >= 1 /\ UNCHANGED <<past, connections>>
  BY DEF RepoList, repoVars, Inv, RepoOK
<1> DEFINE read == [op |-> "listed", edit |-> tasks[t].edit,
                    wrote |-> tasks[t].wrote, read |-> Len(past)]
<1>3. read \in TasksUpTo(Len(past)) /\ read.op = "listed" /\ read.wrote <= read.read
  BY <1>1, <1>2 DEF TasksUpTo
<1>4. tasks' = [tasks EXCEPT ![t] = read]
  BY DEF RepoList
<1>5. read.wrote = tasks[t].wrote
  OBVIOUS
<1> HIDE DEF read
<1>6. TasksOK'
  BY <1>2, <1>3, <1>4 DEF Inv, TasksOK
<1>7. UNCHANGED Waiting
  BY <1>1, <1>3, <1>4, <1>5 DEF Waiting, Inv, TasksOK
<1>8. DialogOK' /\ RepoOK'
  BY IdleDialogKeeps, IdleRepoKeeps DEF RepoList, Inv
<1> QED
  BY <1>2, <1>6, <1>7, <1>8 DEF Kept, Inv, MirrorStep

(* A task that is over is none that the mirror waits for.                  *)
LEMMA TaskEnds ==
  ASSUME Inv, NEW t \in Tasks, tasks' = [tasks EXCEPT ![t] = NoTask], UNCHANGED past
  PROVE  TasksOK' /\ Waiting' = [Waiting EXCEPT ![t] = 0]
<1>1. NoTask \in TasksUpTo(Len(past)) /\ NoTask.op \notin {"list", "listed"}
  BY DEF NoTask, TasksUpTo
<1>2. TasksOK'
  BY <1>1 DEF Inv, TasksOK
<1> QED
  BY <1>1, <1>2 DEF Waiting, Inv, TasksOK

(* What is set was read after the write: the mirror acknowledges it, or    *)
(* takes it for a refresh when there was no write.                         *)
LEMMA ListAnsweredKeeps ==
  ASSUME Inv, NEW t \in Tasks, ListAnswered(t)
  PROVE  Kept
<1>1. /\ tasks[t].op = "listed" /\ tasks[t].edit \in BOOLEAN
      /\ tasks[t].wrote \in 0 .. Len(past) /\ tasks[t].read \in 1 .. Len(past)
      /\ tasks[t].wrote <= tasks[t].read
  BY DEF ListAnswered, Inv, TasksOK, TasksUpTo, NoTask
<1>2. Len(past) \in Nat /\ UNCHANGED past /\ past \in Seq(Lists)
  BY DEF ListAnswered, repoVars, Inv, RepoOK
<1>3. connections' = past[tasks[t].read] /\ connections' \in Lists
  BY <1>1, <1>2 DEF ListAnswered
<1>4. TasksOK' /\ Waiting' = [Waiting EXCEPT ![t] = 0]
  BY <1>2, TaskEnds DEF ListAnswered
<1>5. Waiting[t] = tasks[t].wrote /\ Waiting = [Waiting EXCEPT ![t] = tasks[t].wrote]
  BY <1>1 DEF Waiting
<1>6. Mirror!MirrorNext
  <2>1. CASE tasks[t].wrote = 0
    <3>1. UNCHANGED Waiting
      BY <1>4, <1>5, <2>1
    <3>2. \E at \in 1 .. Len(past) : connections' = past[at]
      BY <1>1, <1>3
    <3>3. Mirror!Refresh
      BY <1>2, <3>1, <3>2 DEF Mirror!Refresh, Waiting
    <3> QED
      BY <3>3 DEF Mirror!MirrorNext
  <2>2. CASE tasks[t].wrote # 0
    <3>1. \E at \in Waiting[t] .. Len(past) : connections' = past[at]
      BY <1>1, <1>2, <1>3, <1>5
    <3>2. Waiting[t] # 0
      BY <1>5, <2>2
    <3>3. Mirror!Acknowledge(t)
      BY <1>2, <1>4, <3>1, <3>2 DEF Mirror!Acknowledge, Waiting
    <3> QED
      BY <3>3 DEF Mirror!MirrorNext
  <2> QED
    BY <2>1, <2>2
<1>7. DialogOK'
  BY DEF ListAnswered, Inv, DialogOK, FormIsOwn, formVars
<1>8. RepoOK'
  BY <1>3 DEF ListAnswered, Inv, RepoOK, repoVars
<1> QED
  BY <1>4, <1>6, <1>7, <1>8 DEF Kept, Inv, MirrorStep

(* A list that fails after a write is the writer's giving up; nothing else *)
(* that fails is seen by the mirror.                                       *)
LEMMA TaskFailsKeeps ==
  ASSUME Inv, NEW t \in Tasks, TaskFails(t)
  PROVE  Kept
<1>1. UNCHANGED <<past, connections>>
  BY DEF TaskFails, repoVars
<1>2. TasksOK' /\ Waiting' = [Waiting EXCEPT ![t] = 0]
  BY <1>1, TaskEnds DEF TaskFails
<1>3. MirrorStep
  <2>1. CASE Waiting[t] = 0
    <3>1. UNCHANGED Waiting
      BY <1>2, <2>1 DEF Waiting
    <3> QED
      BY <1>1, <3>1 DEF MirrorStep
  <2>2. CASE Waiting[t] # 0
    <3>1. Mirror!GiveUp(t)
      BY <1>1, <1>2, <2>2 DEF Mirror!GiveUp, Waiting
    <3>2. Mirror!MirrorNext
      BY <3>1 DEF Mirror!MirrorNext
    <3> QED
      BY <3>2 DEF MirrorStep
  <2> QED
    BY <2>1, <2>2
<1>4. submitting' \in BOOLEAN
  BY DEF TaskFails
<1>5. DialogOK'
  BY <1>4 DEF TaskFails, Inv, DialogOK, FormIsOwn, formVars
<1>6. RepoOK'
  BY IdleRepoKeeps DEF TaskFails, Inv
<1> QED
  BY <1>2, <1>3, <1>5, <1>6 DEF Kept, Inv

-----------------------------------------------------------------------------
LEMMA InitOK == Init => Inv /\ Mirror!MirrorInit
<1> SUFFICES ASSUME Init PROVE Inv /\ Mirror!MirrorInit
  OBVIOUS
<1>1. past \in Seq(Lists) /\ Len(past) = 1
  BY SavedAssumption DEF Init
<1>2. RepoOK
  BY <1>1, SavedAssumption DEF Init, RepoOK
<1>3. TasksOK
  BY <1>1 DEF Init, TasksOK, TasksUpTo, NoTask
<1>4. DialogOK
  <2>1. asking = {} /\ opening = 0 /\ 0 \in 0 .. MaxOpenings
    BY SavedAssumption DEF Init
  <2>2. subject \in [1 .. MaxOpenings -> Ids \cup {NoOne}]
    BY DEF Init
  <2>3. \A o \in 1 .. opening : subject[o] \in Ids
    BY <2>1
  <2> QED
    BY <2>1, <2>2, <2>3 DEF Init, DialogOK, FormIsOwn
<1>5. Waiting = [t \in Tasks |-> 0]
  BY DEF Init, Waiting, NoTask
<1>6. Mirror!MirrorInit
  BY <1>1, <1>5 DEF Init, Mirror!MirrorInit, Waiting
<1> QED
  BY <1>2, <1>3, <1>4, <1>6 DEF Inv

LEMMA StepKeeps == Inv /\ [Next]_vars => Kept
<1> SUFFICES ASSUME Inv, [Next]_vars PROVE Kept
  OBVIOUS
<1>1. CASE UNCHANGED vars
  <2>1. UNCHANGED <<repoVars, connections, tasks, dialogVars>>
    BY <1>1 DEF vars
  <2>2. DialogOK'
    BY <2>1, IdleDialogKeeps DEF Inv
  <2> QED
    BY <2>1, <2>2, FormKeeps
<1>2. CASE PageRefresh
  BY <1>2, PageRefreshKeeps
<1>3. CASE \E meta \in Metas, kind \in Kinds \cup {"keep"} : SaveNew(meta, kind)
  BY <1>3, SaveNewKeeps
<1>4. CASE \E i \in Ids : RemoveDevice(i) \/ OpenEdit(i)
  BY <1>4, RemoveDeviceKeeps, OpenEditKeeps
<1>5. CASE CancelEdit \/ TickClear
  BY <1>5, CancelEditKeeps, TickClearKeeps
<1>6. CASE \E meta \in Metas, typed \in BOOLEAN : Submit(meta, typed)
  BY <1>6, SubmitKeeps
<1>7. CASE \E o \in 1 .. MaxOpenings : Got(o) \/ Probed(o)
  BY <1>7, GotKeeps, ProbedKeeps
<1>8. CASE \E t \in Tasks :
             RepoSave(t) \/ RepoDelete(t) \/ RepoList(t) \/ ListAnswered(t) \/ TaskFails(t)
  BY <1>8, RepoSaveKeeps, RepoDeleteKeeps, RepoListKeeps, ListAnsweredKeeps, TaskFailsKeeps
<1> QED
  BY <1>1, <1>2, <1>3, <1>4, <1>5, <1>6, <1>7, <1>8 DEF Next

-----------------------------------------------------------------------------
LEMMA SavedInv == Spec => []Inv
<1>1. Init => Inv
  BY InitOK
<1>2. Inv /\ [Next]_vars => Inv'
  BY StepKeeps DEF Kept
<1> QED
  BY <1>1, <1>2, PTL DEF Spec

(* Every variable of the store and of the dialog has its type.             *)
THEOREM SavedTypeOK == Spec => []TypeOK
<1>1. Inv => TypeOK
  BY DEF Inv, RepoOK, TasksOK, DialogOK, TypeOK
<1> QED
  BY <1>1, SavedInv, PTL

(* What the edit dialog says of the stored secret and of the host was      *)
(* asked for by its own opening, whatever answers are still under way      *)
(* (EditConnectionModal, the cancelled flags of its effects).              *)
THEOREM SavedFormIsOwn == Spec => []FormIsOwn
<1>1. Inv => FormIsOwn
  BY DEF Inv, DialogOK
<1> QED
  BY <1>1, SavedInv, PTL

(* The page is the mirror that SavedList describes: it shows only lists    *)
(* the repository held, and save and remove return with a list that has    *)
(* their write (savedConnections.ts, save and remove await refresh).       *)
THEOREM SavedImplementsMirror == Spec => ImplementsMirror
<1>1. Init => Mirror!MirrorInit
  BY InitOK
<1>2. Inv /\ [Next]_vars => [Mirror!MirrorNext]_(Mirror!mirrorVars)
  BY StepKeeps DEF Kept, MirrorStep, Mirror!mirrorVars, Waiting
<1> QED
  BY <1>1, <1>2, SavedInv, PTL DEF Spec, ImplementsMirror, Mirror!MirrorSpec
=============================================================================
