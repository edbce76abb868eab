----------------------------- MODULE FileManager -----------------------------
(***************************************************************************)
(* frontend FileManagerPanel and its store over the SSH and SFTP bindings: *)
(* one panel, the runs of its connect effect with their SSH sessions, the  *)
(* requests for remote listings, the operations of the toolbar and the     *)
(* serial queue of transfers.                                              *)
(*                                                                         *)
(* The queue, the request counter and the session reference belong to the  *)
(* panel and survive a run of the effect; the store is reset by each.      *)
(* Every answer of the backend arrives in a step of its own.  The local    *)
(* listing, which works as the remote one, and percentages are left out.   *)
(***************************************************************************)
EXTENDS Naturals, Sequences

CONSTANTS
  Dirs,         \* remote directories
  Home,         \* the one the server resolves as home
  MaxRuns,      \* bound: how often the effect runs
  MaxRequests,  \* bound: no user action once so many listings were asked for
  MaxTransfers  \* bound: how many transfers are queued in all

ASSUME HomeAssumption == Home \in Dirs
ASSUME BoundsAssumption ==
  MaxRuns \in Nat \ {0} /\ MaxRequests \in Nat /\ MaxTransfers \in Nat

Runs == 1 .. MaxRuns
Ids == 1 .. MaxTransfers
None == [path |-> "none", on |-> 0, req |-> 0]

VARIABLES
  mounted,   \* the panel is on the page
  wanted,    \* how many runs of the effect are due
  run,       \* the last run
  at,        \* where the promise chain of a run is
  phase,     \* what the panel shows
  sid,       \* sessionIdRef: the run whose session it is, 0 for null
  session,   \* a run's SSH session in the backend
  answer,    \* the answer under way to the call a run awaits
  closing,   \* runs with an ssh.close under way
  req,       \* remoteReqRef
  requests,  \* listings under way: [req, path, on]
  shown,     \* remotePath and remoteEntries, and the request they came from
  loading,   \* remoteLoading
  op,        \* a mkdir, rename or delete under way: [path, on], or None
  dialog,    \* the session of the upload or download in a file dialog, or 0
  queue,     \* the jobs of chainRef not yet done, as the session they use;
             \*   0 is the refresh at the end of an upload
  working,   \* the first of them: "idle", "transfer", or "refresh"
  awaited,   \* the request the refresh waits for
  seq,       \* transferSeq
  active,    \* activeTransferRef, 0 for null
  marked     \* the transfers that the store shows as active; what has ended,
             \*   and is shown until it is removed, is left out

runVars == <<mounted, wanted, run, at, phase, sid, session, answer, closing>>
listVars == <<req, requests, shown, loading>>
opVars == <<op, dialog>>
queueVars == <<queue, working, awaited, seq, active, marked>>
filesVars == <<runVars, listVars, opVars, queueVars>>

FilesInit ==
  /\ mounted = TRUE /\ wanted = 1 /\ run = 1
  /\ at = [a \in Runs |-> IF a = 1 THEN "connecting" ELSE "none"]
  /\ phase = "connecting"
  /\ sid = 0
  /\ session = [a \in Runs |-> "none"]
  /\ answer = [a \in Runs |-> "none"]
  /\ closing = {}
  /\ req = 0 /\ requests = {} /\ shown = None /\ loading = FALSE
  /\ op = None /\ dialog = 0
  /\ queue = <<>> /\ working = "idle" /\ awaited = 0
  /\ seq = 0 /\ active = 0
  /\ marked = {}

Cancelled(a) == a < run \/ ~mounted

-----------------------------------------------------------------------------
(* loadRemote: nothing without a session, else a request with the next     *)
(* number.                                                                 *)
LoadRemote(path, on) ==
  IF on = 0 THEN UNCHANGED listVars
  ELSE /\ req' = req + 1
       /\ requests' = requests \cup {[req |-> req + 1, path |-> path, on |-> on]}
       /\ loading' = TRUE
       /\ UNCHANGED shown

(* Mutant: whatever arrives is shown.                                      *)
MutListed(r, ok) ==
  /\ r \in requests
  /\ ok => session[r.on] = "alive"
  /\ requests' = requests \ {r}
  /\ shown' = IF ok THEN [path |-> r.path, on |-> r.on, req |-> r.req] ELSE shown
  /\ loading' = (r.req # req /\ loading)
  /\ UNCHANGED <<runVars, req, opVars, queueVars>>

(* Mutant: a listing that fails leaves the panel loading.                  *)
MutListedNoFinally(r, ok) ==
  /\ r \in requests
  /\ ok => session[r.on] = "alive"
  /\ requests' = requests \ {r}
  /\ shown' = IF ok /\ r.req = req
              THEN [path |-> r.path, on |-> r.on, req |-> r.req] ELSE shown
  /\ loading' = ((~ok \/ r.req # req) /\ loading)
  /\ UNCHANGED <<runVars, req, opVars, queueVars>>

(* Only the answer to the last request counts.                             *)
Listed(r, ok) ==
  /\ r \in requests
  /\ ok => session[r.on] = "alive"
  /\ requests' = requests \ {r}
  /\ IF r.req = req
     THEN /\ shown' = IF ok THEN [path |-> r.path, on |-> r.on, req |-> r.req] ELSE shown
          /\ loading' = FALSE
     ELSE UNCHANGED <<shown, loading>>
  /\ UNCHANGED <<runVars, req, opVars, queueVars>>

-----------------------------------------------------------------------------
(* The cleanup of the effect closes the session the reference names and    *)
(* resets the store.                                                       *)
Cleanup ==
  /\ closing' = IF sid = 0 THEN closing ELSE closing \cup {sid}
  /\ sid' = 0
  /\ shown' = None /\ loading' = FALSE
  /\ marked' = {}

Rerun ==
  /\ mounted
  /\ wanted > run
  /\ Cleanup
  /\ run' = run + 1
  /\ at' = [at EXCEPT ![run + 1] = "connecting"]
  /\ phase' = "connecting"
  /\ UNCHANGED <<mounted, wanted, session, answer, req, requests, opVars,
                 queue, working, awaited, seq, active>>

(* The retry button of a failed panel, and a change of the UI language,    *)
(* which gives the effect a new connectErrorText, make the effect due.     *)
Retry == phase = "error"
LanguageChanges == TRUE

AskForRerun ==
  /\ mounted
  /\ Retry \/ LanguageChanges
  /\ wanted = run /\ wanted < MaxRuns
  /\ wanted' = wanted + 1
  /\ UNCHANGED <<mounted, run, at, phase, sid, session, answer, closing,
                 listVars, opVars, queueVars>>

Unmount ==
  /\ mounted
  /\ mounted' = FALSE
  /\ Cleanup
  /\ UNCHANGED <<wanted, run, at, phase, session, answer, req, requests, opVars,
                 queue, working, awaited, seq, active>>

Takes(a, place, kind) ==
  /\ at[a] = place
  /\ answer[a] = kind
  /\ answer' = [answer EXCEPT ![a] = "none"]

(* Mutant: a session that comes too late is left alone.                    *)
MutConnected(a) ==
  /\ Takes(a, "connecting", "ok")
  /\ at' = [at EXCEPT ![a] = IF Cancelled(a) THEN "stopped" ELSE "homes"]
  /\ sid' = IF Cancelled(a) THEN sid ELSE a
  /\ UNCHANGED <<mounted, wanted, run, phase, session, closing, listVars, opVars,
                 queueVars>>

(* A session that comes after the cleanup is closed at once; else it is    *)
(* the panel's, and the home directories are asked for.                    *)
Connected(a) ==
  /\ Takes(a, "connecting", "ok")
  /\ IF Cancelled(a)
     THEN /\ at' = [at EXCEPT ![a] = "stopped"]
          /\ closing' = closing \cup {a}
          /\ UNCHANGED sid
     ELSE /\ at' = [at EXCEPT ![a] = "homes"]
          /\ sid' = a
          /\ UNCHANGED closing
  /\ UNCHANGED <<mounted, wanted, run, phase, session, listVars, opVars, queueVars>>

HomesKnown(a) ==
  /\ Takes(a, "homes", "ok")
  /\ at' = [at EXCEPT ![a] = "stopped"]
  /\ IF Cancelled(a) THEN UNCHANGED <<phase, listVars>>
     ELSE phase' = "ready" /\ LoadRemote(Home, sid)
  /\ UNCHANGED <<mounted, wanted, run, sid, session, closing, opVars, queueVars>>

(* The catch: what was connected stays so until the cleanup.               *)
ConnectFails(a) ==
  /\ \E place \in {"connecting", "homes"} : Takes(a, place, "error")
  /\ at' = [at EXCEPT ![a] = "stopped"]
  /\ phase' = IF Cancelled(a) THEN phase ELSE "error"
  /\ UNCHANGED <<mounted, wanted, run, sid, session, closing, listVars, opVars,
                 queueVars>>

Lifecycle == \/ AskForRerun \/ Rerun \/ Unmount
             \/ \E a \in Runs : Connected(a) \/ HomesKnown(a) \/ ConnectFails(a)

-----------------------------------------------------------------------------
(* The user, on a panel that is ready and shows a listing.                 *)
Usable == mounted /\ phase = "ready" /\ shown # None /\ wanted = run

Navigate(path) ==
  /\ Usable
  /\ req < MaxRequests
  /\ LoadRemote(path, sid)
  /\ UNCHANGED <<runVars, opVars, queueVars>>

(* doMkdir, doRename and doDelete: the directory is the one shown when     *)
(* they start; a delete lists it again even if it fails, with whatever     *)
(* session the panel has by then.                                          *)
StartOp ==
  /\ Usable
  /\ op = None /\ sid # 0
  /\ req < MaxRequests
  /\ op' = [path |-> shown.path, on |-> sid]
  /\ UNCHANGED <<runVars, listVars, dialog, queueVars>>

EndOp(ok, delete) ==
  /\ op # None
  /\ ok => session[op.on] = "alive"
  /\ op' = None
  /\ IF ok \/ delete THEN LoadRemote(op.path, sid) ELSE UNCHANGED listVars
  /\ UNCHANGED <<runVars, dialog, queueVars>>

(* doUpload and doDownload: the session is the one from before the dialog. *)
OpenDialog ==
  /\ Usable
  /\ dialog = 0 /\ sid # 0
  /\ dialog' = sid
  /\ UNCHANGED <<runVars, listVars, op, queueVars>>

CancelDialog ==
  /\ dialog # 0
  /\ dialog' = 0
  /\ UNCHANGED <<runVars, listVars, op, queueVars>>

Queued == seq + Len(SelectSeq(queue, LAMBDA on : on # 0))
            - IF working = "transfer" THEN 1 ELSE 0

Upload(n) ==
  /\ dialog # 0
  /\ Queued + n <= MaxTransfers
  /\ queue' = queue \o [i \in 1 .. n |-> dialog] \o <<0>>
  /\ dialog' = 0
  /\ UNCHANGED <<runVars, listVars, op, working, awaited, seq, active, marked>>

Download ==
  /\ dialog # 0
  /\ Queued < MaxTransfers
  /\ queue' = Append(queue, dialog)
  /\ dialog' = 0
  /\ UNCHANGED <<runVars, listVars, op, working, awaited, seq, active, marked>>

User == \/ \E path \in Dirs : Navigate(path)
        \/ StartOp \/ OpenDialog \/ CancelDialog \/ Download \/ \E n \in Ids : Upload(n)

-----------------------------------------------------------------------------
(* enqueueTransfer: the next job starts when the one before has ended,     *)
(* also after its session, its run and the panel have gone.                *)
StartTransfer ==
  /\ working = "idle" /\ queue # <<>> /\ Head(queue) # 0
  /\ working' = "transfer"
  /\ seq' = seq + 1
  /\ active' = seq'
  /\ marked' = marked \cup {seq'}
  /\ UNCHANGED <<runVars, listVars, opVars, queue, awaited>>

(* Mutant: a transfer that fails breaks the chain.                         *)
MutEndTransferBreaks(ok) ==
  /\ working = "transfer"
  /\ ok /\ session[Head(queue)] = "alive"
  /\ marked' = marked \ {active}
  /\ active' = 0
  /\ working' = "idle"
  /\ queue' = Tail(queue)
  /\ UNCHANGED <<runVars, listVars, opVars, awaited, seq>>

(* runTransfer's bookkeeping; the item may have gone with a reset.         *)
EndTransfer(ok) ==
  /\ working = "transfer"
  /\ ok => session[Head(queue)] = "alive"
  /\ marked' = marked \ {active}
  /\ active' = 0
  /\ working' = "idle"
  /\ queue' = Tail(queue)
  /\ UNCHANGED <<runVars, listVars, opVars, awaited, seq>>

(* The refresh after an upload lists the directory shown by then.          *)
StartRefresh ==
  /\ working = "idle" /\ queue # <<>> /\ Head(queue) = 0
  /\ IF shown = None \/ sid = 0
     THEN /\ queue' = Tail(queue)
          /\ UNCHANGED <<working, awaited, listVars>>
     ELSE /\ LoadRemote(shown.path, sid)
          /\ working' = "refresh"
          /\ awaited' = req'
          /\ UNCHANGED queue
  /\ UNCHANGED <<runVars, opVars, seq, active, marked>>

EndRefresh ==
  /\ working = "refresh"
  /\ \A r \in requests : r.req # awaited
  /\ working' = "idle"
  /\ awaited' = 0
  /\ queue' = Tail(queue)
  /\ UNCHANGED <<runVars, listVars, opVars, seq, active, marked>>

Chain == StartTransfer \/ StartRefresh \/ EndRefresh \/ \E ok \in BOOLEAN : EndTransfer(ok)

-----------------------------------------------------------------------------
(* The backend answers the calls of a run, sooner or later.                *)
Answers(a) ==
  /\ answer[a] = "none"
  /\ \/ /\ at[a] = "connecting"
        /\ \/ session' = [session EXCEPT ![a] = "alive"]
              /\ answer' = [answer EXCEPT ![a] = "ok"]
           \/ answer' = [answer EXCEPT ![a] = "error"] /\ UNCHANGED session
     \/ /\ at[a] = "homes"
        /\ \E k \in {"ok", "error"} :
             /\ k = "ok" => session[a] = "alive"
             /\ answer' = [answer EXCEPT ![a] = k]
        /\ UNCHANGED session
  /\ UNCHANGED <<mounted, wanted, run, at, phase, sid, closing, listVars, opVars,
                 queueVars>>

SessionDrops(a) ==
  /\ session[a] = "alive"
  /\ session' = [session EXCEPT ![a] = "closed"]
  /\ UNCHANGED <<mounted, wanted, run, at, phase, sid, answer, closing, listVars,
                 opVars, queueVars>>

SshClose(a) ==
  /\ a \in closing
  /\ closing' = closing \ {a}
  /\ session' = [session EXCEPT ![a] = "closed"]
  /\ UNCHANGED <<mounted, wanted, run, at, phase, sid, answer, listVars, opVars,
                 queueVars>>

Backend ==
  \/ \E a \in Runs : Answers(a) \/ SessionDrops(a) \/ SshClose(a)
  \/ \E r \in requests, ok \in BOOLEAN : Listed(r, ok)
  \/ \E ok, delete \in BOOLEAN : EndOp(ok, delete)

FilesNext == Lifecycle \/ User \/ Chain \/ Backend

FilesSpec == FilesInit /\ [][FilesNext]_filesVars

(* React runs the effect it owes, every call is answered (as long as the   *)
(* connection does not fall silent), and the promise chain goes on.        *)
FairFilesSpec ==
  /\ FilesSpec
  /\ WF_filesVars(Rerun) /\ WF_filesVars(Chain)
  /\ \A a \in Runs : /\ WF_filesVars(Answers(a)) /\ WF_filesVars(SshClose(a))
                     /\ WF_filesVars(Connected(a)) /\ WF_filesVars(HomesKnown(a))
                     /\ WF_filesVars(ConnectFails(a))
  /\ WF_filesVars(\E r \in requests, ok \in BOOLEAN : Listed(r, ok))

-----------------------------------------------------------------------------
(* Every variable has its type.                                            *)
FilesTypeOK ==
  /\ mounted \in BOOLEAN
  /\ run \in Runs /\ wanted \in {run, run + 1} \cap Runs
  /\ at \in [Runs -> {"none", "connecting", "homes", "stopped"}]
  /\ phase \in {"connecting", "ready", "error"}
  /\ sid \in {0, run} /\ (~mounted => sid = 0)
  /\ session \in [Runs -> {"none", "alive", "closed"}]
  /\ answer \in [Runs -> {"none", "ok", "error"}]
  /\ closing \subseteq Runs
  /\ req \in Nat /\ awaited \in 0 .. req
  /\ requests \subseteq [req : 1 .. req, path : Dirs, on : Runs]
  /\ shown = None \/ shown \in [req : 1 .. req, path : Dirs, on : Runs]
  /\ loading \in BOOLEAN
  /\ op = None \/ op \in [path : Dirs, on : Runs]
  /\ dialog \in 0 .. MaxRuns
  /\ queue \in Seq(0 .. MaxRuns)
  /\ working \in {"idle", "transfer", "refresh"}
  /\ seq \in Nat /\ active \in 0 .. seq
  /\ marked \subseteq 1 .. seq

(* No SSH session outlives its run of the effect: one that is alive is the *)
(* panel's, is being closed, or will be once the answer with its id comes. *)
NoSessionLeaked ==
  \A a \in Runs :
    session[a] = "alive" =>
      sid = a \/ a \in closing \/ (at[a] = "connecting" /\ answer[a] = "ok")

(* While the panel shows that it is loading, the last listing asked for is *)
(* still to come, whatever was reset, superseded or failed meanwhile.      *)
LoadingIsAwaited == loading => \E r \in requests : r.req = req

(* Listings that overtake one another on the way are never shown in the    *)
(* wrong order.                                                            *)
ListingsInOrder ==
  [][shown # None /\ shown' # shown /\ shown' # None => shown'.req > shown.req]_filesVars

(* The queue is worked off, whatever fails: no job holds up the next, and  *)
(* no item stays marked as active, to whom later progress would be shown.  *)
QueueDrains == (queue # <<>>) ~> (queue = <<>> /\ marked = {})

=============================================================================
