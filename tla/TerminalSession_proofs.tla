----------------------- MODULE TerminalSession_proofs -----------------------
(***************************************************************************)
(* Proofs about TerminalSession, for any number of attempts: its types,    *)
(* that no SSH session is left behind, and that the status shown is about  *)
(* the last attempt.                                                       *)
(***************************************************************************)
EXTENDS TerminalSession, TLAPS

-----------------------------------------------------------------------------
(* NoSessionLeaked is not inductive: that a cleanup or a late answer finds *)
(* the session it has to close depends on how far an attempt can be.       *)

(* Runs come in order, and a panel on the page has had one.                *)
InOrder ==
  /\ mounted => run > 0
  /\ run <= wanted
  /\ \A a \in Attempts : a > run => at[a] = "none"

(* An attempt without a call has no session.                               *)
NoCallNoSession == \A a \in Attempts : at[a] = "none" => session[a] # "alive"

(* Only the last attempt of a panel on the page is not cancelled.          *)
OthersAreCancelled ==
  \A a \in 1 .. run : a # run \/ ~mounted => a \in cancelled

(* A session whose attempt still waits for ssh.connect is about to be      *)
(* announced to it.                                                        *)
SessionIsAnnounced ==
  \A a \in Attempts :
    at[a] = "connecting" /\ session[a] = "alive" => answer[a] = "ok"

(* An attempt that stopped before its shell has given its session up.      *)
StoppedIsClosing ==
  \A a \in Attempts : at[a] = "stopped" /\ session[a] = "alive" => a \in closing

LeakInv == /\ DataTypeOK
           /\ InOrder
           /\ NoCallNoSession
           /\ OthersAreCancelled
           /\ SessionIsAnnounced
           /\ StoppedIsClosing
           /\ NoSessionLeaked

-----------------------------------------------------------------------------
(* Before the panel is mounted nothing has been called.                    *)
LEMMA LeakInvInit == Init => LeakInv
<1> SUFFICES ASSUME Init PROVE LeakInv
  OBVIOUS
<1> USE MaxAttemptsAssumption DEF Init, Attempts
<1>1. DataTypeOK
  BY DEF DataTypeOK
<1>2. InOrder /\ NoCallNoSession /\ OthersAreCancelled
  BY DEF InOrder, NoCallNoSession, OthersAreCancelled
<1>3. SessionIsAnnounced /\ StoppedIsClosing /\ NoSessionLeaked
  BY DEF SessionIsAnnounced, StoppedIsClosing, NoSessionLeaked
<1> QED
  BY <1>1, <1>2, <1>3 DEF LeakInv

(* Every run of the effect: the cleanup closes what the last attempt knows *)
(* of, and the new attempt starts without a session.                       *)
LEMMA EffectKeeps ==
  ASSUME LeakInv, run < MaxAttempts, RunEffect, mounted',
         wanted' \in Attempts, run + 1 <= wanted',
         IF mounted THEN Cleanup(run)
                    ELSE run = 0 /\ UNCHANGED <<cancelled, input, closing>>
  PROVE  LeakInv'
<1> USE MaxAttemptsAssumption DEF Attempts
<1>1. /\ DataTypeOK /\ InOrder /\ NoCallNoSession /\ OthersAreCancelled
      /\ SessionIsAnnounced /\ StoppedIsClosing /\ NoSessionLeaked
  BY DEF LeakInv
<1>2. /\ run' = run + 1 /\ run' \in Attempts
      /\ at' = [at EXCEPT ![run + 1] = "connecting"]
      /\ UNCHANGED <<session, shell, answer, ended>>
      /\ session[run + 1] # "alive" /\ at[run + 1] = "none"
  BY <1>1 DEF RunEffect, DataTypeOK, InOrder, NoCallNoSession
<1>3. /\ cancelled' = IF mounted THEN cancelled \cup {run} ELSE cancelled
      /\ closing' = IF mounted /\ Known(run) THEN closing \cup {run} ELSE closing
      /\ mounted => run \in Attempts
      /\ ~mounted => run = 0
  BY <1>1 DEF Cleanup, DataTypeOK, InOrder
<1>4. DataTypeOK'
  <2>1. status' = "connecting" /\ input' = {}
    <3>1. input \subseteq {run} \cap Attempts
      BY <1>1 DEF DataTypeOK
    <3>2. input' = IF mounted THEN input \ {run} ELSE input
      BY DEF Cleanup
    <3> QED
      BY <1>3, <3>1, <3>2 DEF RunEffect
  <2>2. cancelled' \subseteq 1 .. run' /\ closing' \subseteq Attempts
    BY <1>1, <1>2, <1>3 DEF DataTypeOK
  <2> QED
    BY <1>1, <1>2, <2>1, <2>2 DEF DataTypeOK
<1>5. InOrder' /\ NoCallNoSession'
  BY <1>1, <1>2 DEF DataTypeOK, InOrder, NoCallNoSession
<1>6. OthersAreCancelled'
  BY <1>1, <1>2, <1>3 DEF DataTypeOK, OthersAreCancelled
<1>7. SessionIsAnnounced' /\ StoppedIsClosing'
  BY <1>1, <1>2, <1>3 DEF DataTypeOK, SessionIsAnnounced, StoppedIsClosing
<1>8. NoSessionLeaked'
  <2> SUFFICES ASSUME NEW a \in Attempts, session[a] = "alive"
               PROVE  a \in closing' \/ (at'[a] = "connecting" /\ answer[a] = "ok")
    BY <1>2 DEF NoSessionLeaked
  <2>1. a # run + 1 /\ at'[a] = at[a] /\ closing \subseteq closing'
    BY <1>1, <1>2, <1>3 DEF DataTypeOK
  <2>2. CASE mounted /\ a = run
    <3>1. at[a] \in {"connecting", "opening", "settled", "stopped"}
      BY <1>1 DEF DataTypeOK, NoCallNoSession
    <3> QED
      BY <1>1, <1>3, <2>1, <2>2, <3>1 DEF SessionIsAnnounced, StoppedIsClosing, Known
  <2>3. CASE ~(mounted /\ a = run)
    BY <1>1, <2>1, <2>3 DEF NoSessionLeaked
  <2> QED
    BY <2>2, <2>3
<1> QED
  BY <1>4, <1>5, <1>6, <1>7, <1>8 DEF LeakInv

(* The steps of the panel that start no run.                               *)
LEMMA UnmountKeeps == LeakInv /\ Unmount => LeakInv'
<1> SUFFICES ASSUME LeakInv, Unmount PROVE LeakInv'
  OBVIOUS
<1> USE MaxAttemptsAssumption DEF Attempts
<1>1. /\ DataTypeOK /\ InOrder /\ NoCallNoSession /\ OthersAreCancelled
      /\ SessionIsAnnounced /\ StoppedIsClosing /\ NoSessionLeaked
  BY DEF LeakInv
<1>2. /\ run \in Attempts /\ mounted /\ ~mounted'
      /\ cancelled' = cancelled \cup {run}
      /\ closing' = IF Known(run) THEN closing \cup {run} ELSE closing
      /\ UNCHANGED <<storeVars, run, at, session, shell, answer, ended>>
  BY <1>1 DEF Unmount, Cleanup, DataTypeOK, InOrder
<1>3. DataTypeOK'
  BY <1>1, <1>2 DEF Unmount, Cleanup, DataTypeOK, storeVars
<1>4. InOrder' /\ NoCallNoSession' /\ SessionIsAnnounced' /\ StoppedIsClosing'
  BY <1>1, <1>2
     DEF InOrder, NoCallNoSession, SessionIsAnnounced, StoppedIsClosing, storeVars
<1>5. OthersAreCancelled'
  BY <1>1, <1>2 DEF OthersAreCancelled
<1>6. NoSessionLeaked'
  <2> SUFFICES ASSUME NEW a \in Attempts, session[a] = "alive"
               PROVE  a \in closing' \/ (at[a] = "connecting" /\ answer[a] = "ok")
    BY <1>2 DEF NoSessionLeaked
  <2>1. at[a] \in {"connecting", "opening", "settled", "stopped"}
    BY <1>1 DEF DataTypeOK, NoCallNoSession
  <2> QED
    BY <1>1, <1>2, <2>1
       DEF NoSessionLeaked, SessionIsAnnounced, StoppedIsClosing, Known
<1> QED
  BY <1>3, <1>4, <1>5, <1>6 DEF LeakInv

LEMMA ConnectedKeeps ==
  ASSUME LeakInv, NEW a \in Attempts, Connected(a) PROVE LeakInv'
<1> USE DEF Attempts
<1>1. /\ DataTypeOK /\ InOrder /\ NoCallNoSession /\ OthersAreCancelled
      /\ SessionIsAnnounced /\ StoppedIsClosing /\ NoSessionLeaked
  BY DEF LeakInv
<1>2. /\ at[a] = "connecting"
      /\ at' = [at EXCEPT ![a] = IF a \in cancelled THEN "stopped" ELSE "opening"]
      /\ closing' = IF a \in cancelled THEN closing \cup {a} ELSE closing
      /\ answer' = [answer EXCEPT ![a] = "none"]
      /\ UNCHANGED <<mounted, status, wanted, run, cancelled, input, session,
                     shell, ended>>
  BY DEF Connected, Takes, storeVars
<1>3. a \in 1 .. run
  BY <1>1, <1>2 DEF DataTypeOK, InOrder
<1>4. DataTypeOK'
  BY <1>1, <1>2 DEF DataTypeOK
<1>5. InOrder' /\ NoCallNoSession' /\ OthersAreCancelled'
  BY <1>1, <1>2 DEF DataTypeOK, InOrder, NoCallNoSession, OthersAreCancelled
<1>6. SessionIsAnnounced' /\ StoppedIsClosing'
  BY <1>1, <1>2 DEF DataTypeOK, SessionIsAnnounced, StoppedIsClosing
<1>7. NoSessionLeaked'
  BY <1>1, <1>2, <1>3 DEF DataTypeOK, NoSessionLeaked, OthersAreCancelled, Live
<1> QED
  BY <1>4, <1>5, <1>6, <1>7 DEF LeakInv

LEMMA SettlesKeeps ==
  ASSUME LeakInv, NEW a \in Attempts, Opened(a) \/ Failed(a) PROVE LeakInv'
<1> USE DEF Attempts
<1>1. /\ DataTypeOK /\ InOrder /\ NoCallNoSession /\ OthersAreCancelled
      /\ SessionIsAnnounced /\ StoppedIsClosing /\ NoSessionLeaked
  BY DEF LeakInv
<1>2. /\ \/ at[a] = "connecting" /\ answer[a] = "error" /\ at'[a] = "stopped"
         \/ at[a] = "opening" /\ at'[a] = "settled"
      /\ at' = [at EXCEPT ![a] = at'[a]]
      /\ answer' = [answer EXCEPT ![a] = "none"]
      /\ UNCHANGED <<mounted, wanted, run, cancelled, session, shell, closing,
                     ended>>
  BY <1>1 DEF Opened, Failed, Takes, Known, DataTypeOK
<1>3. a \in 1 .. run
  BY <1>1, <1>2 DEF DataTypeOK, InOrder
<1>4. /\ status' \in {"idle", "connecting", "connected", "error", "closed"}
      /\ input' \subseteq {run} \cap Attempts
  <2>1. CASE Opened(a)
    BY <1>1, <1>3, <2>1 DEF Opened, DataTypeOK, OthersAreCancelled
  <2>2. CASE Failed(a)
    BY <1>1, <2>2 DEF Failed, DataTypeOK
  <2> QED
    BY <2>1, <2>2
<1>5. DataTypeOK'
  BY <1>1, <1>2, <1>4 DEF DataTypeOK
<1>6. InOrder' /\ NoCallNoSession' /\ OthersAreCancelled'
  <2>0. \A b \in Attempts : at'[b] = "none" <=> at[b] = "none"
    BY <1>1, <1>2 DEF DataTypeOK
  <2>1. InOrder' /\ NoCallNoSession'
    BY <1>1, <1>2, <1>3, <2>0 DEF InOrder, NoCallNoSession
  <2>2. OthersAreCancelled'
    BY <1>1, <1>2 DEF OthersAreCancelled
  <2> QED
    BY <2>1, <2>2
<1>7. SessionIsAnnounced' /\ StoppedIsClosing'
  BY <1>1, <1>2 DEF DataTypeOK, SessionIsAnnounced, StoppedIsClosing
<1>8. NoSessionLeaked'
  <2> SUFFICES ASSUME NEW b \in Attempts, session'[b] = "alive"
               PROVE  \/ mounted' /\ Live(b)' /\ b = run'
                      \/ b \in closing'
                      \/ at'[b] = "connecting" /\ answer'[b] = "ok"
    BY DEF NoSessionLeaked
  <2>1. \/ mounted /\ Live(b) /\ b = run
        \/ b \in closing
        \/ at[b] = "connecting" /\ answer[b] = "ok"
    BY <1>1, <1>2 DEF NoSessionLeaked
  <2>2. CASE b = a
    <3>1. ~(at[a] = "connecting" /\ answer[a] = "ok")
      BY <1>1, <1>2, <2>2 DEF SessionIsAnnounced
    <3> QED
      BY <1>2, <2>1, <2>2, <3>1 DEF Live
  <2>3. CASE b # a
    BY <1>1, <1>2, <2>1, <2>3 DEF DataTypeOK, Live
  <2> QED
    BY <2>2, <2>3
<1> QED
  BY <1>5, <1>6, <1>7, <1>8 DEF LeakInv

(* The steps of the backend only open what was asked for, and close.       *)
LEMMA BackendKeeps == LeakInv /\ Backend => LeakInv'
<1> SUFFICES ASSUME LeakInv, NEW a \in Attempts,
                    \/ SshConnect(a) \/ SshOpenShell(a) \/ ShellExits(a)
                    \/ SessionDrops(a) \/ SshClose(a)
             PROVE  LeakInv'
  BY DEF Backend
<1> USE DEF Attempts
<1>1. /\ DataTypeOK /\ InOrder /\ NoCallNoSession /\ OthersAreCancelled
      /\ SessionIsAnnounced /\ StoppedIsClosing /\ NoSessionLeaked
  BY DEF LeakInv
<1>2. UNCHANGED <<mounted, status, wanted, run, at, cancelled, input>>
  BY DEF SshConnect, SshOpenShell, ShellExits, SessionDrops, SshClose, panelVars,
         storeVars
<1>3. /\ shell' \in [Attempts -> {"none", "open", "refused", "gone"}]
      /\ answer' \in [Attempts -> {"none", "ok", "error"}]
      /\ closing' \subseteq Attempts
      /\ ended' \subseteq Attempts
  <2>1. CASE SshConnect(a) \/ SshOpenShell(a)
    BY <1>1, <2>1 DEF DataTypeOK, SshConnect, SshOpenShell
  <2>2. CASE ShellExits(a) \/ SessionDrops(a) \/ SshClose(a)
    <3>1. ShellGone(a) /\ answer' = answer /\ closing' \subseteq closing
      BY <2>2 DEF ShellExits, SessionDrops, SshClose
    <3>2. /\ shell' \in [Attempts -> {"none", "open", "refused", "gone"}]
          /\ ended' \subseteq Attempts
      BY <1>1, <3>1 DEF DataTypeOK, ShellGone
    <3> QED
      BY <1>1, <3>1, <3>2 DEF DataTypeOK
  <2> QED
    BY <2>1, <2>2
(* Three things can happen to a session: it begins with its announcement,  *)
(* it ends, or it stays as it is.                                          *)
<1>4. \/ /\ at[a] = "connecting" /\ answer' = [answer EXCEPT ![a] = "ok"]
         /\ session' = [session EXCEPT ![a] = "alive"] /\ closing' = closing
      \/ /\ session[a] = "alive" \/ a \in closing
         /\ session' = [session EXCEPT ![a] = "closed"] /\ answer' = answer
         /\ closing' = closing \/ closing' = closing \ {a}
      \/ /\ session' = session /\ closing' = closing
         /\ answer' = answer \/ session[a] = "none" \/ at[a] = "opening"
         /\ \A b \in Attempts \ {a} : answer'[b] = answer[b]
  BY <1>1 DEF DataTypeOK, SshConnect, SshOpenShell, ShellExits, SessionDrops, SshClose
<1>5. DataTypeOK'
  BY <1>1, <1>2, <1>4, <1>3 DEF DataTypeOK
<1>6. InOrder' /\ OthersAreCancelled'
  BY <1>1, <1>2 DEF InOrder, OthersAreCancelled
<1>7. NoCallNoSession' /\ SessionIsAnnounced'
  <2>1. NoCallNoSession'
    BY <1>1, <1>2, <1>4 DEF DataTypeOK, NoCallNoSession
  <2>2. SessionIsAnnounced'
    <3> SUFFICES ASSUME NEW b \in Attempts, at'[b] = "connecting",
                        session'[b] = "alive"
                 PROVE  answer'[b] = "ok"
      BY DEF SessionIsAnnounced
    <3>1. at[b] = "connecting" /\ (session[b] = "alive" => answer[b] = "ok")
      BY <1>1, <1>2 DEF SessionIsAnnounced
    <3>2. CASE b = a
      BY <1>1, <1>4, <3>1, <3>2 DEF DataTypeOK
    <3>3. CASE b # a
      BY <1>1, <1>4, <3>1, <3>3 DEF DataTypeOK
    <3> QED
      BY <3>2, <3>3
  <2> QED
    BY <2>1, <2>2
<1>8. StoppedIsClosing'
  BY <1>1, <1>2, <1>4 DEF DataTypeOK, StoppedIsClosing
<1>9. NoSessionLeaked'
  <2> SUFFICES ASSUME NEW b \in Attempts, session'[b] = "alive"
               PROVE  \/ mounted' /\ Live(b)' /\ b = run'
                      \/ b \in closing'
                      \/ at'[b] = "connecting" /\ answer'[b] = "ok"
    BY DEF NoSessionLeaked
  <2>1. CASE b = a
    BY <1>1, <1>2, <1>4, <2>1 DEF DataTypeOK, NoSessionLeaked, Live
  <2>2. CASE b # a
    <3>1. session[b] = "alive" /\ answer'[b] = answer[b]
      BY <1>1, <1>4, <2>2 DEF DataTypeOK
    <3>2. b \in closing => b \in closing'
      BY <1>4, <2>2
    <3> QED
      BY <1>1, <1>2, <3>1, <3>2 DEF NoSessionLeaked, Live
  <2> QED
    BY <2>1, <2>2
<1> QED
  BY <1>5, <1>6, <1>7, <1>8, <1>9 DEF LeakInv

(* LeakInv holds of every reachable state.                                 *)
LEMMA LeakInvKept == LeakInv /\ [Next]_vars => LeakInv'
<1> SUFFICES ASSUME LeakInv, [Next]_vars PROVE LeakInv'
  OBVIOUS
<1> USE MaxAttemptsAssumption DEF Attempts
<1>1. CASE Mount
  <2>1. run < MaxAttempts /\ wanted' \in Attempts /\ run + 1 <= wanted'
    BY <1>1 DEF Mount, LeakInv, DataTypeOK, InOrder
  <2> QED
    BY <1>1, <2>1, EffectKeeps DEF Mount
<1>2. CASE Rerun \/ StrictModeRerun
  <2>1. run < MaxAttempts /\ wanted' \in Attempts /\ run + 1 <= wanted'
    BY <1>2 DEF Rerun, StrictModeRerun, LeakInv, DataTypeOK, InOrder
  <2> QED
    BY <1>2, <2>1, EffectKeeps DEF Rerun, StrictModeRerun
<1>3. CASE Unmount
  BY <1>3, UnmountKeeps
<1>4. CASE Retry
  BY <1>4
     DEF Retry, LeakInv, DataTypeOK, InOrder, NoCallNoSession, OthersAreCancelled,
         SessionIsAnnounced, StoppedIsClosing, NoSessionLeaked, Live, backendVars
<1>5. ASSUME NEW a \in Attempts, Connected(a) \/ Opened(a) \/ Failed(a)
      PROVE  LeakInv'
  BY <1>5, ConnectedKeeps, SettlesKeeps
<1>6. ASSUME NEW a \in Attempts, ShellCloses(a) PROVE LeakInv'
  BY <1>6
     DEF ShellCloses, LeakInv, DataTypeOK, InOrder, NoCallNoSession,
         OthersAreCancelled, SessionIsAnnounced, StoppedIsClosing, NoSessionLeaked, Live
<1>7. CASE Backend
  BY <1>7, BackendKeeps
<1>8. CASE UNCHANGED vars
  BY <1>8
     DEF vars, panelVars, storeVars, backendVars, LeakInv, DataTypeOK, InOrder,
         NoCallNoSession, OthersAreCancelled, SessionIsAnnounced, StoppedIsClosing,
         NoSessionLeaked, Live
<1> QED
  BY <1>1, <1>2, <1>3, <1>4, <1>5, <1>6, <1>7, <1>8 DEF Next, Panel

-----------------------------------------------------------------------------
(* No SSH session outlives its attempt: whenever the tab is closed, retried *)
(* or mounted again, and however late the answers come, each session alive *)
(* is shown, being closed, or about to be announced.                       *)
THEOREM NoLeak == Spec => []NoSessionLeaked
<1>1. LeakInv => NoSessionLeaked
  BY DEF LeakInv
<1> QED
  BY <1>1, LeakInvInit, LeakInvKept, PTL DEF Spec

(* Every variable has its type, and one attempt at most takes keystrokes.  *)
THEOREM TypeCorrect == Spec => []TypeOK
<1> DEFINE MountedOK == mounted \in BOOLEAN
<1>1. Init => MountedOK
  BY DEF Init
<1>2. MountedOK /\ [Next]_vars => MountedOK'
  BY DEF Next, Panel, Backend, Mount, Rerun, StrictModeRerun, Unmount, Retry, Connected,
         Opened, Failed, ShellCloses, SshConnect, SshOpenShell, ShellExits,
         SessionDrops, SshClose, vars, panelVars, backendVars
<1>3. MountedOK /\ LeakInv => TypeOK
  BY DEF LeakInv, TypeOK
<1> HIDE DEF MountedOK
<1> QED
  BY <1>1, <1>2, <1>3, LeakInvInit, LeakInvKept, PTL DEF Spec

-----------------------------------------------------------------------------
(* StatusIsOfLastAttempt is about the shell of the last attempt, but an    *)
(* answer only names its attempt: the invariant ties each answer, and each *)
(* close event, to what has become of that attempt's shell.                *)

(* The answers that a panel on the page waits for are not too late.        *)
LastIsLive == mounted => run \notin cancelled

(* No attempt, no status.                                                  *)
IdleBeforeRun == run = 0 => status = "idle"

(* A shell is asked for by an attempt that has its session.                *)
ShellIsAskedFor ==
  \A a \in Attempts : at[a] \in {"none", "connecting", "stopped"} => shell[a] = "none"

(* What is answered is what happened; the shell may have ended since.      *)
AnswerTellsShell ==
  \A a \in Attempts : at[a] = "opening" =>
    /\ answer[a] = "ok" => shell[a] \in {"open", "gone"}
    /\ answer[a] = "error" => shell[a] = "refused"

(* A close event follows the end of its shell.                             *)
EventTellsShell == \A a \in ended : shell[a] = "gone"

StatusInv == /\ LastIsLive
             /\ IdleBeforeRun
             /\ ShellIsAskedFor
             /\ AnswerTellsShell
             /\ EventTellsShell
             /\ StatusIsOfLastAttempt

LEMMA StatusInvInit == Init => StatusInv
  BY DEF Init, StatusInv, LastIsLive, IdleBeforeRun, ShellIsAskedFor, AnswerTellsShell,
         EventTellsShell, StatusIsOfLastAttempt

(* The steps that begin or end attempts show no result.                    *)
LEMMA StatusKeptByRuns ==
  ASSUME LeakInv, StatusInv,
         Mount \/ Rerun \/ StrictModeRerun \/ Unmount \/ Retry
  PROVE  StatusInv'
<1> USE MaxAttemptsAssumption DEF Attempts
<1>1. DataTypeOK /\ InOrder
  BY DEF LeakInv
<1>2. CASE Mount \/ Rerun \/ StrictModeRerun
  <2>1. RunEffect /\ run + 1 \in Attempts
    BY <1>1, <1>2 DEF Mount, Rerun, StrictModeRerun, DataTypeOK, InOrder
  <2>2. /\ run' = run + 1 /\ status' = "connecting"
        /\ at' = [at EXCEPT ![run + 1] = "connecting"] /\ at[run + 1] = "none"
        /\ UNCHANGED <<shell, answer, ended>>
    BY <1>1, <2>1 DEF RunEffect, InOrder, DataTypeOK
  <2>3. cancelled' \subseteq 1 .. run
    <3>1. \/ cancelled' = cancelled
          \/ mounted /\ cancelled' = cancelled \cup {run}
      BY <1>2 DEF Mount, Rerun, StrictModeRerun, Cleanup
    <3>2. mounted => run \in 1 .. run
      BY <1>1 DEF InOrder, DataTypeOK
    <3> QED
      BY <1>1, <3>1, <3>2 DEF DataTypeOK
  <2>4. LastIsLive'
    BY <1>1, <2>2, <2>3 DEF LastIsLive, DataTypeOK
  <2> QED
    BY <1>1, <2>1, <2>2, <2>4
       DEF DataTypeOK, StatusInv, IdleBeforeRun, ShellIsAskedFor, AnswerTellsShell,
           EventTellsShell, StatusIsOfLastAttempt
<1>3. CASE Unmount \/ Retry
  <2>1. /\ UNCHANGED <<run, at, shell, answer, ended>>
        /\ status' \in {status, "connecting"} /\ (status' # status => run > 0)
        /\ mounted' => mounted /\ wanted' > run /\ cancelled' = cancelled
    BY <1>1, <1>3 DEF Unmount, Retry, InOrder, DataTypeOK, storeVars, backendVars
  <2> QED
    BY <2>1
       DEF StatusInv, LastIsLive, IdleBeforeRun, ShellIsAskedFor, AnswerTellsShell,
           EventTellsShell, StatusIsOfLastAttempt
<1> QED
  BY <1>2, <1>3

(* Answers and events: only those of an attempt that is not cancelled,     *)
(* hence of the last one, change the status.                               *)
LEMMA StatusKeptByAnswers ==
  ASSUME LeakInv, StatusInv, NEW a \in Attempts,
         Connected(a) \/ Opened(a) \/ Failed(a) \/ ShellCloses(a)
  PROVE  StatusInv'
<1> USE MaxAttemptsAssumption DEF Attempts
<1>1. DataTypeOK /\ InOrder /\ OthersAreCancelled
  BY DEF LeakInv
<1>2. IdleBeforeRun /\ ShellIsAskedFor /\ AnswerTellsShell /\ EventTellsShell
  BY DEF StatusInv
<1>3. /\ shell' = shell /\ run' = run /\ ended' \subseteq ended
      /\ UNCHANGED <<mounted, wanted, cancelled>>
  BY DEF Connected, Opened, Failed, ShellCloses, storeVars
<1>4. \/ at'[a] = "opening" /\ answer'[a] = "none" /\ at[a] = "connecting"
      \/ at'[a] = "stopped" /\ at[a] = "connecting"
      \/ at'[a] = "settled" /\ at[a] = "opening"
      \/ at' = at /\ answer' = answer
  BY <1>1 DEF DataTypeOK, Connected, Opened, Failed, ShellCloses, Takes, Known
<1>5. \A b \in Attempts \ {a} : at'[b] = at[b] /\ answer'[b] = answer[b]
  BY <1>1 DEF DataTypeOK, Connected, Opened, Failed, ShellCloses, Takes
<1>6. ShellIsAskedFor' /\ AnswerTellsShell' /\ EventTellsShell'
  <2>1. ShellIsAskedFor'
    BY <1>2, <1>3, <1>4, <1>5 DEF ShellIsAskedFor
  <2>2. AnswerTellsShell'
    BY <1>2, <1>3, <1>4, <1>5 DEF AnswerTellsShell
  <2>3. EventTellsShell'
    BY <1>2, <1>3 DEF EventTellsShell
  <2> QED
    BY <2>1, <2>2, <2>3
<1>7. /\ a \in ended \/ at[a] # "none"
      /\ a \in ended => shell[a] # "none"
  BY <1>2 DEF Connected, Opened, Failed, ShellCloses, Takes, EventTellsShell
<1>8. a \in 1 .. run
  BY <1>1, <1>2, <1>7 DEF DataTypeOK, InOrder, ShellIsAskedFor
<1>9. a \notin cancelled => a = run
  BY <1>1, <1>8 DEF OthersAreCancelled
<1>10. StatusIsOfLastAttempt'
  <2>0. StatusIsOfLastAttempt
    BY DEF StatusInv
  <2>1. CASE status' = status
    <3>1. at[run] \in {"stopped", "settled"} => at'[run] = at[run]
      BY <1>1, <1>4, <1>5, <1>8 DEF DataTypeOK
    <3>2. ASSUME mounted, status = "connecting", at[run] \in {"connecting", "opening"}
          PROVE  at'[run] \in {"connecting", "opening"}
      <4>1. run \notin cancelled
        BY <3>2 DEF StatusInv, LastIsLive
      <4>2. CASE a # run
        BY <1>1, <1>5, <1>8, <3>2, <4>2 DEF DataTypeOK
      <4>3. CASE a = run
        <5>1. Connected(a) \/ ShellCloses(a)
          BY <2>1, <3>2, <4>1, <4>3 DEF Opened, Failed
        <5> QED
          BY <1>1, <3>2, <4>1, <4>3, <5>1 DEF Connected, ShellCloses, Takes, DataTypeOK
      <4> QED
        BY <4>2, <4>3
    <3> QED
      BY <1>3, <2>0, <2>1, <3>1, <3>2 DEF StatusIsOfLastAttempt
  <2>2. CASE status' # status
    <3>1. a = run
      BY <1>9, <2>2 DEF Connected, Opened, Failed, ShellCloses, storeVars
    <3>2. CASE Connected(a)
      BY <2>2, <3>2 DEF Connected, storeVars
    <3>3. CASE Opened(a)
      BY <1>2, <1>3, <2>2, <3>1, <3>3
         DEF Opened, Takes, AnswerTellsShell, StatusIsOfLastAttempt
    <3>4. CASE Failed(a)
      <4>1. status' = "error" /\ at'[run] \in {"stopped", "settled"}
        BY <1>1, <2>2, <3>1, <3>4 DEF Failed, Takes, DataTypeOK
      <4>2. shell[run] # "open"
        BY <1>2, <3>1, <3>4 DEF Failed, Takes, AnswerTellsShell, ShellIsAskedFor
      <4> QED
        BY <1>3, <4>1, <4>2 DEF StatusIsOfLastAttempt
    <3>5. CASE ShellCloses(a)
      BY <1>2, <1>3, <2>2, <3>1, <3>5
         DEF ShellCloses, EventTellsShell, StatusIsOfLastAttempt
    <3> QED
      BY <3>2, <3>3, <3>4, <3>5
  <2> QED
    BY <2>1, <2>2
<1> QED
  BY <1>1, <1>3, <1>6, <1>8, <1>10 DEF StatusInv, LastIsLive, IdleBeforeRun, DataTypeOK

(* The backend answers what it has done, and an open shell only ends.      *)
LEMMA StatusKeptByBackend ==
  ASSUME LeakInv, StatusInv, Backend PROVE StatusInv'
<1> SUFFICES ASSUME NEW a \in Attempts,
                    \/ SshConnect(a) \/ SshOpenShell(a) \/ ShellExits(a)
                    \/ SessionDrops(a) \/ SshClose(a)
             PROVE  StatusInv'
  BY DEF Backend
<1> USE MaxAttemptsAssumption DEF Attempts
<1>1. DataTypeOK /\ InOrder
  BY DEF LeakInv
<1>2. IdleBeforeRun /\ ShellIsAskedFor /\ AnswerTellsShell /\ EventTellsShell
      /\ LastIsLive /\ StatusIsOfLastAttempt
  BY DEF StatusInv
<1>3. /\ status' = status /\ run' = run /\ at' = at
      /\ UNCHANGED <<mounted, wanted, cancelled>>
  BY DEF SshConnect, SshOpenShell, ShellExits, SessionDrops, SshClose, panelVars, storeVars
<1>4. CASE SshConnect(a)
  <2>1. shell' = shell /\ ended' = ended /\ at[a] = "connecting"
    BY <1>4 DEF SshConnect
  <2>2. \A b \in Attempts \ {a} : answer'[b] = answer[b]
    BY <1>1, <1>4 DEF SshConnect, DataTypeOK
  <2> QED
    BY <1>2, <1>3, <2>1, <2>2
       DEF StatusInv, LastIsLive, IdleBeforeRun, ShellIsAskedFor, AnswerTellsShell,
           EventTellsShell, StatusIsOfLastAttempt
<1>5. CASE SshOpenShell(a)
  <2>1. /\ at[a] = "opening" /\ shell[a] = "none" /\ ended' = ended
        /\ \/ shell'[a] = "open" /\ answer'[a] = "ok"
           \/ shell'[a] = "refused" /\ answer'[a] = "error"
        /\ \A b \in Attempts \ {a} : answer'[b] = answer[b] /\ shell'[b] = shell[b]
    BY <1>1, <1>5 DEF SshOpenShell, DataTypeOK
  <2>2. run = 0 \/ run \in Attempts
    BY <1>1 DEF DataTypeOK
  <2>3. StatusIsOfLastAttempt'
    BY <1>2, <1>3, <2>1, <2>2 DEF IdleBeforeRun, StatusIsOfLastAttempt
  <2>4. EventTellsShell'
    BY <1>1, <1>2, <2>1 DEF EventTellsShell, DataTypeOK
  <2> QED
    BY <1>2, <1>3, <2>1, <2>3, <2>4
       DEF StatusInv, LastIsLive, IdleBeforeRun, ShellIsAskedFor, AnswerTellsShell
<1>6. CASE ShellExits(a) \/ SessionDrops(a) \/ SshClose(a)
  <2>1. ShellGone(a) /\ answer' = answer
    BY <1>6 DEF ShellExits, SessionDrops, SshClose
  <2>2. \A b \in Attempts :
          shell'[b] # shell[b] => shell[b] = "open" /\ shell'[b] = "gone"
    BY <1>1, <2>1 DEF ShellGone, DataTypeOK
  <2>3. \A b \in ended' : shell'[b] = "gone"
    BY <1>1, <1>2, <2>1, <2>2 DEF ShellGone, EventTellsShell, DataTypeOK
  <2>4. run = 0 \/ run \in Attempts
    BY <1>1 DEF DataTypeOK
  <2>5. StatusIsOfLastAttempt'
    BY <1>2, <1>3, <2>2, <2>4 DEF IdleBeforeRun, StatusIsOfLastAttempt
  <2> QED
    BY <1>2, <1>3, <2>1, <2>2, <2>3, <2>5
       DEF StatusInv, LastIsLive, IdleBeforeRun, ShellIsAskedFor, AnswerTellsShell, EventTellsShell
<1> QED
  BY <1>4, <1>5, <1>6

LEMMA StatusInvKept == LeakInv /\ StatusInv /\ [Next]_vars => StatusInv'
<1>1. ASSUME LeakInv, StatusInv, UNCHANGED vars PROVE StatusInv'
  BY <1>1
     DEF vars, panelVars, storeVars, backendVars, StatusInv, LastIsLive,
         IdleBeforeRun, ShellIsAskedFor, AnswerTellsShell, EventTellsShell, StatusIsOfLastAttempt
<1> QED
  BY <1>1, StatusKeptByRuns, StatusKeptByAnswers, StatusKeptByBackend DEF Next, Panel

(* What the tab shows is about the last attempt, however late the answers  *)
(* and the close events of earlier attempts arrive: "connected" with a     *)
(* shell that was opened, which may have ended since, with its close event *)
(* handled or not; "error" with an attempt that failed; "closed" with a    *)
(* shell that is gone; "connecting", on the page, with an attempt that has *)
(* not settled or another run of the effect due.                           *)
THEOREM StatusTruthful == Spec => []StatusIsOfLastAttempt
<1>1. StatusInv => StatusIsOfLastAttempt
  BY DEF StatusInv
<1> QED
  BY <1>1, LeakInvInit, LeakInvKept, StatusInvInit, StatusInvKept, PTL DEF Spec

=============================================================================
