--------------------------- MODULE TerminalSession ---------------------------
(***************************************************************************)
(* frontend TerminalPanel and its store over the SSH bindings: one tab,    *)
(* the runs of its connect effect, and what they leave in the backend.     *)
(*                                                                         *)
(* Every run of the effect is an attempt of its own: an ssh.connect, two   *)
(* subscriptions, an ssh.openShell, and a cleanup.  Calls are answered     *)
(* and events delivered each in a step of its own; the answer of openShell *)
(* and the close event of its shell travel separately, in either order.    *)
(* The backend is kept to what the tab sees of it: which SSH session is    *)
(* alive and whether its shell is (module SshManager has the rest).        *)
(***************************************************************************)
EXTENDS Naturals

CONSTANT
  MaxAttempts  \* bound: how often the effect runs

ASSUME MaxAttemptsAssumption == MaxAttempts \in Nat \ {0}

Attempts == 1 .. MaxAttempts

VARIABLES
  mounted,    \* the panel is on the page
  status,     \* TerminalStore.status
  wanted,     \* the run asked for: TerminalStore.attempt, StrictMode's counted
  run,        \* the attempt of the last run of the effect
  at,         \* where an attempt's async function is
  cancelled,  \* attempts whose cleanup has run
  input,      \* attempts whose keystrokes go to the backend
  session,    \* an attempt's SSH session in the backend
  shell,      \* its shell
  answer,     \* the answer under way to the call the attempt awaits
  closing,    \* attempts with an ssh.close under way
  ended       \* attempts with a close event under way

storeVars == <<status, wanted>>
panelVars == <<mounted, storeVars, run, at, cancelled, input>>
backendVars == <<session, shell, answer, closing, ended>>
vars == <<panelVars, backendVars>>

Init ==
  /\ mounted = FALSE
  /\ status = "idle"
  /\ wanted = 1
  /\ run = 0
  /\ at = [a \in Attempts |-> "none"]
  /\ cancelled = {}
  /\ input = {}
  /\ session = [a \in Attempts |-> "none"]
  /\ shell = [a \in Attempts |-> "none"]
  /\ answer = [a \in Attempts |-> "none"]
  /\ closing = {}
  /\ ended = {}

Live(a) == a \in 1 .. run /\ a \notin cancelled
Known(a) == at[a] \in {"opening", "settled"}

-----------------------------------------------------------------------------
(* Mutant: the cleanup leaves the session to the backend.                  *)
MutCleanup(a) ==
  /\ cancelled' = cancelled \cup {a}
  /\ input' = input \ {a}
  /\ UNCHANGED closing

(* The effect.  Its cleanup cancels the last attempt and closes the        *)
(* session, if it has come to know it; its body starts the next one.       *)
Cleanup(a) ==
  /\ cancelled' = cancelled \cup {a}
  /\ input' = input \ {a}
  /\ closing' = IF Known(a) THEN closing \cup {a} ELSE closing

RunEffect ==
  /\ run' = run + 1
  /\ status' = "connecting"
  /\ at' = [at EXCEPT ![run + 1] = "connecting"]
  /\ UNCHANGED <<session, shell, answer, ended>>

Mount ==
  /\ ~mounted
  /\ run = 0
  /\ mounted' = TRUE
  /\ RunEffect
  /\ UNCHANGED <<wanted, cancelled, input, closing>>

(* StrictMode, which the page uses, runs cleanup and effect once more      *)
(* before anything else happens.                                           *)
StrictModeRerun ==
  /\ mounted
  /\ wanted = 1 /\ at[1] = "connecting" /\ answer[1] = "none"
  /\ wanted < MaxAttempts
  /\ wanted' = wanted + 1
  /\ Cleanup(run)
  /\ RunEffect
  /\ UNCHANGED mounted

Rerun ==
  /\ mounted
  /\ wanted > run
  /\ Cleanup(run)
  /\ RunEffect
  /\ UNCHANGED <<mounted, wanted>>

(* The overlay of a failed or closed shell offers to connect again; the    *)
(* panel is drawn anew, and the effect due, before it can be used twice.   *)
Retry ==
  /\ mounted
  /\ status \in {"error", "closed"}
  /\ wanted = run
  /\ wanted < MaxAttempts
  /\ status' = "connecting"
  /\ wanted' = wanted + 1
  /\ UNCHANGED <<mounted, run, at, cancelled, input, backendVars>>

(* The tab or the whole session is closed.                                 *)
Unmount ==
  /\ mounted
  /\ mounted' = FALSE
  /\ Cleanup(run)
  /\ UNCHANGED <<storeVars, run, at, session, shell, answer, ended>>

-----------------------------------------------------------------------------
(* The answers, as the async function of the effect takes them.            *)
Takes(a, place, kind) ==
  /\ at[a] = place
  /\ answer[a] = kind
  /\ answer' = [answer EXCEPT ![a] = "none"]

(* Mutant: a session that comes too late is left alone.                    *)
MutConnected(a) ==
  /\ Takes(a, "connecting", "ok")
  /\ at' = [at EXCEPT ![a] = IF a \in cancelled THEN "stopped" ELSE "opening"]
  /\ UNCHANGED <<mounted, storeVars, run, cancelled, input, session, shell,
                 closing, ended>>

(* A session that comes after the cleanup is closed at once; else the      *)
(* panel subscribes to its events and asks for the shell.                  *)
Connected(a) ==
  /\ Takes(a, "connecting", "ok")
  /\ IF a \in cancelled
     THEN at' = [at EXCEPT ![a] = "stopped"] /\ closing' = closing \cup {a}
     ELSE at' = [at EXCEPT ![a] = "opening"] /\ UNCHANGED closing
  /\ UNCHANGED <<mounted, storeVars, run, cancelled, input, session, shell, ended>>

Opened(a) ==
  /\ Takes(a, "opening", "ok")
  /\ at' = [at EXCEPT ![a] = "settled"]
  /\ IF a \in cancelled THEN UNCHANGED <<input, status>>
     ELSE input' = input \cup {a} /\ status' = "connected"
  /\ UNCHANGED <<mounted, wanted, run, cancelled, session, shell, closing, ended>>

(* Mutant: an error of a cancelled attempt is shown.                       *)
MutFailed(a) ==
  /\ \E place \in {"connecting", "opening"} : Takes(a, place, "error")
  /\ at' = [at EXCEPT ![a] = IF Known(a) THEN "settled" ELSE "stopped"]
  /\ status' = "error"
  /\ UNCHANGED <<mounted, wanted, run, cancelled, input, session, shell,
                 closing, ended>>

(* Mutant: the shell is opened outside of the try.                         *)
MutFailedShell(a) ==
  /\ Takes(a, "connecting", "error")
  /\ at' = [at EXCEPT ![a] = "stopped"]
  /\ status' = IF a \in cancelled THEN status ELSE "error"
  /\ UNCHANGED <<mounted, wanted, run, cancelled, input, session, shell,
                 closing, ended>>

(* The catch of the effect: the session, if there is one, stays open until *)
(* the cleanup.                                                            *)
Failed(a) ==
  /\ \E place \in {"connecting", "opening"} : Takes(a, place, "error")
  /\ at' = [at EXCEPT ![a] = IF Known(a) THEN "settled" ELSE "stopped"]
  /\ status' = IF a \in cancelled THEN status ELSE "error"
  /\ UNCHANGED <<mounted, wanted, run, cancelled, input, session, shell,
                 closing, ended>>

(* The close event; a cleanup has unsubscribed from it.                    *)
ShellCloses(a) ==
  /\ a \in ended
  /\ ended' = ended \ {a}
  /\ status' = IF a \in cancelled THEN status ELSE "closed"
  /\ UNCHANGED <<mounted, wanted, run, at, cancelled, input, session, shell,
                 answer, closing>>

Panel == \/ Mount \/ Rerun \/ StrictModeRerun \/ Unmount \/ Retry
         \/ \E a \in Attempts : \/ Connected(a) \/ Opened(a) \/ Failed(a)
                                \/ ShellCloses(a)

-----------------------------------------------------------------------------
(* The backend: SshConnect and SshOpenShell are answered sooner or later,  *)
(* one way or the other.                                                   *)
SshConnect(a) ==
  /\ at[a] = "connecting"
  /\ session[a] = "none"
  /\ answer[a] = "none"
  /\ \/ /\ session' = [session EXCEPT ![a] = "alive"]
        /\ answer' = [answer EXCEPT ![a] = "ok"]
     \/ /\ answer' = [answer EXCEPT ![a] = "error"]
        /\ UNCHANGED session
  /\ UNCHANGED <<panelVars, shell, closing, ended>>

SshOpenShell(a) ==
  /\ at[a] = "opening"
  /\ shell[a] = "none"
  /\ answer[a] = "none"
  /\ \/ /\ session[a] = "alive"
        /\ shell' = [shell EXCEPT ![a] = "open"]
        /\ answer' = [answer EXCEPT ![a] = "ok"]
     \/ /\ answer' = [answer EXCEPT ![a] = "error"]
        /\ shell' = [shell EXCEPT ![a] = "refused"]
  /\ UNCHANGED <<panelVars, session, closing, ended>>

(* An open shell that ends, of itself or with its session, fires one close *)
(* event.                                                                  *)
ShellGone(a) ==
  /\ shell' = [shell EXCEPT ![a] = IF @ = "open" THEN "gone" ELSE @]
  /\ ended' = IF shell[a] = "open" THEN ended \cup {a} ELSE ended

ShellExits(a) ==
  /\ shell[a] = "open"
  /\ ShellGone(a)
  /\ UNCHANGED <<panelVars, session, answer, closing>>

SessionDrops(a) ==
  /\ session[a] = "alive"
  /\ session' = [session EXCEPT ![a] = "closed"]
  /\ ShellGone(a)
  /\ UNCHANGED <<panelVars, answer, closing>>

SshClose(a) ==
  /\ a \in closing
  /\ closing' = closing \ {a}
  /\ session' = [session EXCEPT ![a] = "closed"]
  /\ ShellGone(a)
  /\ UNCHANGED <<panelVars, answer>>

Backend == \E a \in Attempts : \/ SshConnect(a) \/ SshOpenShell(a) \/ ShellExits(a)
                               \/ SessionDrops(a) \/ SshClose(a)

Next == Panel \/ Backend

Spec == Init /\ [][Next]_vars

(* React runs the effect it owes; calls are answered (dial and handshake   *)
(* time out; a shell is granted or refused), answers and events arrive.    *)
(* A connection that falls silent for good, on which openShell waits       *)
(* without end (the "silent" transport of SshManager), is left out.        *)
FairSpec ==
  /\ Spec
  /\ WF_vars(Rerun)
  /\ \A a \in Attempts :
       /\ WF_vars(SshConnect(a)) /\ WF_vars(SshOpenShell(a)) /\ WF_vars(SshClose(a))
       /\ WF_vars(Connected(a)) /\ WF_vars(Opened(a)) /\ WF_vars(Failed(a))
       /\ WF_vars(ShellCloses(a))

-----------------------------------------------------------------------------
(* The types of all that is counted or named.                              *)
DataTypeOK ==
  /\ status \in {"idle", "connecting", "connected", "error", "closed"}
  /\ wanted \in Attempts
  /\ run \in 0 .. MaxAttempts
  /\ at \in [Attempts -> {"none", "connecting", "opening", "settled", "stopped"}]
  /\ cancelled \subseteq 1 .. run
  /\ input \subseteq {run} \cap Attempts
  /\ session \in [Attempts -> {"none", "alive", "closed"}]
  /\ shell \in [Attempts -> {"none", "open", "refused", "gone"}]
  /\ answer \in [Attempts -> {"none", "ok", "error"}]
  /\ closing \subseteq Attempts
  /\ ended \subseteq Attempts

(* Every variable has its type; keystrokes are sent by one attempt only.   *)
TypeOK == mounted \in BOOLEAN /\ DataTypeOK

(* No SSH session outlives its attempt: every session alive belongs to the *)
(* attempt the panel shows, is being closed, or will be as soon as the     *)
(* answer with its id arrives.                                             *)
NoSessionLeaked ==
  \A a \in Attempts :
    session[a] = "alive" =>
      \/ mounted /\ Live(a) /\ a = run
      \/ a \in closing
      \/ at[a] = "connecting" /\ answer[a] = "ok"

(* What the tab shows is about the last attempt, however late the answers  *)
(* and events of earlier ones arrive: "connected" only when its shell was  *)
(* opened (it may have ended since, even with its close event handled if   *)
(* that came before the answer), "error" only when it failed, "closed"     *)
(* only when its shell is gone, and "connecting" on the page only when it  *)
(* has not settled or another run of the effect is due.                    *)
StatusIsOfLastAttempt ==
  /\ status = "connected" => shell[run] \in {"open", "gone"}
  /\ status = "error" => at[run] \in {"stopped", "settled"} /\ shell[run] # "open"
  /\ status = "closed" => shell[run] = "gone"
  /\ mounted /\ status = "connecting" =>
       wanted > run \/ at[run] \in {"connecting", "opening"}

(* Every session ends once its tab is gone or has started another attempt, *)
(* also one that was still being connected.                                *)
OldSessionsEnd ==
  \A a \in Attempts : a \in cancelled ~> session[a] # "alive"

(* The tab does not stay at "connecting".                                  *)
ConnectingEnds == (mounted /\ status = "connecting") ~> (status # "connecting" \/ ~mounted)

=============================================================================
