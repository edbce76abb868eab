------------------------------ MODULE SshManager ------------------------------
(***************************************************************************)
(* internal/sshx: the Manager's table of live SSH sessions, the goroutines *)
(* of a session (the watcher on client.Wait, the keepalive loop) and its   *)
(* single interactive shell with the two goroutines that read it.          *)
(*                                                                         *)
(* Each session id and each OpenShell call is used once.  The SSH library  *)
(* and the network are `transport` and `channel`: a connection may fall    *)
(* silent (half-open: writes vanish, no reply comes), may break (writes    *)
(* fail), and may end.  A request with wantReply waits for its reply       *)
(* without a timeout, as x/crypto/ssh does.  An ended connection ends all  *)
(* of its channels.                                                        *)
(***************************************************************************)
EXTENDS Naturals, FiniteSets

CONSTANTS Sessions, Calls, KeepaliveMaxFailures, None

ASSUME KeepaliveAssumption == KeepaliveMaxFailures \in Nat \ {0}
ASSUME NoneAssumption == None \notin Sessions /\ None \notin Calls

VARIABLES
  phase,       \* CreateSession: "none", "dialing", "connected", "live"
  transport,   \* the connection under ssh.Client
  registered,  \* Manager.sessions
  closing,     \* taken out by CloseSession or CloseAll, Close not yet called
  watcher,     \* the goroutine in client.Wait
  done,        \* sessions whose done channel is closed
  keepalive,   \* the goroutine in keepaliveLoop
  failures,    \* its count of consecutive failed probes
  lock,        \* session.mu: the OpenShell call that holds it
  slot,        \* session.shell: the call that opened it
  call,        \* where an OpenShell call is
  on,          \* the session it found
  channel,     \* its SSH channel
  reader,      \* its shell's readLoop
  stderr,      \* its shell's readStderr
  pending      \* shells with stderr data received and not yet emitted

sessionVars == <<phase, transport, registered, closing, watcher, done,
                 keepalive, failures>>
shellVars == <<lock, slot, call, on, channel, reader, stderr, pending>>
vars == <<sessionVars, shellVars>>

Init ==
  /\ phase = [s \in Sessions |-> "none"]
  /\ transport = [s \in Sessions |-> "none"]
  /\ registered = {}
  /\ closing = {}
  /\ watcher = [s \in Sessions |-> "none"]
  /\ done = {}
  /\ keepalive = [s \in Sessions |-> "none"]
  /\ failures = [s \in Sessions |-> 0]
  /\ lock = [s \in Sessions |-> None]
  /\ slot = [s \in Sessions |-> None]
  /\ call = [c \in Calls |-> "idle"]
  /\ on = [c \in Calls |-> None]
  /\ channel = [c \in Calls |-> "none"]
  /\ reader = [c \in Calls |-> "none"]
  /\ stderr = [c \in Calls |-> "none"]
  /\ pending = {}

-----------------------------------------------------------------------------
(* CreateSession: dial, handshake within the ready timeout, register.      *)
Dial(s) ==
  /\ phase[s] = "none"
  /\ phase' = [phase EXCEPT ![s] = "dialing"]
  /\ UNCHANGED <<transport, registered, closing, watcher, done, keepalive,
                 failures, shellVars>>

DialFails(s) ==
  /\ phase[s] = "dialing"
  /\ phase' = [phase EXCEPT ![s] = "none"]
  /\ UNCHANGED <<transport, registered, closing, watcher, done, keepalive,
                 failures, shellVars>>

Handshake(s) ==
  /\ phase[s] = "dialing"
  /\ phase' = [phase EXCEPT ![s] = "connected"]
  /\ transport' = [transport EXCEPT ![s] = "up"]
  /\ UNCHANGED <<registered, closing, watcher, done, keepalive, failures,
                 shellVars>>

(* The connection may already have ended by now: it is registered all the  *)
(* same, and its watcher finds it dead.                                    *)
Register(s) ==
  /\ phase[s] = "connected"
  /\ phase' = [phase EXCEPT ![s] = "live"]
  /\ registered' = registered \cup {s}
  /\ watcher' = [watcher EXCEPT ![s] = "waiting"]
  /\ keepalive' = [keepalive EXCEPT ![s] = "waiting"]
  /\ UNCHANGED <<transport, closing, done, failures, shellVars>>

-----------------------------------------------------------------------------
(* What the network and the server do to a connection.                     *)
TransportBecomes(s, from, to) ==
  /\ transport[s] \in from
  /\ transport' = [transport EXCEPT ![s] = to]
  /\ UNCHANGED <<phase, registered, closing, watcher, done, keepalive,
                 failures, shellVars>>

FallsSilent(s) == TransportBecomes(s, {"up"}, "silent")
Resumes(s) == TransportBecomes(s, {"silent"}, "up")
Breaks(s) == TransportBecomes(s, {"up", "silent"}, "broken")
Drops(s) == TransportBecomes(s, {"up", "silent", "broken"}, "closed")

-----------------------------------------------------------------------------
(* The watcher: client.Wait returns, done is signalled, and only then is   *)
(* the session taken out of the table.                                     *)
WatcherSignals(s) ==
  /\ watcher[s] = "waiting"
  /\ transport[s] = "closed"
  /\ watcher' = [watcher EXCEPT ![s] = "signalled"]
  /\ done' = done \cup {s}
  /\ UNCHANGED <<phase, transport, registered, closing, keepalive, failures,
                 shellVars>>

(* Mutant: the watcher only signals.                                       *)
MutWatcherDeletes(s) ==
  /\ watcher[s] = "signalled"
  /\ watcher' = [watcher EXCEPT ![s] = "gone"]
  /\ UNCHANGED <<phase, transport, registered, closing, done, keepalive,
                 failures, shellVars>>

WatcherDeletes(s) ==
  /\ watcher[s] = "signalled"
  /\ watcher' = [watcher EXCEPT ![s] = "gone"]
  /\ registered' = registered \ {s}
  /\ UNCHANGED <<phase, transport, closing, done, keepalive, failures,
                 shellVars>>

(* keepaliveLoop: its select takes done or a tick, either when both are    *)
(* ready.  A tick sends a probe; what was sent waits for its reply.        *)
KeepaliveStops(s) ==
  /\ keepalive[s] = "waiting"
  /\ s \in done
  /\ keepalive' = [keepalive EXCEPT ![s] = "ended"]
  /\ UNCHANGED <<phase, transport, registered, closing, watcher, done,
                 failures, shellVars>>

KeepaliveTicks(s) ==
  /\ keepalive[s] = "waiting"
  /\ transport[s] \in {"up", "silent"}
  /\ keepalive' = [keepalive EXCEPT ![s] = "probing"]
  /\ UNCHANGED <<phase, transport, registered, closing, watcher, done,
                 failures, shellVars>>

(* An answer, also a refusal, proves the peer alive.                       *)
ProbeAnswered(s) ==
  /\ keepalive[s] = "probing"
  /\ transport[s] = "up"
  /\ failures' = [failures EXCEPT ![s] = 0]
  /\ keepalive' = [keepalive EXCEPT ![s] = "waiting"]
  /\ UNCHANGED <<phase, transport, registered, closing, watcher, done, shellVars>>

(* A tick cannot send its probe, or the connection ends while one waits.   *)
(* That sending has begun to fail does not reach a probe that waits.       *)
ProbeErrs(s) ==
  \/ keepalive[s] = "waiting" /\ transport[s] \in {"broken", "closed"}
  \/ keepalive[s] = "probing" /\ transport[s] = "closed"

(* Mutant: the loop gives up without closing the client.                   *)
MutProbeFails(s) ==
  /\ ProbeErrs(s)
  /\ failures' = [failures EXCEPT ![s] = @ + 1]
  /\ keepalive' = [keepalive EXCEPT ![s] =
       IF failures[s] + 1 >= KeepaliveMaxFailures THEN "ended" ELSE "waiting"]
  /\ UNCHANGED <<phase, transport, registered, closing, watcher, done, shellVars>>

(* Only a transport error counts; the last one allowed closes the client.  *)
ProbeFails(s) ==
  /\ ProbeErrs(s)
  /\ failures' = [failures EXCEPT ![s] = @ + 1]
  /\ IF failures[s] + 1 >= KeepaliveMaxFailures
       THEN /\ transport' = [transport EXCEPT ![s] = "closed"]
            /\ keepalive' = [keepalive EXCEPT ![s] = "ended"]
       ELSE /\ keepalive' = [keepalive EXCEPT ![s] = "waiting"]
            /\ UNCHANGED transport
  /\ UNCHANGED <<phase, registered, closing, watcher, done, shellVars>>

-----------------------------------------------------------------------------
(* Mutant: the sessions leave the table, their clients are forgotten.      *)
MutTakeOut(gone) ==
  /\ registered' = registered \ gone
  /\ UNCHANGED <<phase, transport, closing, watcher, done, keepalive, failures,
                 shellVars>>

(* CloseSession and CloseAll take sessions out of the table under          *)
(* Manager.mu and close their clients after releasing it.                  *)
TakeOut(gone) ==
  /\ registered' = registered \ gone
  /\ closing' = closing \cup gone
  /\ UNCHANGED <<phase, transport, watcher, done, keepalive, failures, shellVars>>

CloseSession(s) == s \in registered /\ TakeOut({s})

CloseAll == registered # {} /\ TakeOut(registered)

CloseClient(s) ==
  /\ s \in closing
  /\ closing' = closing \ {s}
  /\ transport' = [transport EXCEPT ![s] = "closed"]
  /\ UNCHANGED <<phase, registered, watcher, done, keepalive, failures,
                 shellVars>>

-----------------------------------------------------------------------------
(* OpenShell.  requireSession looks the session up under Manager.mu; the   *)
(* id may be one of a session that has gone.                               *)
RequireSession(c, s) ==
  /\ call[c] = "idle"
  /\ phase[s] = "live"
  /\ on' = [on EXCEPT ![c] = s]
  /\ call' = [call EXCEPT ![c] = IF s \in registered THEN "found" ELSE "failed"]
  /\ UNCHANGED <<sessionVars, lock, slot, channel, reader, stderr, pending>>

(* Mutant: the slot is not checked.                                        *)
MutLockSession(c) ==
  /\ call[c] = "found"
  /\ lock[on[c]] = None
  /\ call' = [call EXCEPT ![c] = "opening"]
  /\ lock' = [lock EXCEPT ![on[c]] = c]
  /\ UNCHANGED <<sessionVars, slot, on, channel, reader, stderr, pending>>

(* session.mu is taken and held across the channel open.                   *)
LockSession(c) ==
  /\ call[c] = "found"
  /\ lock[on[c]] = None
  /\ IF slot[on[c]] # None
       THEN /\ call' = [call EXCEPT ![c] = "failed"]
            /\ UNCHANGED lock
       ELSE /\ call' = [call EXCEPT ![c] = "opening"]
            /\ lock' = [lock EXCEPT ![on[c]] = c]
  /\ UNCHANGED <<sessionVars, slot, on, channel, reader, stderr, pending>>

(* The channel, the pty and the shell are granted: the slot is filled and  *)
(* both readers start, while the caller still holds session.mu.            *)
ShellStarts(c) ==
  /\ call[c] = "opening"
  /\ transport[on[c]] = "up"
  /\ call' = [call EXCEPT ![c] = "started"]
  /\ channel' = [channel EXCEPT ![c] = "open"]
  /\ slot' = [slot EXCEPT ![on[c]] = c]
  /\ reader' = [reader EXCEPT ![c] = "reading"]
  /\ stderr' = [stderr EXCEPT ![c] = "reading"]
  /\ UNCHANGED <<sessionVars, lock, on, pending>>

(* The server refuses, or a request cannot be sent, or the connection      *)
(* ends; a silent one answers neither way.                                 *)
ShellRefused(c) ==
  /\ call[c] = "opening"
  /\ transport[on[c]] # "silent"
  /\ call' = [call EXCEPT ![c] = "failed"]
  /\ lock' = [lock EXCEPT ![on[c]] = None]
  /\ UNCHANGED <<sessionVars, slot, on, channel, reader, stderr, pending>>

(* The deferred unlock comes before the caller has the result: readLoop    *)
(* may give the slot up, and fire onClose, in between.                     *)
UnlockSession(c) ==
  /\ call[c] = "started"
  /\ call' = [call EXCEPT ![c] = "returning"]
  /\ lock' = [lock EXCEPT ![on[c]] = None]
  /\ UNCHANGED <<sessionVars, slot, on, channel, reader, stderr, pending>>

OpenReturns(c) ==
  /\ call[c] = "returning"
  /\ call' = [call EXCEPT ![c] = "open"]
  /\ UNCHANGED <<sessionVars, lock, slot, on, channel, reader, stderr, pending>>

-----------------------------------------------------------------------------
ChannelDead(c) == channel[c] = "closed" \/ transport[on[c]] = "closed"

(* The remote shell exits: the server closes the channel.                  *)
RemoteExits(c) ==
  /\ channel[c] = "open"
  /\ transport[on[c]] = "up"
  /\ channel' = [channel EXCEPT ![c] = "closed"]
  /\ UNCHANGED <<sessionVars, lock, slot, call, on, reader, stderr, pending>>

(* Mutant: a slot that is locked is left as it is, onClose must not wait.  *)
MutReadLoopEnds(c) ==
  /\ reader[c] = "reading"
  /\ ChannelDead(c)
  /\ slot' = IF slot[on[c]] = c /\ lock[on[c]] = None
                THEN [slot EXCEPT ![on[c]] = None] ELSE slot
  /\ reader' = [reader EXCEPT ![c] = "cleared"]
  /\ UNCHANGED <<sessionVars, lock, call, on, channel, stderr, pending>>

(* readLoop's read fails: under session.mu the slot is given up, if it is  *)
(* still this shell's.                                                     *)
ReadLoopEnds(c) ==
  /\ reader[c] = "reading"
  /\ ChannelDead(c)
  /\ lock[on[c]] = None
  /\ slot' = IF slot[on[c]] = c THEN [slot EXCEPT ![on[c]] = None] ELSE slot
  /\ reader' = [reader EXCEPT ![c] = "cleared"]
  /\ UNCHANGED <<sessionVars, lock, call, on, channel, stderr, pending>>

FireOnClose(c) ==
  /\ reader[c] = "cleared"
  /\ reader' = [reader EXCEPT ![c] = "closed"]
  /\ UNCHANGED <<sessionVars, lock, slot, call, on, channel, stderr, pending>>

StderrArrives(c) ==
  /\ channel[c] = "open"
  /\ transport[on[c]] = "up"
  /\ pending' = pending \cup {c}
  /\ UNCHANGED <<sessionVars, lock, slot, call, on, channel, reader, stderr>>

(* readStderr hands what was received to onData, also what was received    *)
(* before the channel died.                                                *)
EmitStderr(c) ==
  /\ stderr[c] = "reading"
  /\ c \in pending
  /\ pending' = pending \ {c}
  /\ UNCHANGED <<sessionVars, lock, slot, call, on, channel, reader, stderr>>

ReadStderrEnds(c) ==
  /\ stderr[c] = "reading"
  /\ c \notin pending
  /\ ChannelDead(c)
  /\ stderr' = [stderr EXCEPT ![c] = "ended"]
  /\ UNCHANGED <<sessionVars, lock, slot, call, on, channel, reader, pending>>

-----------------------------------------------------------------------------
CreateSession(s) == Dial(s) \/ DialFails(s) \/ Handshake(s) \/ Register(s)

Network(s) == FallsSilent(s) \/ Resumes(s) \/ Breaks(s) \/ Drops(s)

Watcher(s) == WatcherSignals(s) \/ WatcherDeletes(s)

KeepaliveLoop(s) ==
  KeepaliveStops(s) \/ KeepaliveTicks(s) \/ ProbeAnswered(s) \/ ProbeFails(s)

OpenShell(c) ==
  \/ \E s \in Sessions : RequireSession(c, s)
  \/ LockSession(c) \/ ShellStarts(c) \/ ShellRefused(c)
  \/ UnlockSession(c) \/ OpenReturns(c)

ReadLoop(c) == ReadLoopEnds(c) \/ FireOnClose(c)

ReadStderr(c) == EmitStderr(c) \/ ReadStderrEnds(c)

Next ==
  \/ \E s \in Sessions : \/ CreateSession(s) \/ Network(s) \/ Watcher(s)
                         \/ KeepaliveLoop(s) \/ CloseSession(s) \/ CloseClient(s)
  \/ CloseAll
  \/ \E c \in Calls : \/ OpenShell(c) \/ ReadLoop(c) \/ ReadStderr(c)
                      \/ RemoteExits(c) \/ StderrArrives(c)

(* The goroutines of the program are scheduled; nothing is assumed of the  *)
(* network, the server or the callers who create, open and close.  What    *)
(* waits for a reply is only sure to go on once the connection has ended.  *)
Fairness ==
  /\ \A s \in Sessions : /\ WF_vars(Watcher(s))
                         /\ WF_vars(KeepaliveLoop(s))
                         /\ WF_vars(CloseClient(s))
  /\ \A c \in Calls : /\ WF_vars(LockSession(c))
                      /\ WF_vars(ShellRefused(c) /\ transport[on[c]] = "closed")
                      /\ WF_vars(UnlockSession(c) \/ OpenReturns(c))
                      /\ WF_vars(ReadLoop(c))
                      /\ WF_vars(ReadStderr(c))

Spec == Init /\ [][Next]_vars

FairSpec == Spec /\ Fairness

-----------------------------------------------------------------------------
(* Every variable has its type.                                            *)
TypeOK ==
  /\ phase \in [Sessions -> {"none", "dialing", "connected", "live"}]
  /\ transport \in [Sessions -> {"none", "up", "silent", "broken", "closed"}]
  /\ registered \subseteq Sessions
  /\ closing \subseteq Sessions
  /\ watcher \in [Sessions -> {"none", "waiting", "signalled", "gone"}]
  /\ done \subseteq Sessions
  /\ keepalive \in [Sessions -> {"none", "waiting", "probing", "ended"}]
  /\ failures \in [Sessions -> Nat]
  /\ lock \in [Sessions -> Calls \cup {None}]
  /\ slot \in [Sessions -> Calls \cup {None}]
  /\ call \in [Calls -> {"idle", "found", "opening", "started", "returning",
                        "open", "failed"}]
  /\ on \in [Calls -> Sessions \cup {None}]
  /\ \A c \in Calls : call[c] # "idle" => on[c] \in Sessions
  /\ channel \in [Calls -> {"none", "open", "closed"}]
  /\ reader \in [Calls -> {"none", "reading", "cleared", "closed"}]
  /\ stderr \in [Calls -> {"none", "reading", "ended"}]
  /\ pending \subseteq Calls

(* A shell with a running readLoop occupies its session's slot, so that of *)
(* any concurrent OpenShell calls one gets a shell, and a new one only     *)
(* after the old shell's readLoop has given the slot up.                   *)
OneShellPerSession ==
  \A c, d \in Calls :
    reader[c] = "reading" /\ reader[d] = "reading" /\ on[c] = on[d] => c = d

(* A session's slot never names a dead shell: what is in it has its        *)
(* readLoop still to come, which will give it up, however early the shell  *)
(* dies.  So once onClose has told of the end, another shell may open, and *)
(* WriteToShell never goes on for ever to one that is gone.                *)
SlotNamesRunningShell ==
  \A s \in Sessions : slot[s] # None => on[slot[s]] = s /\ reader[slot[s]] = "reading"

(* No zombie: a session in the table has a watcher still to come, so the   *)
(* table forgets every session whose connection has ended.  (Register has  *)
(* to win over a connection that ended before it was registered.)          *)
RegisteredIsWatched ==
  \A s \in registered : watcher[s] \in {"waiting", "signalled"}

(* A session that has left the table is being torn down: its client is     *)
(* closed or about to be, so nothing opened on a stale lookup survives it. *)
UnregisteredIsEnding ==
  \A s \in Sessions : phase[s] = "live" /\ s \notin registered =>
    s \in closing \/ transport[s] = "closed"

(* When a connection ends, its session leaves the table, the keepalive     *)
(* goroutine exits and every shell on it fires onClose, also one opened by *)
(* a call that had looked the session up before it left.                   *)
EndedIsTornDown ==
  \A s \in Sessions :
    (phase[s] = "live" /\ transport[s] = "closed")
      ~> /\ s \notin registered /\ keepalive[s] = "ended"
         /\ \A c \in Calls : on[c] = s => reader[c] \in {"none", "closed"}

(* A connection whose writes fail is declared dead by the keepalive loop,  *)
(* also when nothing else notices - unless a probe sent before still waits *)
(* for its reply: no further one is sent then, and none fails.             *)
BrokenIsDropped ==
  \A s \in Sessions :
    (phase[s] = "live" /\ transport[s] = "broken" /\ keepalive[s] # "probing")
      ~> s \notin registered

=============================================================================
