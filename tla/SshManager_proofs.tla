--------------------------- MODULE SshManager_proofs ---------------------------
(***************************************************************************)
(* Safety proofs for SshManager, for any sets of sessions and OpenShell    *)
(* calls and any number of tolerated probe failures.                       *)
(***************************************************************************)
EXTENDS SshManager, TLAPS

USE DEF sessionVars, shellVars

(* Type correctness: every goroutine and every call stays in one of the    *)
(* places the code has, whatever the network does.                         *)
THEOREM TypeCorrect == Spec => []TypeOK
<1> USE KeepaliveAssumption, NoneAssumption
<1>1. Init => TypeOK
  BY DEF Init, TypeOK
<1>2. TypeOK /\ [Next]_vars => TypeOK'
  <2> SUFFICES ASSUME TypeOK, [Next]_vars PROVE TypeOK'
    OBVIOUS
  <2> USE DEF TypeOK
  <2>1. ASSUME NEW s \in Sessions, CreateSession(s) PROVE TypeOK'
    BY <2>1 DEF CreateSession, Dial, DialFails, Handshake, Register
  <2>2. ASSUME NEW s \in Sessions, Network(s) PROVE TypeOK'
    BY <2>2 DEF Network, FallsSilent, Resumes, Breaks, Drops, TransportBecomes
  <2>3. ASSUME NEW s \in Sessions, Watcher(s) PROVE TypeOK'
    BY <2>3 DEF Watcher, WatcherSignals, WatcherDeletes
  <2>4. ASSUME NEW s \in Sessions, KeepaliveLoop(s) PROVE TypeOK'
    BY <2>4 DEF KeepaliveLoop, KeepaliveStops, KeepaliveTicks, ProbeAnswered,
                ProbeFails, ProbeErrs
  <2>5. ASSUME NEW s \in Sessions, CloseSession(s) \/ CloseClient(s) PROVE TypeOK'
    BY <2>5 DEF CloseSession, TakeOut, CloseClient
  <2>6. CASE CloseAll
    BY <2>6 DEF CloseAll, TakeOut
  <2>7. ASSUME NEW c \in Calls, OpenShell(c) PROVE TypeOK'
    <3>1. ASSUME NEW s \in Sessions, RequireSession(c, s) PROVE TypeOK'
      BY <3>1 DEF RequireSession
    <3>2. CASE LockSession(c)
      BY <3>2 DEF LockSession
    <3>3. CASE ShellStarts(c)
      BY <3>3 DEF ShellStarts
    <3>4. CASE ShellRefused(c) \/ UnlockSession(c) \/ OpenReturns(c)
      BY <3>4 DEF ShellRefused, UnlockSession, OpenReturns
    <3>5. QED
      BY <2>7, <3>1, <3>2, <3>3, <3>4 DEF OpenShell
  <2>8. ASSUME NEW c \in Calls, ReadLoop(c) PROVE TypeOK'
    BY <2>8 DEF ReadLoop, ReadLoopEnds, FireOnClose
  <2>9. ASSUME NEW c \in Calls, ReadStderr(c) \/ RemoteExits(c) \/ StderrArrives(c)
        PROVE  TypeOK'
    BY <2>9 DEF ReadStderr, EmitStderr, ReadStderrEnds, RemoteExits, StderrArrives
  <2>10. CASE UNCHANGED vars
    BY <2>10 DEF vars
  <2>11. QED
    BY <2>1, <2>2, <2>3, <2>4, <2>5, <2>6, <2>7, <2>8, <2>9, <2>10 DEF Next
<1>3. QED
  BY <1>1, <1>2, PTL DEF Spec

-----------------------------------------------------------------------------
(* The lock discipline of session.mu.  An OpenShell call between Lock and  *)
(* Unlock is the holder; while it opens the channel the slot is empty; a   *)
(* readLoop that runs owns the slot, and nothing else is in one; a shell's *)
(* readers exist only once its call has started them.                      *)
ShellInv ==
  /\ SlotNamesRunningShell
  /\ \A c \in Calls :
    /\ call[c] \in {"opening", "started"} => lock[on[c]] = c
    /\ call[c] = "opening" => slot[on[c]] = None
    /\ reader[c] = "reading" => slot[on[c]] = c
    /\ reader[c] # "none" => call[c] \in {"started", "returning", "open"}

(* ShellInv is inductive.                                                  *)
LEMMA ShellInvInductive ==
  ASSUME TypeOK, ShellInv, [Next]_vars
  PROVE  ShellInv'
<1> USE NoneAssumption DEF ShellInv, SlotNamesRunningShell, TypeOK
<1>1. CASE UNCHANGED shellVars
  BY <1>1
<1>2. ASSUME NEW s \in Sessions,
             \/ CreateSession(s) \/ Network(s) \/ Watcher(s)
             \/ KeepaliveLoop(s) \/ CloseSession(s) \/ CloseClient(s)
      PROVE  UNCHANGED shellVars
  BY <1>2 DEF CreateSession, Dial, DialFails, Handshake, Register,
     Network, FallsSilent, Resumes, Breaks, Drops, TransportBecomes,
     Watcher, WatcherSignals, WatcherDeletes,
     KeepaliveLoop, KeepaliveStops, KeepaliveTicks, ProbeAnswered, ProbeFails,
     CloseSession, CloseClient, TakeOut
<1>3. CloseAll => UNCHANGED shellVars
  BY DEF CloseAll, TakeOut
<1>4. ASSUME NEW c \in Calls, NEW s \in Sessions, RequireSession(c, s)
      PROVE  ShellInv'
  BY <1>4 DEF RequireSession
<1>5. ASSUME NEW c \in Calls, LockSession(c) PROVE ShellInv'
  BY <1>5 DEF LockSession
<1>6. ASSUME NEW c \in Calls, ShellStarts(c) PROVE ShellInv'
  BY <1>6 DEF ShellStarts
<1>7. ASSUME NEW c \in Calls, ShellRefused(c) \/ UnlockSession(c) \/ OpenReturns(c)
      PROVE  ShellInv'
  BY <1>7 DEF ShellRefused, UnlockSession, OpenReturns
<1>8. ASSUME NEW c \in Calls, ReadLoopEnds(c) PROVE ShellInv'
  BY <1>8 DEF ReadLoopEnds
<1>9. ASSUME NEW c \in Calls, FireOnClose(c) PROVE ShellInv'
  BY <1>9 DEF FireOnClose
<1>10. ASSUME NEW c \in Calls, ReadStderr(c) \/ RemoteExits(c) \/ StderrArrives(c)
       PROVE  ShellInv'
  BY <1>10 DEF ReadStderr, EmitStderr, ReadStderrEnds, RemoteExits, StderrArrives
<1>11. QED
  BY <1>1, <1>2, <1>3, <1>4, <1>5, <1>6, <1>7, <1>8, <1>9, <1>10
     DEF Next, OpenShell, ReadLoop, vars

(* However many callers race in OpenShell, a session has one shell: two    *)
(* running readLoops of one session are the same.                          *)
THEOREM OneShell == Spec => []OneShellPerSession
<1>1. Init => ShellInv
  BY DEF Init, ShellInv, SlotNamesRunningShell
<1>2. TypeOK /\ ShellInv /\ [Next]_vars => ShellInv'
  BY ShellInvInductive
<1>3. ShellInv => OneShellPerSession
  BY DEF ShellInv, OneShellPerSession
<1>4. QED
  BY <1>1, <1>2, <1>3, TypeCorrect, PTL DEF Spec

(* However early a shell dies, its session's slot does not name it once    *)
(* its readLoop has gone on to onClose: only a running shell is in a slot. *)
THEOREM SlotIsLive == Spec => []SlotNamesRunningShell
<1>1. Init => ShellInv
  BY DEF Init, ShellInv, SlotNamesRunningShell
<1>2. TypeOK /\ ShellInv /\ [Next]_vars => ShellInv'
  BY ShellInvInductive
<1>3. ShellInv => SlotNamesRunningShell
  BY DEF ShellInv
<1>4. QED
  BY <1>1, <1>2, <1>3, TypeCorrect, PTL DEF Spec

-----------------------------------------------------------------------------
(* The life of a session: the watcher starts with the registration and     *)
(* moves on only once the connection has ended.                            *)
LifeInv ==
  /\ \A s \in Sessions :
       /\ phase[s] # "live" => watcher[s] = "none"
       /\ watcher[s] \in {"signalled", "gone"} => transport[s] = "closed"
  /\ RegisteredIsWatched
  /\ UnregisteredIsEnding

(* LifeInv is inductive.                                                   *)
LEMMA LifeInvInductive ==
  ASSUME TypeOK, LifeInv, [Next]_vars
  PROVE  LifeInv'
<1> USE DEF LifeInv, RegisteredIsWatched, UnregisteredIsEnding, TypeOK
<1>1. ASSUME NEW s \in Sessions, CreateSession(s) PROVE LifeInv'
  <2>1. CASE Dial(s) \/ DialFails(s)
    BY <2>1 DEF Dial, DialFails
  <2>2. CASE Handshake(s)
    BY <2>2 DEF Handshake
  <2>3. CASE Register(s)
    BY <2>3 DEF Register
  <2>4. QED
    BY <1>1, <2>1, <2>2, <2>3 DEF CreateSession
<1>2. ASSUME NEW s \in Sessions, Network(s) PROVE LifeInv'
  BY <1>2 DEF Network, FallsSilent, Resumes, Breaks, Drops, TransportBecomes
<1>3. ASSUME NEW s \in Sessions, Watcher(s) PROVE LifeInv'
  BY <1>3 DEF Watcher, WatcherSignals, WatcherDeletes
<1>4. ASSUME NEW s \in Sessions, KeepaliveLoop(s) PROVE LifeInv'
  BY <1>4 DEF KeepaliveLoop, KeepaliveStops, KeepaliveTicks, ProbeAnswered,
              ProbeFails
<1>5. ASSUME NEW gone \in SUBSET Sessions, TakeOut(gone) PROVE LifeInv'
  BY <1>5 DEF TakeOut
<1>6. ASSUME NEW s \in Sessions, CloseClient(s) PROVE LifeInv'
  BY <1>6 DEF CloseClient
<1>7. CASE UNCHANGED sessionVars
  BY <1>7
<1>8. ASSUME NEW c \in Calls,
             \/ OpenShell(c) \/ ReadLoop(c) \/ ReadStderr(c)
             \/ RemoteExits(c) \/ StderrArrives(c)
      PROVE  UNCHANGED sessionVars
  <2>1. CASE OpenShell(c)
    BY <2>1 DEF OpenShell, RequireSession, LockSession, ShellStarts, ShellRefused,
                UnlockSession, OpenReturns
  <2>2. CASE ReadLoop(c) \/ ReadStderr(c)
    BY <2>2 DEF ReadLoop, ReadLoopEnds, FireOnClose, ReadStderr, EmitStderr,
                ReadStderrEnds
  <2>3. CASE RemoteExits(c) \/ StderrArrives(c)
    BY <2>3 DEF RemoteExits, StderrArrives
  <2>4. QED
    BY <1>8, <2>1, <2>2, <2>3
<1>9. CASE CloseAll
  BY <1>5, <1>9 DEF CloseAll, TypeOK
<1>10. ASSUME NEW s \in Sessions, CloseSession(s) PROVE LifeInv'
  <2>1. TakeOut({s}) /\ {s} \in SUBSET Sessions
    BY <1>10 DEF CloseSession
  <2>2. QED
    BY <1>5, <2>1
<1>11. ASSUME NEW c \in Calls,
              \/ OpenShell(c) \/ ReadLoop(c) \/ ReadStderr(c)
              \/ RemoteExits(c) \/ StderrArrives(c)
       PROVE  LifeInv'
  BY <1>7, <1>8, <1>11
<1>12. CASE UNCHANGED vars
  BY <1>7, <1>12 DEF vars
<1> HIDE DEF LifeInv
<1>13. QED
  BY <1>1, <1>2, <1>3, <1>4, <1>6, <1>9, <1>10, <1>11, <1>12 DEF Next

(* Every session in the table has a watcher still to come.                 *)
THEOREM NoZombie == Spec => []RegisteredIsWatched
<1>1. Init => LifeInv
  BY DEF Init, LifeInv, RegisteredIsWatched, UnregisteredIsEnding
<1>2. TypeOK /\ LifeInv /\ [Next]_vars => LifeInv'
  BY LifeInvInductive
<1>3. LifeInv => RegisteredIsWatched
  BY DEF LifeInv
<1>4. QED
  BY <1>1, <1>2, <1>3, TypeCorrect, PTL DEF Spec

(* Every session that left the table has its client closed or about to be. *)
THEOREM GoneIsEnding == Spec => []UnregisteredIsEnding
<1>1. Init => LifeInv
  BY DEF Init, LifeInv, RegisteredIsWatched, UnregisteredIsEnding
<1>2. TypeOK /\ LifeInv /\ [Next]_vars => LifeInv'
  BY LifeInvInductive
<1>3. LifeInv => UnregisteredIsEnding
  BY DEF LifeInv
<1>4. QED
  BY <1>1, <1>2, <1>3, TypeCorrect, PTL DEF Spec

=============================================================================
