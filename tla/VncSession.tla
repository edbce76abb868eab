------------------------------ MODULE VncSession ------------------------------
(***************************************************************************)
(* frontend/src/store/vnc.ts with the registry of bridges in bindings.go   *)
(* and app.go: which connection attempt owns a session's desktop, which    *)
(* bridge belongs to it, and who stops that bridge.                        *)
(*                                                                         *)
(* An attempt is one call of attachVnc that runs: its LiveSession object,  *)
(* its call of VncStartBridge, its bridge and its noVNC client all carry   *)
(* the attempt's name.  The frontend is one thread, interrupted only where *)
(* attachVnc awaits startBridge; the backend serves each call in a         *)
(* goroutine of its own.                                                   *)
(***************************************************************************)
EXTENDS FiniteSets

CONSTANTS
  Sessions,  \* ids of the sessions of the workbench (never used again)
  Attempts,  \* calls of attachVnc; their number bounds the run
  None       \* no session, no attempt

ASSUME NoneAssumption == None \notin Sessions \cup Attempts

VARIABLES
  opened,      \* sessions in the workbench's list
  mounted,     \* sessions whose DesktopPanel is mounted
  slot,        \* liveBySession
  lastAttach,  \* sessions with an entry in lastAttachBySession
  stores,      \* sessions with an entry in storeRegistry
  status,      \* the status in that store
  session,     \* the session an attempt was made for
  disposed,    \* LiveSession.disposed
  bridgeId,    \* attempts whose LiveSession.bridgeId is set
  rfb,         \* the attempt's noVNC client
  listeners,   \* attempts with a keydown listener on document, by phase
  call,        \* VncStartBridge of the attempt
  bridge,      \* its bridge
  stopping,    \* attempts whose stopBridge has not reached the backend
  quit         \* App.shutdown has run

panelVars == <<opened, mounted>>
storeVars == <<stores, status>>
attemptVars == <<session, disposed, bridgeId, rfb, listeners>>
backendVars == <<call, bridge, quit>>
vars == <<panelVars, slot, lastAttach, storeVars, attemptVars, stopping, backendVars>>

Phases == {"capture", "bubble"}

Init ==
  /\ opened = Sessions
  /\ mounted = {}
  /\ slot = [s \in Sessions |-> None]
  /\ lastAttach = {}
  /\ stores = {}
  /\ status = [s \in Sessions |-> "idle"]
  /\ session = [a \in Attempts |-> None]
  /\ disposed = {}
  /\ bridgeId = {}
  /\ rfb = [a \in Attempts |-> "none"]
  /\ listeners = [phase \in Phases |-> {}]
  /\ call = [a \in Attempts |-> "none"]
  /\ bridge = [a \in Attempts |-> "none"]
  /\ stopping = {}
  /\ quit = FALSE

-----------------------------------------------------------------------------
(* getVncStore makes a fresh store when the session has none.              *)
SetStatus(s, value) ==
  /\ stores' = stores \cup {s}
  /\ status' = [status EXCEPT ![s] = value]

OwnsSlot(a) == slot[session[a]] = a /\ a \notin disposed

(* rfb.disconnect(): the client stops; its disconnect event follows.       *)
Disconnected(state) ==
  IF state \in {"connecting", "connected"} THEN "disconnecting" ELSE state

(* The listener is added for the capture phase and removed without the     *)
(* flag, which names the listener of the other phase.                      *)
AddListener(a) == listeners' = [listeners EXCEPT !["capture"] = @ \cup {a}]

RemoveListener(a) == listeners' = [listeners EXCEPT !["bubble"] = @ \ {a}]

(* teardown(session, disconnectRfb); a = None when there is no session.    *)
TeardownOf(a, disconnectRfb) ==
  IF a = None \/ a \in disposed
  THEN UNCHANGED <<disposed, bridgeId, rfb, listeners, stopping>>
  ELSE /\ disposed' = disposed \cup {a}
       /\ RemoveListener(a)
       /\ rfb' = IF disconnectRfb THEN [rfb EXCEPT ![a] = Disconnected(@)] ELSE rfb
       /\ stopping' = stopping \cup (bridgeId \cap {a})
       /\ bridgeId' = bridgeId \ {a}

(* Mutant: the previous connection is not torn down.                       *)
MutAttach(s, a) ==
  /\ call[a] = "none"
  /\ UNCHANGED <<disposed, bridgeId, rfb, listeners, stopping>>
  /\ slot' = [slot EXCEPT ![s] = a]
  /\ lastAttach' = lastAttach \cup {s}
  /\ SetStatus(s, "connecting")
  /\ session' = [session EXCEPT ![a] = s]
  /\ call' = [call EXCEPT ![a] = "sent"]
  /\ UNCHANGED <<bridge, quit>>

(* attachVnc up to the await of startBridge.                               *)
Attach(s, a) ==
  /\ call[a] = "none"
  /\ TeardownOf(slot[s], TRUE)
  /\ slot' = [slot EXCEPT ![s] = a]
  /\ lastAttach' = lastAttach \cup {s}
  /\ SetStatus(s, "connecting")
  /\ session' = [session EXCEPT ![a] = s]
  /\ call' = [call EXCEPT ![a] = "sent"]
  /\ UNCHANGED <<bridge, quit>>

(* detachVnc, but for the status it sets.                                  *)
Detach(s) ==
  /\ TeardownOf(slot[s], TRUE)
  /\ slot' = [slot EXCEPT ![s] = None]
  /\ lastAttach' = lastAttach \ {s}
  /\ UNCHANGED <<session, backendVars>>

-----------------------------------------------------------------------------
(* The panel's effect attaches once per mount, its cleanup detaches.       *)
Mount(s, a) ==
  /\ s \in opened \ mounted
  /\ mounted' = mounted \cup {s}
  /\ Attach(s, a)
  /\ UNCHANGED opened

Unmount(s) ==
  /\ s \in mounted
  /\ mounted' = mounted \ {s}
  /\ Detach(s)
  /\ SetStatus(s, "idle")
  /\ UNCHANGED opened

(* closeSession calls releaseSessionResources: detachVnc, dropVncStore.    *)
(* A panel still mounted unmounts after it.                                *)
CloseSession(s) ==
  /\ s \in opened
  /\ opened' = opened \ {s}
  /\ Detach(s)
  /\ stores' = stores \ {s}
  /\ status' = [status EXCEPT ![s] = "idle"]
  /\ UNCHANGED mounted

UserDisconnect(s) ==
  /\ s \in opened \cap mounted
  /\ TeardownOf(slot[s], TRUE)
  /\ SetStatus(s, "idle")
  /\ UNCHANGED <<panelVars, slot, lastAttach, session, backendVars>>

(* The reconnect button, offered when idle or after an error.              *)
Retry(s, a) ==
  /\ s \in opened \cap mounted \cap lastAttach
  /\ status[s] \in {"idle", "error"}
  /\ Attach(s, a)
  /\ UNCHANGED panelVars

(* setEncMode and setColorDepth reconnect whenever the session has a slot, *)
(* also one whose attempt is disposed.                                     *)
ChangeSetting(s, a) ==
  /\ s \in opened \cap mounted \cap lastAttach
  /\ slot[s] # None
  /\ Attach(s, a)
  /\ UNCHANGED panelVars

-----------------------------------------------------------------------------
(* The backend.  vncbridge.Start listens before VncStartBridge takes       *)
(* bridgesMu to register the bridge and answers with its id.               *)
StartBridge(a) ==
  /\ call[a] = "sent"
  /\ call' = [call EXCEPT ![a] = "starting"]
  /\ bridge' = [bridge EXCEPT ![a] = "listening"]
  /\ UNCHANGED <<panelVars, slot, lastAttach, storeVars, attemptVars, stopping, quit>>

StartBridgeFails(a) ==
  /\ call[a] = "sent"
  /\ call' = [call EXCEPT ![a] = "failed"]
  /\ UNCHANGED <<panelVars, slot, lastAttach, storeVars, attemptVars, stopping,
                 bridge, quit>>

RegisterBridge(a) ==
  /\ call[a] = "starting"
  /\ call' = [call EXCEPT ![a] = "started"]
  /\ bridge' = [bridge EXCEPT ![a] = "registered"]
  /\ UNCHANGED <<panelVars, slot, lastAttach, storeVars, attemptVars, stopping, quit>>

(* VncStopBridge: a bridge that is not registered is nothing to stop.      *)
StopBridge(a) ==
  /\ a \in stopping
  /\ stopping' = stopping \ {a}
  /\ bridge' = [bridge EXCEPT ![a] = IF @ = "registered" THEN "closed" ELSE @]
  /\ UNCHANGED <<panelVars, slot, lastAttach, storeVars, attemptVars, call, quit>>

Shutdown ==
  /\ ~quit
  /\ quit' = TRUE
  /\ bridge' = [a \in Attempts |-> IF bridge[a] = "registered" THEN "closed"
                                                               ELSE bridge[a]]
  /\ UNCHANGED <<panelVars, slot, lastAttach, storeVars, attemptVars, stopping, call>>

-----------------------------------------------------------------------------
(* attachVnc after the await.                                              *)
StartRejected(a) ==
  /\ call[a] = "failed"
  /\ call' = [call EXCEPT ![a] = "over"]
  /\ IF OwnsSlot(a)
     THEN TeardownOf(a, FALSE) /\ SetStatus(session[a], "error")
     ELSE UNCHANGED <<storeVars, disposed, bridgeId, rfb, listeners, stopping>>
  /\ UNCHANGED <<panelVars, slot, lastAttach, session, bridge, quit>>

(* Mutant: the attempt goes on without looking at the slot again.          *)
MutStartResolved(a) ==
  /\ call[a] = "started"
  /\ call' = [call EXCEPT ![a] = "over"]
  /\ bridgeId' = bridgeId \cup {a}
  /\ rfb' = [rfb EXCEPT ![a] = "connecting"]
  /\ AddListener(a)
  /\ UNCHANGED <<panelVars, slot, lastAttach, storeVars, session, disposed,
                 stopping, bridge, quit>>

(* The attempt that lost its slot while it waited stops the bridge;        *)
(* otherwise it makes the noVNC client and the paste listener.             *)
StartResolved(a) ==
  /\ call[a] = "started"
  /\ call' = [call EXCEPT ![a] = "over"]
  /\ IF OwnsSlot(a)
     THEN /\ bridgeId' = bridgeId \cup {a}
          /\ rfb' = [rfb EXCEPT ![a] = "connecting"]
          /\ AddListener(a)
          /\ UNCHANGED stopping
     ELSE /\ stopping' = stopping \cup {a}
          /\ UNCHANGED <<bridgeId, rfb, listeners>>
  /\ UNCHANGED <<panelVars, slot, lastAttach, storeVars, session, disposed,
                 bridge, quit>>

RfbConnects(a) ==
  /\ rfb[a] = "connecting"
  /\ bridge[a] = "registered"
  /\ rfb' = [rfb EXCEPT ![a] = "connected"]
  /\ IF OwnsSlot(a) THEN SetStatus(session[a], "connected") ELSE UNCHANGED storeVars
  /\ UNCHANGED <<panelVars, slot, lastAttach, session, disposed, bridgeId,
                 listeners, stopping, backendVars>>

(* Mutant: the disconnect event of a client that lost its slot counts.     *)
MutRfbDisconnects(a) ==
  /\ rfb[a] \in {"connecting", "connected", "disconnecting"}
  /\ SetStatus(session[a], "error")
  /\ disposed' = disposed \cup {a}
  /\ rfb' = [rfb EXCEPT ![a] = "gone"]
  /\ stopping' = stopping \cup (bridgeId \cap {a})
  /\ bridgeId' = bridgeId \ {a}
  /\ UNCHANGED <<panelVars, slot, lastAttach, session, listeners, backendVars>>

(* Mutant: the bridge of a client that ended by itself is not stopped.     *)
MutKeepsBridge(a) ==
  /\ rfb[a] \in {"connecting", "connected", "disconnecting"}
  /\ rfb' = [rfb EXCEPT ![a] = "gone"]
  /\ IF OwnsSlot(a)
     THEN disposed' = disposed \cup {a} /\ SetStatus(session[a], "error")
     ELSE UNCHANGED <<storeVars, disposed>>
  /\ UNCHANGED <<panelVars, slot, lastAttach, session, bridgeId, listeners,
                 stopping, backendVars>>

(* The disconnect event, after rfb.disconnect() or because the socket      *)
(* ended.                                                                  *)
RfbDisconnects(a) ==
  /\ rfb[a] \in {"connecting", "connected", "disconnecting"}
  /\ rfb' = [rfb EXCEPT ![a] = "gone"]
  /\ IF OwnsSlot(a)
     THEN /\ disposed' = disposed \cup {a}
          /\ RemoveListener(a)
          /\ stopping' = stopping \cup (bridgeId \cap {a})
          /\ bridgeId' = bridgeId \ {a}
          /\ SetStatus(session[a], "error")
     ELSE UNCHANGED <<storeVars, disposed, bridgeId, listeners, stopping>>
  /\ UNCHANGED <<panelVars, slot, lastAttach, session, backendVars>>

-----------------------------------------------------------------------------
User(s) == \/ Unmount(s) \/ CloseSession(s) \/ UserDisconnect(s)
           \/ \E a \in Attempts : Mount(s, a) \/ Retry(s, a) \/ ChangeSetting(s, a)

Backend(a) == StartBridge(a) \/ StartBridgeFails(a) \/ RegisterBridge(a) \/ StopBridge(a)

Frontend(a) == \/ StartRejected(a) \/ StartResolved(a)
               \/ RfbConnects(a) \/ RfbDisconnects(a)

(* Nothing of the frontend runs once the application shuts down; calls     *)
(* that reached the backend go on.                                         *)
Next == \/ ~quit /\ \E s \in Sessions : User(s)
        \/ ~quit /\ \E a \in Attempts : Frontend(a)
        \/ \E a \in Attempts : Backend(a)
        \/ Shutdown

(* Calls are delivered and answered, the answers are handled, and the      *)
(* panel of a closed session unmounts.                                     *)
Fairness ==
  /\ \A a \in Attempts :
       /\ WF_vars(StartBridge(a) \/ StartBridgeFails(a))
       /\ WF_vars(RegisterBridge(a))
       /\ WF_vars(StopBridge(a))
       /\ WF_vars(~quit /\ (StartRejected(a) \/ StartResolved(a)))
       /\ WF_vars(~quit /\ rfb[a] = "disconnecting" /\ RfbDisconnects(a))
  /\ \A s \in Sessions : WF_vars(~quit /\ s \notin opened /\ Unmount(s))

Spec == Init /\ [][Next]_vars

FairSpec == Spec /\ Fairness

-----------------------------------------------------------------------------
(* Every variable has its type.                                            *)
TypeOK ==
  /\ opened \subseteq Sessions
  /\ mounted \subseteq Sessions
  /\ slot \in [Sessions -> Attempts \cup {None}]
  /\ lastAttach \subseteq Sessions
  /\ stores \subseteq Sessions
  /\ status \in [Sessions -> {"idle", "connecting", "connected", "error"}]
  /\ session \in [Attempts -> Sessions \cup {None}]
  /\ disposed \subseteq Attempts
  /\ bridgeId \subseteq Attempts
  /\ rfb \in [Attempts -> {"none", "connecting", "connected", "disconnecting", "gone"}]
  /\ listeners \in [Phases -> SUBSET Attempts]
  /\ call \in [Attempts -> {"none", "sent", "starting", "started", "failed", "over"}]
  /\ bridge \in [Attempts -> {"none", "listening", "registered", "closed"}]
  /\ stopping \subseteq Attempts
  /\ quit \in BOOLEAN

(* An attempt that was made and not disposed owns its session's slot:      *)
(* remounts, retries and setting changes never stack two connections.      *)
NeverStacked ==
  \A a \in Attempts :
    session[a] # None /\ a \notin disposed => slot[session[a]] = a

(* A running bridge is never forgotten: its start is not answered yet, or  *)
(* its attempt is live and knows its id, or the call that stops it is on   *)
(* its way.                                                                *)
NoBridgeForgotten ==
  \A a \in Attempts :
    bridge[a] = "registered" =>
      \/ call[a] = "started"
      \/ a \in bridgeId /\ OwnsSlot(a)
      \/ a \in stopping

(* What the panel shows is the state of the attempt in the slot: connected *)
(* is the noVNC client of the live attempt, connecting is a live attempt,  *)
(* and in an error or idle nothing is live.                                *)
StatusTellsTheSlot ==
  \A s \in Sessions :
    LET a == slot[s]
        live == a # None /\ a \notin disposed
    IN /\ status[s] \in {"connecting", "connected"} <=> live
       /\ status[s] = "connected" => rfb[a] = "connected"

(* A bridge outlives its attempt only for a while: when the attempt is     *)
(* disposed, also while its bridge was starting, the bridge is stopped.    *)
DisposedBridgeStops ==
  \A a \in Attempts :
    a \in disposed ~> (bridge[a] \in {"none", "closed"} \/ quit)

=============================================================================
