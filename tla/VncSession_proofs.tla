-------------------------- MODULE VncSession_proofs --------------------------
(***************************************************************************)
(* Safety proofs for VncSession, for any sessions and attempts.            *)
(***************************************************************************)
EXTENDS VncSession, TLAPS

(* Which attempt a slot may hold, and where an attempt stands by the state *)
(* of its call: until the call is over it has no bridge id and no noVNC    *)
(* client.                                                                 *)
SlotInv ==
  /\ TypeOK
  /\ NeverStacked
  /\ \A s \in Sessions : slot[s] # None => session[slot[s]] = s
  /\ \A a \in Attempts :
       /\ session[a] = None <=> call[a] = "none"
       /\ a \in disposed => session[a] # None
       /\ a \in bridgeId => a \notin disposed
       /\ call[a] # "over" => a \notin bridgeId /\ rfb[a] = "none"

(* Where a bridge stands by the state of the call that starts it.          *)
BridgeInv ==
  /\ SlotInv
  /\ NoBridgeForgotten
  /\ \A a \in Attempts :
       bridge[a] = "registered" => call[a] \in {"started", "over"}

SessionInv == BridgeInv /\ StatusTellsTheSlot

(* What teardown does to an attempt a, and that it does it to no other.     *)
LEMMA TeardownEffect ==
  ASSUME SlotInv, NEW a \in Attempts \cup {None}, NEW d \in BOOLEAN, TeardownOf(a, d)
  PROVE  /\ disposed' = disposed \cup ({a} \ {None})
         /\ bridgeId' = bridgeId \ {a}
         /\ stopping' = stopping \cup (bridgeId \cap {a})
         /\ listeners' \in [Phases -> SUBSET Attempts]
         /\ rfb' \in [Attempts -> {"none", "connecting", "connected",
                                   "disconnecting", "gone"}]
         /\ \A b \in Attempts : rfb[b] = "none" => rfb'[b] = "none"
         /\ \A b \in Attempts \ {a} : rfb'[b] = rfb[b]
<1> USE NoneAssumption DEF SlotInv, TypeOK
<1>1. CASE a = None \/ a \in disposed
  BY <1>1 DEF TeardownOf
<1>2. CASE ~(a = None \/ a \in disposed)
  <2>1. /\ disposed' = disposed \cup ({a} \ {None})
        /\ bridgeId' = bridgeId \ {a}
        /\ stopping' = stopping \cup (bridgeId \cap {a})
        /\ listeners' \in [Phases -> SUBSET Attempts]
    BY <1>2 DEF TeardownOf, RemoveListener
  <2>2. rfb' = rfb \/ rfb' = [rfb EXCEPT ![a] = Disconnected(@)]
    BY <1>2 DEF TeardownOf
  <2>3. QED
    BY <1>2, <2>1, <2>2 DEF Disconnected
<1>3. QED
  BY <1>1, <1>2

(* Attach hands the slot to an attempt that was not made before.           *)
LEMMA AttachSlotInv ==
  ASSUME SlotInv, NEW s \in Sessions, NEW a \in Attempts, Attach(s, a),
         opened' \subseteq Sessions, mounted' \subseteq Sessions
  PROVE  SlotInv'
<1> USE NoneAssumption DEF SlotInv, TypeOK, NeverStacked
<1>1. slot[s] \in Attempts \cup {None}
  OBVIOUS
<1>2. TeardownOf(slot[s], TRUE)
  BY DEF Attach
<1>3. /\ disposed' = disposed \cup ({slot[s]} \ {None})
      /\ bridgeId' = bridgeId \ {slot[s]}
      /\ stopping' = stopping \cup (bridgeId \cap {slot[s]})
      /\ listeners' \in [Phases -> SUBSET Attempts]
      /\ rfb' \in [Attempts -> {"none", "connecting", "connected",
                                "disconnecting", "gone"}]
      /\ \A b \in Attempts : rfb[b] = "none" => rfb'[b] = "none"
  BY <1>1, <1>2, TeardownEffect
<1>4. TypeOK'
  <2>1. /\ slot' = [slot EXCEPT ![s] = a]
        /\ lastAttach' = lastAttach \cup {s}
        /\ stores' = stores \cup {s}
        /\ status' = [status EXCEPT ![s] = "connecting"]
        /\ session' = [session EXCEPT ![a] = s]
        /\ call' = [call EXCEPT ![a] = "sent"]
        /\ UNCHANGED <<bridge, quit>>
    BY DEF Attach, SetStatus
  <2>2. QED
    BY <1>3, <2>1
<1>5. NeverStacked'
  BY <1>3, <1>4 DEF Attach
<1>6. QED
  BY <1>3, <1>4, <1>5 DEF Attach

(* The other ways to empty or dispose a slot.                              *)
LEMMA ReleaseSlotInv ==
  ASSUME SlotInv, NEW s \in Sessions, TeardownOf(slot[s], TRUE),
         slot' = [slot EXCEPT ![s] = None] \/ slot' = slot,
         lastAttach' \subseteq Sessions, UNCHANGED <<session, backendVars>>,
         stores' \subseteq Sessions, status' = [status EXCEPT ![s] = "idle"],
         opened' \subseteq Sessions, mounted' \subseteq Sessions
  PROVE  SlotInv'
<1> USE NoneAssumption DEF SlotInv, TypeOK, NeverStacked, backendVars
<1>1. slot[s] \in Attempts \cup {None}
  OBVIOUS
<1>2. /\ disposed' = disposed \cup ({slot[s]} \ {None})
      /\ bridgeId' = bridgeId \ {slot[s]}
      /\ stopping' = stopping \cup (bridgeId \cap {slot[s]})
      /\ listeners' \in [Phases -> SUBSET Attempts]
      /\ rfb' \in [Attempts -> {"none", "connecting", "connected",
                                "disconnecting", "gone"}]
      /\ \A b \in Attempts : rfb[b] = "none" => rfb'[b] = "none"
  BY <1>1, TeardownEffect
<1>3. TypeOK'
  BY <1>2
<1>4. NeverStacked'
  BY <1>2, <1>3
<1>5. QED
  BY <1>2, <1>3, <1>4

LEMMA SlotInvInductive == SlotInv /\ [Next]_vars => SlotInv'
<1> SUFFICES ASSUME SlotInv, [Next]_vars PROVE SlotInv'
  OBVIOUS
<1> USE NoneAssumption DEF panelVars, storeVars, attemptVars, backendVars
<1>1. ASSUME NEW s \in Sessions, User(s) PROVE SlotInv'
  <2>0. opened \subseteq Sessions /\ mounted \subseteq Sessions
        /\ stores \subseteq Sessions /\ lastAttach \subseteq Sessions
    BY DEF SlotInv, TypeOK
  <2>1. CASE Unmount(s)
    BY <2>0, <2>1, ReleaseSlotInv DEF Unmount, Detach, SetStatus
  <2>2. CASE CloseSession(s)
    BY <2>0, <2>2, ReleaseSlotInv DEF CloseSession, Detach
  <2>3. CASE UserDisconnect(s)
    BY <2>0, <2>3, ReleaseSlotInv DEF UserDisconnect, SetStatus
  <2>4. ASSUME NEW a \in Attempts, Mount(s, a) \/ Retry(s, a) \/ ChangeSetting(s, a)
        PROVE  SlotInv'
    BY <2>0, <2>4, AttachSlotInv DEF Mount, Retry, ChangeSetting
  <2>5. QED
    BY <1>1, <2>1, <2>2, <2>3, <2>4 DEF User
<1>2. ASSUME NEW a \in Attempts, StartRejected(a) PROVE SlotInv'
  <2>1. /\ call[a] = "failed"
        /\ call' = [call EXCEPT ![a] = "over"]
        /\ UNCHANGED <<panelVars, slot, lastAttach, session, bridge, quit>>
    BY <1>2 DEF StartRejected
  <2>2. a # None /\ session[a] \in Sessions /\ FALSE \in BOOLEAN
    BY <2>1 DEF SlotInv, TypeOK
  <2>3. CASE OwnsSlot(a)
    <3>1. /\ TeardownOf(a, FALSE)
          /\ stores' = stores \cup {session[a]}
          /\ status' = [status EXCEPT ![session[a]] = "error"]
      BY <1>2, <2>3 DEF StartRejected, SetStatus
    <3>2. /\ disposed' = disposed \cup ({a} \ {None})
          /\ bridgeId' = bridgeId \ {a}
          /\ stopping' = stopping \cup (bridgeId \cap {a})
          /\ listeners' \in [Phases -> SUBSET Attempts]
          /\ rfb' \in [Attempts -> {"none", "connecting", "connected",
                                    "disconnecting", "gone"}]
          /\ \A b \in Attempts : rfb[b] = "none" => rfb'[b] = "none"
      BY <3>1, <2>2, TeardownEffect
    <3>3. TypeOK'
      <4>0. TypeOK
        BY DEF SlotInv
      <4>1. /\ stores' \subseteq Sessions
            /\ status' \in [Sessions -> {"idle", "connecting", "connected", "error"}]
        BY <4>0, <2>2, <3>1 DEF TypeOK
      <4>2. /\ disposed' \subseteq Attempts /\ bridgeId' \subseteq Attempts
            /\ stopping' \subseteq Attempts
        BY <4>0, <3>2 DEF TypeOK
      <4>3. QED
        BY <4>0, <4>1, <4>2, <2>1, <3>2 DEF TypeOK
    <3>4. NeverStacked'
      BY <2>1, <2>2, <3>2 DEF SlotInv, TypeOK, NeverStacked
    <3>5. QED
      BY <2>1, <2>2, <3>2, <3>3, <3>4 DEF SlotInv, TypeOK
  <2>4. CASE ~OwnsSlot(a)
    BY <1>2, <2>1, <2>4 DEF StartRejected, SlotInv, TypeOK, NeverStacked
  <2>5. QED
    BY <2>3, <2>4
<1> USE DEF SlotInv, TypeOK, NeverStacked
<1>3. ASSUME NEW a \in Attempts, Backend(a) PROVE SlotInv'
  BY <1>3 DEF Backend, StartBridge, StartBridgeFails, RegisterBridge, StopBridge
<1>4. ASSUME NEW a \in Attempts, Frontend(a) PROVE SlotInv'
  <2> USE DEF OwnsSlot, SetStatus
  <2>1. CASE StartRejected(a)
    BY <2>1, <1>2
  <2>2. CASE StartResolved(a)
    <3>1. listeners' \in [Phases -> SUBSET Attempts]
      BY <2>2 DEF StartResolved, AddListener
    <3>2. QED
      BY <2>2, <3>1 DEF StartResolved
  <2>3. CASE RfbConnects(a)
    BY <2>3 DEF RfbConnects
  <2>4. CASE RfbDisconnects(a)
    <3>1. listeners' \in [Phases -> SUBSET Attempts] /\ session[a] \in Sessions
      BY <2>4 DEF RfbDisconnects, RemoveListener
    <3>2. QED
      BY <2>4, <3>1 DEF RfbDisconnects
  <2>5. QED
    BY <1>4, <2>1, <2>2, <2>3, <2>4 DEF Frontend
<1>5. CASE Shutdown
  BY <1>5 DEF Shutdown
<1>6. CASE UNCHANGED vars
  BY <1>6 DEF vars
<1>7. QED
  BY <1>1, <1>3, <1>4, <1>5, <1>6 DEF Next

LEMMA AttachBridgeInv ==
  ASSUME BridgeInv, SlotInv', NEW s \in Sessions, NEW a \in Attempts, Attach(s, a)
  PROVE  BridgeInv'
<1>1. slot[s] \in Attempts \cup {None} /\ TRUE \in BOOLEAN /\ TeardownOf(slot[s], TRUE)
  BY DEF Attach, BridgeInv, SlotInv, TypeOK
<1>2. /\ disposed' = disposed \cup ({slot[s]} \ {None})
      /\ bridgeId' = bridgeId \ {slot[s]}
      /\ stopping' = stopping \cup (bridgeId \cap {slot[s]})
  BY <1>1, TeardownEffect DEF BridgeInv
<1>3. /\ call[a] = "none"
      /\ slot' = [slot EXCEPT ![s] = a]
      /\ session' = [session EXCEPT ![a] = s]
      /\ call' = [call EXCEPT ![a] = "sent"]
      /\ bridge' = bridge
  BY DEF Attach
<1>4. ASSUME NEW b \in Attempts, bridge[b] = "registered"
      PROVE  \/ call'[b] = "started"
             \/ b \in bridgeId' /\ OwnsSlot(b)'
             \/ b \in stopping'
  <2>1. b # a /\ call'[b] = call[b] /\ session'[b] = session[b] /\ session[b] \in Sessions
    BY <1>3, <1>4 DEF BridgeInv, SlotInv, TypeOK
  <2>2. CASE b \in bridgeId /\ OwnsSlot(b)
    BY <1>2, <1>3, <2>1, <2>2, NoneAssumption DEF OwnsSlot, BridgeInv, SlotInv, TypeOK
  <2>3. QED
    BY <1>2, <1>4, <2>1, <2>2 DEF BridgeInv, NoBridgeForgotten
<1>5. QED
  BY <1>3, <1>4 DEF BridgeInv, NoBridgeForgotten, SlotInv, TypeOK

LEMMA ReleaseBridgeInv ==
  ASSUME BridgeInv, SlotInv', NEW s \in Sessions, TeardownOf(slot[s], TRUE),
         slot' = [slot EXCEPT ![s] = None] \/ slot' = slot,
         UNCHANGED <<session, backendVars>>
  PROVE  BridgeInv'
<1>1. slot[s] \in Attempts \cup {None} /\ TRUE \in BOOLEAN
  BY DEF BridgeInv, SlotInv, TypeOK
<1>2. /\ disposed' = disposed \cup ({slot[s]} \ {None})
      /\ bridgeId' = bridgeId \ {slot[s]}
      /\ stopping' = stopping \cup (bridgeId \cap {slot[s]})
  BY <1>1, TeardownEffect DEF BridgeInv
<1>3. ASSUME NEW b \in Attempts, bridge[b] = "registered"
      PROVE  \/ call[b] = "started"
             \/ b \in bridgeId' /\ OwnsSlot(b)'
             \/ b \in stopping'
  <2>1. session'[b] = session[b] /\ session[b] \in Sessions
    BY <1>3 DEF BridgeInv, SlotInv, TypeOK
  <2>2. CASE b \in bridgeId /\ OwnsSlot(b)
    BY <1>2, <2>1, <2>2, NoneAssumption DEF OwnsSlot, BridgeInv, SlotInv, TypeOK
  <2>3. QED
    BY <1>2, <1>3, <2>1, <2>2 DEF BridgeInv, NoBridgeForgotten
<1>4. QED
  BY <1>3 DEF BridgeInv, NoBridgeForgotten, backendVars

(* SlotInv and BridgeInv are inductive together.                           *)
LEMMA BridgeInvInductive == BridgeInv /\ [Next]_vars => BridgeInv'
<1> SUFFICES ASSUME BridgeInv, [Next]_vars PROVE BridgeInv'
  OBVIOUS
<1>1. SlotInv'
  BY SlotInvInductive DEF BridgeInv
<1> USE DEF panelVars, storeVars, attemptVars, backendVars
<1>2. ASSUME NEW s \in Sessions, User(s) PROVE BridgeInv'
  <2>1. CASE Unmount(s)
    BY <1>1, <2>1, ReleaseBridgeInv DEF Unmount, Detach
  <2>2. CASE CloseSession(s)
    BY <1>1, <2>2, ReleaseBridgeInv DEF CloseSession, Detach
  <2>3. CASE UserDisconnect(s)
    BY <1>1, <2>3, ReleaseBridgeInv DEF UserDisconnect
  <2>4. ASSUME NEW a \in Attempts, Mount(s, a) \/ Retry(s, a) \/ ChangeSetting(s, a)
        PROVE  BridgeInv'
    BY <1>1, <2>4, AttachBridgeInv DEF Mount, Retry, ChangeSetting
  <2>5. QED
    BY <1>2, <2>1, <2>2, <2>3, <2>4 DEF User
<1>3. ASSUME NEW a \in Attempts, Backend(a) PROVE BridgeInv'
  BY <1>1, <1>3 DEF Backend, StartBridge, StartBridgeFails, RegisterBridge, StopBridge,
     BridgeInv, SlotInv, TypeOK, NoBridgeForgotten, OwnsSlot
<1>4. ASSUME NEW a \in Attempts, Frontend(a) PROVE BridgeInv'
  <2>1. CASE StartRejected(a)
    <3>1. /\ call[a] = "failed"
          /\ call' = [call EXCEPT ![a] = "over"]
          /\ UNCHANGED <<slot, session, bridge>>
      BY <2>1 DEF StartRejected
    <3>2. CASE OwnsSlot(a)
      <4>1. a \in Attempts \cup {None} /\ FALSE \in BOOLEAN /\ TeardownOf(a, FALSE)
        BY <2>1, <3>2 DEF StartRejected
      <4>2. /\ disposed' = disposed \cup ({a} \ {None})
            /\ bridgeId' = bridgeId \ {a}
            /\ stopping' = stopping \cup (bridgeId \cap {a})
        BY <4>1, TeardownEffect DEF BridgeInv
      <4>3. bridge[a] # "registered"
        BY <3>1 DEF BridgeInv
      <4>4. QED
        BY <1>1, <3>1, <4>2, <4>3
           DEF BridgeInv, SlotInv, TypeOK, NoBridgeForgotten, OwnsSlot
    <3>3. CASE ~OwnsSlot(a)
      <4>1. UNCHANGED <<disposed, bridgeId, stopping>>
        BY <2>1, <3>3 DEF StartRejected
      <4>2. QED
        BY <1>1, <3>1, <4>1 DEF BridgeInv, SlotInv, TypeOK, NoBridgeForgotten, OwnsSlot
    <3>4. QED
      BY <3>2, <3>3
  <2>2. CASE StartResolved(a)
    BY <1>1, <2>2 DEF StartResolved, BridgeInv, SlotInv, TypeOK, NoBridgeForgotten, OwnsSlot
  <2>3. CASE RfbConnects(a)
    <3>1. UNCHANGED <<slot, session, disposed, bridgeId, stopping, call, bridge>>
      BY <2>3 DEF RfbConnects
    <3>2. QED
      BY <1>1, <3>1 DEF BridgeInv, NoBridgeForgotten, OwnsSlot
  <2>4. CASE RfbDisconnects(a)
    BY <1>1, <2>4 DEF RfbDisconnects, BridgeInv, NoBridgeForgotten, OwnsSlot
  <2>5. QED
    BY <1>4, <2>1, <2>2, <2>3, <2>4 DEF Frontend
<1>5. CASE Shutdown
  BY <1>1, <1>5 DEF Shutdown, BridgeInv, SlotInv, TypeOK, NoBridgeForgotten, OwnsSlot
<1>6. CASE UNCHANGED vars
  BY <1>1, <1>6 DEF vars, BridgeInv, NoBridgeForgotten, OwnsSlot
<1>7. QED
  BY <1>2, <1>3, <1>4, <1>5, <1>6 DEF Next

LEMMA BridgeInit == Init => BridgeInv
<1>1. Init => TypeOK
  <2>1. Init => listeners \in [Phases -> SUBSET Attempts]
    BY DEF Init
  <2>2. Init => /\ slot \in [Sessions -> Attempts \cup {None}]
                /\ session \in [Attempts -> Sessions \cup {None}]
    BY DEF Init
  <2>3. Init => /\ status \in [Sessions -> {"idle", "connecting", "connected", "error"}]
                /\ rfb \in [Attempts -> {"none", "connecting", "connected",
                                         "disconnecting", "gone"}]
    BY DEF Init
  <2>4. Init => /\ call \in [Attempts -> {"none", "sent", "starting", "started",
                                          "failed", "over"}]
                /\ bridge \in [Attempts -> {"none", "listening", "registered", "closed"}]
    BY DEF Init
  <2>5. Init => /\ opened \subseteq Sessions /\ mounted \subseteq Sessions
                /\ lastAttach \subseteq Sessions /\ stores \subseteq Sessions
                /\ disposed \subseteq Attempts /\ bridgeId \subseteq Attempts
                /\ stopping \subseteq Attempts /\ quit \in BOOLEAN
    BY DEF Init
  <2>6. QED
    BY <2>1, <2>2, <2>3, <2>4, <2>5 DEF TypeOK
<1>2. QED
  BY <1>1 DEF Init, BridgeInv, SlotInv, NeverStacked, NoBridgeForgotten

(* BridgeInv holds of every reachable state.                               *)
THEOREM BridgesOwned == Spec => []BridgeInv
<1>1. QED
  BY BridgeInit, BridgeInvInductive, PTL DEF Spec

(* TypeOK is an invariant.                                                 *)
THEOREM TypeCorrect == Spec => []TypeOK
<1>1. BridgeInv => TypeOK
  BY DEF BridgeInv, SlotInv
<1>2. QED
  BY <1>1, BridgesOwned, PTL

(* A session never has two live attempts, for any number of remounts,      *)
(* retries and setting changes.                                            *)
THEOREM OneAttempt == Spec => []NeverStacked
<1>1. BridgeInv => NeverStacked
  BY DEF BridgeInv, SlotInv
<1>2. QED
  BY <1>1, BridgesOwned, PTL

(* Every registered bridge has somebody who will stop it.                  *)
THEOREM NoLeak == Spec => []NoBridgeForgotten
<1>1. BridgeInv => NoBridgeForgotten
  BY DEF BridgeInv
<1>2. QED
  BY <1>1, BridgesOwned, PTL

(* What disposing of the attempt in one slot leaves of the other sessions: *)
(* their slots hold other attempts, whose state does not change.           *)
LEMMA OtherSlotsKept ==
  ASSUME SessionInv, NEW s \in Sessions, NEW a \in Attempts \cup {None},
         a = slot[s], NEW d \in BOOLEAN, TeardownOf(a, d)
  PROVE  \A t \in Sessions \ {s} :
           slot[t] # None =>
             /\ slot[t] \in disposed' <=> slot[t] \in disposed
             /\ rfb'[slot[t]] = rfb[slot[t]]
<1>1. /\ disposed' = disposed \cup ({a} \ {None})
      /\ \A b \in Attempts \ {a} : rfb'[b] = rfb[b]
  BY TeardownEffect DEF SessionInv, BridgeInv
<1>2. \A t \in Sessions \ {s} : slot[t] # None => slot[t] \in Attempts \ {a}
  BY DEF SessionInv, BridgeInv, SlotInv, TypeOK
<1>3. QED
  BY <1>1, <1>2

LEMMA AttachStatus ==
  ASSUME SessionInv, NEW s \in Sessions, NEW a \in Attempts, Attach(s, a)
  PROVE  StatusTellsTheSlot'
<1>1. slot[s] \in Attempts \cup {None} /\ TRUE \in BOOLEAN /\ TeardownOf(slot[s], TRUE)
  BY DEF Attach, SessionInv, BridgeInv, SlotInv, TypeOK
<1>2. disposed' = disposed \cup ({slot[s]} \ {None})
  BY <1>1, TeardownEffect DEF SessionInv, BridgeInv
<1>3. \A t \in Sessions \ {s} :
        slot[t] # None =>
          /\ slot[t] \in disposed' <=> slot[t] \in disposed
          /\ rfb'[slot[t]] = rfb[slot[t]]
  BY <1>1, OtherSlotsKept
<1>4. /\ call[a] = "none"
      /\ slot' = [slot EXCEPT ![s] = a]
      /\ status' = [status EXCEPT ![s] = "connecting"]
  BY DEF Attach, SetStatus
<1>5. slot'[s] = a /\ a # None /\ a \notin disposed' /\ status'[s] = "connecting"
  BY <1>1, <1>2, <1>4, NoneAssumption DEF SessionInv, BridgeInv, SlotInv, TypeOK
<1>6. \A t \in Sessions \ {s} : slot'[t] = slot[t] /\ status'[t] = status[t]
  BY <1>4 DEF SessionInv, BridgeInv, SlotInv, TypeOK
<1>7. QED
  BY <1>3, <1>5, <1>6 DEF SessionInv, StatusTellsTheSlot

LEMMA ReleaseStatus ==
  ASSUME SessionInv, NEW s \in Sessions, NEW d \in BOOLEAN, TeardownOf(slot[s], d),
         slot' = [slot EXCEPT ![s] = None] \/ slot' = slot,
         NEW v \in {"idle", "error"}, status' = [status EXCEPT ![s] = v]
  PROVE  StatusTellsTheSlot'
<1>1. slot[s] \in Attempts \cup {None}
  BY DEF SessionInv, BridgeInv, SlotInv, TypeOK
<1>2. disposed' = disposed \cup ({slot[s]} \ {None})
  BY <1>1, TeardownEffect DEF SessionInv, BridgeInv
<1>3. \A t \in Sessions \ {s} :
        slot[t] # None =>
          /\ slot[t] \in disposed' <=> slot[t] \in disposed
          /\ rfb'[slot[t]] = rfb[slot[t]]
  BY <1>1, OtherSlotsKept
<1>4. status'[s] = v /\ (slot'[s] = None \/ slot'[s] \in disposed')
  BY <1>1, <1>2 DEF SessionInv, BridgeInv, SlotInv, TypeOK
<1>5. \A t \in Sessions \ {s} : slot'[t] = slot[t] /\ status'[t] = status[t]
  BY DEF SessionInv, BridgeInv, SlotInv, TypeOK
<1>6. QED
  BY <1>3, <1>4, <1>5 DEF SessionInv, StatusTellsTheSlot

(* A noVNC client's event changes what is shown only for the session whose *)
(* slot its attempt owns.                                                  *)
LEMMA EventStatus ==
  ASSUME SessionInv, NEW a \in Attempts, RfbConnects(a) \/ RfbDisconnects(a)
  PROVE  StatusTellsTheSlot'
<1> DEFINE s == session[a]
<1>1. /\ slot' = slot /\ s \in Sessions
      /\ \A b \in Attempts \ {a} : rfb'[b] = rfb[b]
      /\ disposed' \in {disposed, disposed \cup {a}}
  BY DEF RfbConnects, RfbDisconnects, SessionInv, BridgeInv, SlotInv, TypeOK
<1>2. \A t \in Sessions \ {s} : slot[t] # a
  BY NoneAssumption DEF SessionInv, BridgeInv, SlotInv, TypeOK
<1>3. CASE OwnsSlot(a)
  <2>1. \A t \in Sessions \ {s} : status'[t] = status[t]
    BY <1>1, <1>3 DEF RfbConnects, RfbDisconnects, SetStatus,
       SessionInv, BridgeInv, SlotInv, TypeOK
  <2>2. \/ status'[s] = "connected" /\ rfb'[a] = "connected" /\ a \notin disposed'
        \/ status'[s] = "error" /\ a \in disposed'
    BY <1>1, <1>3 DEF RfbConnects, RfbDisconnects, SetStatus, OwnsSlot,
       SessionInv, BridgeInv, SlotInv, TypeOK
  <2>3. slot[s] = a /\ a # None
    BY <1>3, NoneAssumption DEF OwnsSlot
  <2>4. \A t \in Sessions \ {s} : slot[t] \in Attempts \cup {None}
    BY DEF SessionInv, BridgeInv, SlotInv, TypeOK
  <2>5. QED
    BY <1>1, <1>2, <2>1, <2>2, <2>3, <2>4 DEF SessionInv, StatusTellsTheSlot
<1>4. CASE ~OwnsSlot(a)
  <2>1. status' = status /\ disposed' = disposed
    BY <1>4 DEF RfbConnects, RfbDisconnects, storeVars
  <2>2. \A t \in Sessions : slot[t] = a => a \in disposed
    BY <1>2, <1>4 DEF OwnsSlot
  <2>3. \A t \in Sessions : slot[t] \in Attempts \cup {None}
    BY DEF SessionInv, BridgeInv, SlotInv, TypeOK
  <2>4. QED
    BY <1>1, <2>1, <2>2, <2>3 DEF SessionInv, StatusTellsTheSlot
<1>5. QED
  BY <1>3, <1>4

LEMMA SessionInvInductive == SessionInv /\ [Next]_vars => SessionInv'
<1> SUFFICES ASSUME SessionInv, [Next]_vars PROVE SessionInv'
  OBVIOUS
<1>1. BridgeInv'
  BY BridgeInvInductive DEF SessionInv
<1> SUFFICES StatusTellsTheSlot'
  BY <1>1 DEF SessionInv
<1> USE DEF panelVars, storeVars, attemptVars, backendVars
<1>2. ASSUME NEW s \in Sessions, User(s) PROVE StatusTellsTheSlot'
  <2>1. CASE Unmount(s)
    BY <2>1, ReleaseStatus DEF Unmount, Detach, SetStatus
  <2>2. CASE CloseSession(s)
    BY <2>2, ReleaseStatus DEF CloseSession, Detach
  <2>3. CASE UserDisconnect(s)
    BY <2>3, ReleaseStatus DEF UserDisconnect, SetStatus
  <2>4. ASSUME NEW a \in Attempts, Mount(s, a) \/ Retry(s, a) \/ ChangeSetting(s, a)
        PROVE  StatusTellsTheSlot'
    BY <2>4, AttachStatus DEF Mount, Retry, ChangeSetting
  <2>5. QED
    BY <1>2, <2>1, <2>2, <2>3, <2>4 DEF User
<1>3. ASSUME NEW a \in Attempts, StartRejected(a) PROVE StatusTellsTheSlot'
  <2>1. CASE OwnsSlot(a)
    <3>1. call[a] = "failed" /\ TeardownOf(a, FALSE) /\ FALSE \in BOOLEAN
      BY <1>3, <2>1 DEF StartRejected
    <3>2. session[a] \in Sessions
      BY <3>1 DEF SessionInv, BridgeInv, SlotInv, TypeOK
    <3>3. slot[session[a]] = a
      BY <2>1 DEF OwnsSlot
    <3>4. slot' = slot /\ status' = [status EXCEPT ![session[a]] = "error"]
      BY <1>3, <2>1 DEF StartRejected, SetStatus
    <3>5. QED
      BY <3>1, <3>2, <3>3, <3>4, ReleaseStatus
  <2>2. CASE ~OwnsSlot(a)
    BY <1>3, <2>2 DEF StartRejected, SessionInv, StatusTellsTheSlot
  <2>3. QED
    BY <2>1, <2>2
<1>4. ASSUME NEW a \in Attempts, StartResolved(a) PROVE StatusTellsTheSlot'
  <2>1. rfb[a] = "none" /\ UNCHANGED <<slot, status, disposed>>
    BY <1>4 DEF StartResolved, SessionInv, BridgeInv, SlotInv
  <2>2. \A b \in Attempts : rfb[b] = "connected" => rfb'[b] = "connected"
    BY <1>4, <2>1 DEF StartResolved, SessionInv, BridgeInv, SlotInv, TypeOK
  <2>3. \A t \in Sessions : slot[t] \in Attempts \cup {None}
    BY DEF SessionInv, BridgeInv, SlotInv, TypeOK
  <2>4. QED
    BY <2>1, <2>2, <2>3 DEF SessionInv, StatusTellsTheSlot
<1>5. ASSUME NEW a \in Attempts, Backend(a) PROVE StatusTellsTheSlot'
  BY <1>5 DEF Backend, StartBridge, StartBridgeFails, RegisterBridge, StopBridge,
     SessionInv, StatusTellsTheSlot
<1>6. CASE Shutdown
  BY <1>6 DEF Shutdown, SessionInv, StatusTellsTheSlot
<1>7. CASE UNCHANGED vars
  BY <1>7 DEF vars, SessionInv, StatusTellsTheSlot
<1>8. QED
  BY <1>2, <1>3, <1>4, <1>5, <1>6, <1>7, EventStatus DEF Next, Frontend

(* The status shown is the state of the attempt in the session's slot,     *)
(* whatever events of earlier attempts still arrive.                       *)
THEOREM StatusTruthful == Spec => []StatusTellsTheSlot
<1>1. Init => StatusTellsTheSlot
  BY DEF Init, StatusTellsTheSlot
<1>2. Init => BridgeInv
  BY BridgeInit
<1>3. SessionInv => StatusTellsTheSlot
  BY DEF SessionInv
<1>4. QED
  BY <1>1, <1>2, <1>3, SessionInvInductive, PTL DEF Spec, SessionInv

=============================================================================
