------------------------------ MODULE VncBridge ------------------------------
(***************************************************************************)
(* internal/vncbridge: one bridge, its single-client slot, the handler     *)
(* goroutine of every WebSocket client with the goroutines it starts (the  *)
(* pump that reads the WebSocket, the copy loop from the target), and      *)
(* Close.  What is relayed is left out: only who may talk to the target,   *)
(* who is blocked where, and when each socket and goroutine ends.  A write *)
(* has no deadline once the handshake is over (rfb/handshake.go clears it) *)
(* and ends when the other side reads or its connection is gone.           *)
(*                                                                         *)
(* Each client connects once.  Its socket is "open", "left" (the client is *)
(* gone and what it sent is read, the bridge's end still open) or "closed" *)
(* by the bridge.  A target that drops likewise is one that has been read. *)
(***************************************************************************)
EXTENDS Naturals, FiniteSets

CONSTANTS
  Clients,
  QueueSize,  \* capacity of wsReader.messages, 32 in the code
  None

ASSUME NoneAssumption == None \notin Clients
ASSUME QueueAssumption == QueueSize \in Nat \ {0}

VARIABLES
  active,     \* Bridge.active
  clients,    \* Bridge.clients
  isClosed,   \* Bridge.isClosed
  toClose,    \* Close's snapshot of the clients, not yet closed
  httpServer, \* the HTTP server: "serving" or "closed"
  handler,    \* where the handler goroutine of a client is
  ws,         \* the client's WebSocket
  tcp,        \* its connection to the VNC target
  pump,       \* the goroutine of newWSReader
  queued,     \* how many chunks of a client are in wsReader.messages
  errs,       \* clients whose read error is in wsReader.errs
  down        \* the goroutine that copies target to client

ownVars == <<active, clients, isClosed, toClose, httpServer>>
pumpVars == <<pump, queued, errs>>
handlerVars == <<handler, ws, tcp, pumpVars, down>>
bridgeVars == <<ownVars, handlerVars>>

BridgeInit ==
  /\ active = None
  /\ clients = {}
  /\ isClosed = FALSE
  /\ toClose = {}
  /\ httpServer = "serving"
  /\ handler = [w \in Clients |-> "none"]
  /\ ws = [w \in Clients |-> "none"]
  /\ tcp = [w \in Clients |-> "none"]
  /\ pump = [w \in Clients |-> "none"]
  /\ queued = [w \in Clients |-> 0]
  /\ errs = {}
  /\ down = [w \in Clients |-> "none"]

-----------------------------------------------------------------------------
(* Upgrade takes the connection over from the HTTP server, so that closing *)
(* the server no longer closes it; no lock is held.                        *)
Upgrade(w) ==
  /\ handler[w] = "none"
  /\ httpServer = "serving"
  /\ handler' = [handler EXCEPT ![w] = "upgraded"]
  /\ ws' = [ws EXCEPT ![w] = "open"]
  /\ UNCHANGED <<ownVars, tcp, pumpVars, down>>

(* Under Bridge.mu: the second client is turned away as busy, the first    *)
(* takes the slot.  isClosed is not looked at.                             *)
RejectBusy(w) ==
  /\ handler[w] = "upgraded"
  /\ active # None
  /\ handler' = [handler EXCEPT ![w] = "released"]
  /\ ws' = [ws EXCEPT ![w] = "closed"]
  /\ UNCHANGED <<ownVars, tcp, pumpVars, down>>

TakeSlot(w) ==
  /\ handler[w] = "upgraded"
  /\ active = None
  /\ active' = w
  /\ clients' = clients \cup {w}
  /\ handler' = [handler EXCEPT ![w] = "dialing"]
  /\ pump' = [pump EXCEPT ![w] = "reading"]
  /\ UNCHANGED <<isClosed, toClose, httpServer, ws, tcp, queued, errs, down>>

(* serveClient.  Dial and RFB handshake end within the timeout, one way or *)
(* the other, and neither looks at the client.                             *)
DialOk(w) ==
  /\ handler[w] = "dialing"
  /\ handler' = [handler EXCEPT ![w] = "handshaking"]
  /\ tcp' = [tcp EXCEPT ![w] = "open"]
  /\ UNCHANGED <<ownVars, ws, pumpVars, down>>

HandshakeOk(w) ==
  /\ handler[w] = "handshaking"
  /\ tcp[w] = "open"
  /\ handler' = [handler EXCEPT ![w] = "presenting"]
  /\ UNCHANGED <<ownVars, ws, tcp, pumpVars, down>>

(* presentServerSideHandshake needs answers of the client and has no       *)
(* timeout; answers received before the client left still count.           *)
ReplayTakes(w) ==
  /\ handler[w] = "presenting"
  /\ queued[w] > 0
  /\ queued' = [queued EXCEPT ![w] = @ - 1]
  /\ UNCHANGED <<ownVars, handler, ws, tcp, pump, errs, down>>

StartsPipe(w) ==
  /\ handler' = [handler EXCEPT ![w] = "piping"]
  /\ down' = [down EXCEPT ![w] = "running"]

(* What came along with ClientInit is written to the target before the     *)
(* copy loop starts.                                                       *)
PresentOk(w) ==
  /\ handler[w] = "presenting"
  /\ ws[w] # "closed"
  /\ \/ StartsPipe(w)
     \/ /\ handler' = [handler EXCEPT ![w] = "writing"]
        /\ UNCHANGED down
  /\ UNCHANGED <<ownVars, ws, tcp, pumpVars>>

(* Every failure before the pipe closes with a structured reason; a client *)
(* that answers wrongly fails the handshake replay as one that left does.  *)
ServeFails(w) ==
  /\ handler[w] \in {"dialing", "handshaking", "presenting"}
  /\ handler' = [handler EXCEPT ![w] = "closing"]
  /\ UNCHANGED <<ownVars, ws, tcp, pumpVars, down>>

(* The select of the pipe.  A chunk is written to the target, unless the   *)
(* rewriter keeps it back; while the write lasts nothing else is seen.     *)
TakeChunk(w) ==
  /\ handler[w] = "piping"
  /\ queued[w] > 0
  /\ queued' = [queued EXCEPT ![w] = @ - 1]
  /\ \E next \in {"piping", "writing"} : handler' = [handler EXCEPT ![w] = next]
  /\ UNCHANGED <<ownVars, ws, tcp, pump, errs, down>>

WriteOk(w) ==
  /\ handler[w] = "writing"
  /\ tcp[w] = "open"
  /\ IF down[w] = "none"
       THEN StartsPipe(w)
       ELSE handler' = [handler EXCEPT ![w] = "piping"] /\ UNCHANGED down
  /\ UNCHANGED <<ownVars, ws, tcp, pumpVars>>

WriteFails(w) ==
  /\ handler[w] = "writing"
  /\ tcp[w] = "closed"
  /\ handler' = [handler EXCEPT ![w] = "closing"]
  /\ UNCHANGED <<ownVars, ws, tcp, pumpVars, down>>

(* The copy loop has ended, or the pump reports an error.                  *)
PipeEnds(w) ==
  /\ handler[w] = "piping"
  /\ down[w] = "done" \/ w \in errs
  /\ handler' = [handler EXCEPT ![w] = "closing"]
  /\ UNCHANGED <<ownVars, ws, tcp, pumpVars, down>>

(* Mutant: the connection to the target is not closed.                     *)
MutTeardownKeepsTcp(w) ==
  /\ handler[w] = "closing"
  /\ handler' = [handler EXCEPT ![w] = "releasing"]
  /\ ws' = [ws EXCEPT ![w] = "closed"]
  /\ UNCHANGED <<ownVars, tcp, pumpVars, down>>

(* Mutant: the WebSocket is not closed.                                    *)
MutTeardownKeepsWs(w) ==
  /\ handler[w] = "closing"
  /\ handler' = [handler EXCEPT ![w] = "releasing"]
  /\ tcp' = [tcp EXCEPT ![w] = IF @ = "none" THEN "none" ELSE "closed"]
  /\ UNCHANGED <<ownVars, ws, pumpVars, down>>

(* The deferred calls of serveClient: tcp.Close, ws.Close, reader.stop.    *)
Teardown(w) ==
  /\ handler[w] = "closing"
  /\ handler' = [handler EXCEPT ![w] = "releasing"]
  /\ tcp' = [tcp EXCEPT ![w] = IF @ = "none" THEN "none" ELSE "closed"]
  /\ ws' = [ws EXCEPT ![w] = "closed"]
  /\ UNCHANGED <<ownVars, pumpVars, down>>

(* The deferred function of handleWebSocket, under Bridge.mu.              *)
Release(w) ==
  /\ handler[w] = "releasing"
  /\ handler' = [handler EXCEPT ![w] = "released"]
  /\ clients' = clients \ {w}
  /\ active' = IF active = w THEN None ELSE active
  /\ UNCHANGED <<isClosed, toClose, httpServer, ws, tcp, pumpVars, down>>

(* The pump reads a message of the client and waits for room to hand it    *)
(* on, or until reader.stop.                                               *)
PumpReads(w) ==
  /\ pump[w] = "reading"
  /\ ws[w] = "open"
  /\ pump' = [pump EXCEPT ![w] = "sending"]
  /\ UNCHANGED <<ownVars, handler, ws, tcp, queued, errs, down>>

PumpSends(w) ==
  /\ pump[w] = "sending"
  /\ queued[w] < QueueSize
  /\ queued' = [queued EXCEPT ![w] = @ + 1]
  /\ pump' = [pump EXCEPT ![w] = "reading"]
  /\ UNCHANGED <<ownVars, handler, ws, tcp, errs, down>>

PumpStops(w) ==
  /\ pump[w] = "sending"
  /\ handler[w] \in {"releasing", "released"}
  /\ pump' = [pump EXCEPT ![w] = "ended"]
  /\ UNCHANGED <<ownVars, handler, ws, tcp, queued, errs, down>>

(* Mutant: the pump ends without reporting its error.                      *)
MutPumpFails(w) ==
  /\ pump[w] = "reading"
  /\ ws[w] # "open"
  /\ pump' = [pump EXCEPT ![w] = "ended"]
  /\ UNCHANGED <<ownVars, handler, ws, tcp, queued, errs, down>>

(* The pump's read fails: the error goes to errs, which has room for it.   *)
PumpFails(w) ==
  /\ pump[w] = "reading"
  /\ ws[w] # "open"
  /\ pump' = [pump EXCEPT ![w] = "ended"]
  /\ errs' = errs \cup {w}
  /\ UNCHANGED <<ownVars, handler, ws, tcp, queued, down>>

(* The copy loop waits for the target or for the client, and only sees the *)
(* end of the one it waits for.                                            *)
DownStep(w, from, to) ==
  /\ down[w] = from
  /\ down' = [down EXCEPT ![w] = to]
  /\ UNCHANGED <<ownVars, handler, ws, tcp, pumpVars>>

DownReads(w) == tcp[w] = "open" /\ DownStep(w, "running", "sending")
DownSends(w) == ws[w] # "closed" /\ DownStep(w, "sending", "running")
DownEnds(w) == \/ tcp[w] = "closed" /\ DownStep(w, "running", "done")
               \/ ws[w] # "open" /\ DownStep(w, "sending", "done")

-----------------------------------------------------------------------------
ClientLeaves(w) ==
  /\ ws[w] = "open"
  /\ ws' = [ws EXCEPT ![w] = "left"]
  /\ UNCHANGED <<ownVars, handler, tcp, pumpVars, down>>

TargetDrops(w) ==
  /\ tcp[w] = "open"
  /\ tcp' = [tcp EXCEPT ![w] = "closed"]
  /\ UNCHANGED <<ownVars, handler, ws, pumpVars, down>>

(* Close: under Bridge.mu it marks the bridge and copies the clients; then *)
(* it closes each, and the server last.  A second call returns at once.    *)
CloseBegins ==
  /\ ~isClosed
  /\ isClosed' = TRUE
  /\ toClose' = clients
  /\ UNCHANGED <<active, clients, httpServer, handlerVars>>

CloseClient(w) ==
  /\ w \in toClose
  /\ toClose' = toClose \ {w}
  /\ ws' = [ws EXCEPT ![w] = "closed"]
  /\ UNCHANGED <<active, clients, isClosed, httpServer, handler, tcp, pumpVars, down>>

CloseServer ==
  /\ isClosed
  /\ toClose = {}
  /\ httpServer = "serving"
  /\ httpServer' = "closed"
  /\ UNCHANGED <<active, clients, isClosed, toClose, handlerVars>>

Close == CloseBegins \/ CloseServer \/ \E w \in Clients : CloseClient(w)

HandleWebSocket(w) == Upgrade(w) \/ RejectBusy(w) \/ TakeSlot(w) \/ Release(w)

ServeClient(w) == \/ DialOk(w) \/ HandshakeOk(w) \/ ServeFails(w)
                  \/ ReplayTakes(w) \/ PresentOk(w)
                  \/ TakeChunk(w) \/ WriteOk(w) \/ WriteFails(w) \/ PipeEnds(w)
                  \/ Teardown(w)

Pump(w) == PumpReads(w) \/ PumpSends(w) \/ PumpStops(w) \/ PumpFails(w)

CopyLoop(w) == DownReads(w) \/ DownSends(w) \/ DownEnds(w)

BridgeNext == \/ Close
              \/ \E w \in Clients : \/ HandleWebSocket(w) \/ ServeClient(w)
                                    \/ Pump(w) \/ CopyLoop(w)
                                    \/ ClientLeaves(w) \/ TargetDrops(w)

(* The goroutines run, dial and RFB handshake time out, and a read that    *)
(* fails ends the handshake replay.  A client that stays connected and     *)
(* silent in the replay is waited for without end, and so is whoever does  *)
(* not read what is written to it: WriteOk and DownSends are not fair.     *)
Fairness ==
  /\ WF_bridgeVars(\E w \in Clients : CloseClient(w))
  /\ WF_bridgeVars(CloseServer)
  /\ \A w \in Clients :
       /\ WF_bridgeVars(RejectBusy(w) \/ TakeSlot(w))
       /\ WF_bridgeVars(handler[w] \in {"dialing", "handshaking"} /\ ServeClient(w))
       /\ WF_bridgeVars(w \in errs /\ ServeFails(w))
       /\ WF_bridgeVars(ReplayTakes(w)) /\ WF_bridgeVars(TakeChunk(w))
       /\ WF_bridgeVars(WriteFails(w)) /\ WF_bridgeVars(PipeEnds(w))
       /\ WF_bridgeVars(Teardown(w)) /\ WF_bridgeVars(Release(w))
       /\ WF_bridgeVars(PumpSends(w) \/ PumpStops(w) \/ PumpFails(w))
       /\ WF_bridgeVars(DownEnds(w))

BridgeSpec == BridgeInit /\ [][BridgeNext]_bridgeVars

FairBridgeSpec == BridgeSpec /\ Fairness

-----------------------------------------------------------------------------
Serving == {"dialing", "handshaking", "presenting", "piping", "writing",
            "closing", "releasing"}

(* Every variable has its type.                                            *)
BridgeTypeOK ==
  /\ active \in Clients \cup {None}
  /\ clients \subseteq Clients
  /\ isClosed \in BOOLEAN
  /\ toClose \subseteq Clients
  /\ httpServer \in {"serving", "closed"}
  /\ handler \in [Clients -> {"none", "upgraded", "released"} \cup Serving]
  /\ ws \in [Clients -> {"none", "open", "left", "closed"}]
  /\ tcp \in [Clients -> {"none", "open", "closed"}]
  /\ pump \in [Clients -> {"none", "reading", "sending", "ended"}]
  /\ queued \in [Clients -> 0 .. QueueSize]
  /\ errs \subseteq Clients
  /\ down \in [Clients -> {"none", "running", "sending", "done"}]

(* A bridge serves one VNC session: no two connections to the target are   *)
(* open at once, also while one client tears down and the next comes in.   *)
OneTargetConnection ==
  \A v, w \in Clients : tcp[v] = "open" /\ tcp[w] = "open" => v = w

(* The slot is taken exactly while its client is served, so that no client *)
(* is rejected as busy for one whose handler has already returned.         *)
SlotIsServed ==
  /\ \A w \in Clients : handler[w] \in Serving <=> active = w
  /\ clients = IF active = None THEN {} ELSE {active}

(* A write is under way to a side that is connected and does not read.     *)
WriteBlocked(w) == \/ handler[w] = "writing" /\ tcp[w] = "open"
                   \/ down[w] = "sending" /\ ws[w] = "open"

(* A client that left, whose target dropped in the pipe phase or that      *)
(* Close closed gives the slot back, with the queue full and the pump      *)
(* blocked on it as well - unless the write under way is to the other side *)
(* and that one never reads again.                                         *)
SlotIsFreed ==
  \A w \in Clients :
    (/\ active = w
     /\ \/ ws[w] # "open"
        \/ handler[w] \in {"piping", "writing"} /\ tcp[w] = "closed")
      ~> (active # w \/ []WriteBlocked(w))

(* No goroutine outlives its handler for good: pump and copy loop end,     *)
(* also those blocked in a read, in a write or on the full queue.          *)
GoroutinesEnd ==
  \A w \in Clients :
    handler[w] = "released"
      ~> (pump[w] \in {"none", "ended"} /\ down[w] \in {"none", "done"})

=============================================================================
