----------------------------- MODULE BridgeRelay -----------------------------
(***************************************************************************)
(* internal/vncbridge, client to target: what one noVNC client says on its *)
(* WebSocket, the handshake replay that consumes the beginning of it, and  *)
(* the SetEncodings rewriter that parses the rest on its way to the VNC    *)
(* server.                                                                 *)
(*                                                                         *)
(* The client's bytes reach the bridge cut into WebSocket frames anywhere: *)
(* a frame may end inside a message and may hold several.  A byte is its   *)
(* number in the stream; the replay takes the first four, the messages     *)
(* that follow have any length.                                            *)
(***************************************************************************)
EXTENDS Naturals, Sequences

CONSTANTS
  Kinds,       \* the kinds of message the client sends after ClientInit
  MaxMessages, \* bound: how many of them it sends
  Ends,        \* where these messages may end: their last bytes, in order
  MaxWaiting   \* bound: how many frames wait for the relay

Messages == 1 .. MaxMessages

(* The bytes 1 and 2 are the banner, 3 the selection, 4 ClientInit.        *)
ReplayEnd == 4

(* "other" has a length the rewriter knows; "extended" is a ClientCutText  *)
(* of the extended clipboard, its length field negative.                   *)
ASSUME KindsAssumption ==
  Kinds \subseteq {"setEncodings", "other", "unknown", "extended"}
ASSUME EndsAssumption ==
  \A e \in Ends : /\ e \in [Messages -> Nat]
                  /\ \A m \in Messages : e[m] > ReplayEnd
                  /\ \A l, m \in Messages : l < m => e[l] < e[m]
ASSUME BoundsAssumption == MaxMessages \in Nat /\ MaxWaiting \in Nat \ {0}

VARIABLES
  rewriting,  \* Options.Encodings is not nil
  said,       \* the kinds of the messages the client has to say, in order
  ends,       \* their last bytes
  wrong,      \* what noVNC says wrong in the replay, or "nothing"
  framed,     \* how many bytes of the stream are in frames sent
  frames,     \* the frames the relay has not taken: wsReader.messages
  left,       \* the client is gone, wsReader.errs has its read error
  serving,    \* where serveClient is
  buf,        \* wsReader.buf
  held,       \* SetEncodingsRewriter.buffer
  disabled,   \* SetEncodingsRewriter.disabled
  targetConn, \* the connection to the target: "open" or "dropped"
  target,     \* the bytes written to the target, a rewritten message as it was
  rewritten   \* the writes among them that are rewritten messages

streamVars == <<rewriting, said, ends, wrong, framed, left>>
targetVars == <<target, rewritten>>
relayVars == <<streamVars, frames, serving, buf, held, disabled, targetConn,
               targetVars>>

(* The bytes after the a-th, up to the b-th.                               *)
Bytes(a, b) == [i \in 1 .. b - a |-> a + i]
End(m) == IF m = 0 THEN ReplayEnd ELSE ends[m]
MessageBytes(m) == Bytes(End(m - 1), End(m))

RelayInit ==
  /\ rewriting \in BOOLEAN
  /\ said \in [Messages -> Kinds]
  /\ ends \in Ends
  /\ wrong \in {"nothing", "banner", "select"}
  /\ framed = 0
  /\ frames = <<>>
  /\ left = FALSE
  /\ serving = "banner"
  /\ buf = <<>>
  /\ held = <<>>
  /\ disabled = FALSE
  /\ targetConn = "open"
  /\ target = <<>>
  /\ rewritten = {}

-----------------------------------------------------------------------------
(* The client sends more of its bytes, at any time, and may stop anywhere. *)
ClientSends ==
  /\ ~left
  /\ Len(frames) < MaxWaiting
  /\ \E n \in framed + 1 .. End(MaxMessages) :
       /\ frames' = Append(frames, Bytes(framed, n))
       /\ framed' = n
  /\ UNCHANGED <<rewriting, said, ends, wrong, left, serving, buf, held, disabled,
                 targetConn, targetVars>>

StreamEnds ==
  /\ ~left
  /\ left' = TRUE
  /\ UNCHANGED <<rewriting, said, ends, wrong, framed, frames, serving, buf, held,
                 disabled, targetConn, targetVars>>

ConnectionDrops ==
  /\ targetConn = "open"
  /\ targetConn' = "dropped"
  /\ UNCHANGED <<streamVars, frames, serving, buf, held, disabled, targetVars>>

-----------------------------------------------------------------------------
(* wsReader.read: bytes are taken from the front of buf, which grows by    *)
(* whole frames while it is too short.                                     *)
Replay == {"banner", "select", "init"}
Size(s) == IF s = "banner" THEN 2 ELSE 1

Fill ==
  /\ serving \in Replay
  /\ Len(buf) < Size(serving)
  /\ frames # <<>>
  /\ buf' = buf \o Head(frames)
  /\ frames' = Tail(frames)
  /\ UNCHANGED <<streamVars, serving, held, disabled, targetConn, targetVars>>

After(s) == CASE s = "banner" -> "select"
              [] s = "select" -> "init"
              [] s = "init" -> "flush"
Before(s) == CASE s = "banner" -> 0
               [] s = "select" -> 2
               [] s = "init" -> 3

(* One step of presentServerSideHandshake; the value of ClientInit is      *)
(* ignored, a wrong banner or security type is an error.                   *)
ReplayStep ==
  /\ serving \in Replay
  /\ Len(buf) >= Size(serving)
  /\ serving' = IF \/ serving = "init"
                   \/ buf[1] = Before(serving) + 1 /\ serving # wrong
                THEN After(serving) ELSE "ended"
  /\ buf' = SubSeq(buf, Size(serving) + 1, Len(buf))
  /\ UNCHANGED <<streamVars, frames, held, disabled, targetConn, targetVars>>

(* A write to the target; on a dropped connection it fails or is lost.     *)
Write(bytes) == targetConn = "open" /\ target' = target \o bytes

(* forward: without a rewriter, or with a disabled one, the chunk passes   *)
(* as it is; otherwise Push appends it and takes messages off.             *)
Forward(chunk) ==
  IF rewriting /\ ~disabled
  THEN /\ held' = held \o chunk
       /\ serving' = "pushing"
       /\ UNCHANGED target
  ELSE /\ Write(chunk)
       /\ serving' = "pipe"
       /\ UNCHANGED held

(* Mutant: what followed ClientInit in its frame is dropped.               *)
MutFlushDrops ==
  /\ serving = "flush"
  /\ serving' = "pipe"
  /\ buf' = <<>>
  /\ UNCHANGED <<streamVars, frames, held, disabled, targetConn, targetVars>>

(* Mutant: the leftover is written past the rewriter.                      *)
MutFlushRaw ==
  /\ serving = "flush"
  /\ IF buf = <<>> THEN UNCHANGED target ELSE Write(buf)
  /\ serving' = "pipe"
  /\ buf' = <<>>
  /\ UNCHANGED <<streamVars, frames, held, disabled, targetConn, rewritten>>

(* drainBuffer: what followed ClientInit in its frame is forwarded first.  *)
Flush ==
  /\ serving = "flush"
  /\ IF buf = <<>> THEN serving' = "pipe" /\ UNCHANGED <<held, target>>
     ELSE Forward(buf)
  /\ buf' = <<>>
  /\ UNCHANGED <<streamVars, frames, disabled, targetConn, rewritten>>

(* The pipe's select takes a frame.                                        *)
TakeFrame ==
  /\ serving = "pipe"
  /\ frames # <<>>
  /\ Forward(Head(frames))
  /\ frames' = Tail(frames)
  /\ UNCHANGED <<streamVars, buf, disabled, targetConn, rewritten>>

-----------------------------------------------------------------------------
(* takeMessage.  Its cases: no whole message yet, a whole message, a type  *)
(* it does not know.  The length of an extended ClientCutText is read as   *)
(* an unsigned number near 2^32, more bytes than will ever follow.         *)
FirstHeld == CHOOSE m \in Messages : held[1] \in End(m - 1) + 1 .. End(m)
Type == said[FirstHeld]
Length == End(FirstHeld) - End(FirstHeld - 1)
Whole == /\ held # <<>>
         /\ Type \in {"setEncodings", "other"}
         /\ Len(held) >= Length
Unknown == held # <<>> /\ Type = "unknown"

TakeMessage ==
  /\ serving = "pushing"
  /\ Whole
  /\ LET message == SubSeq(held, 1, Length)
     IN /\ Write(message)
        /\ rewritten' = IF Type = "setEncodings" THEN rewritten \cup {message}
                        ELSE rewritten
  /\ held' = SubSeq(held, Length + 1, Len(held))
  /\ UNCHANGED <<streamVars, frames, serving, buf, disabled, targetConn>>

(* Mutant: the buffered bytes are not forwarded.                           *)
MutDisable ==
  /\ serving = "pushing"
  /\ Unknown
  /\ disabled' = TRUE
  /\ serving' = "pipe"
  /\ UNCHANGED <<streamVars, frames, buf, held, targetConn, targetVars>>

(* Fail-open: the rest goes out verbatim, and all that follows.            *)
Disable ==
  /\ serving = "pushing"
  /\ Unknown
  /\ disabled' = TRUE
  /\ Write(held)
  /\ held' = <<>>
  /\ UNCHANGED <<streamVars, frames, serving, buf, targetConn, rewritten>>

PushEnds ==
  /\ serving = "pushing"
  /\ ~Whole /\ ~Unknown
  /\ serving' = "pipe"
  /\ UNCHANGED <<streamVars, frames, buf, held, disabled, targetConn, targetVars>>

(* A read fails after the client left, although frames may be waiting: the *)
(* select chooses.  A dropped target ends the pipe.                        *)
ServeEnds ==
  /\ serving # "ended"
  /\ \/ left /\ serving \in Replay \cup {"pipe"}
     \/ targetConn = "dropped" /\ serving \in {"flush", "pushing", "pipe"}
  /\ serving' = "ended"
  /\ UNCHANGED <<streamVars, frames, buf, held, disabled, targetConn, targetVars>>

Relay == \/ Fill \/ ReplayStep \/ Flush \/ TakeFrame
         \/ TakeMessage \/ Disable \/ PushEnds \/ ServeEnds

RelayNext == Relay \/ ClientSends \/ StreamEnds \/ ConnectionDrops

RelaySpec == RelayInit /\ [][RelayNext]_relayVars

(* The goroutine of serveClient runs.                                      *)
FairRelaySpec == RelaySpec /\ WF_relayVars(Relay)

-----------------------------------------------------------------------------
Piped == {"flush", "pushing", "pipe"}

(* Every variable has its type.                                            *)
RelayTypeOK ==
  /\ rewriting \in BOOLEAN
  /\ said \in [Messages -> Kinds]
  /\ ends \in Ends
  /\ wrong \in {"nothing", "banner", "select"}
  /\ framed \in 0 .. End(MaxMessages)
  /\ frames \in Seq(Seq(1 .. framed) \ {<<>>})
  /\ left \in BOOLEAN
  /\ serving \in Replay \cup Piped \cup {"ended"}
  /\ buf \in Seq(1 .. framed) /\ held \in Seq(1 .. framed)
  /\ disabled \in BOOLEAN
  /\ targetConn \in {"open", "dropped"}
  /\ target \in Seq(1 .. framed)
  /\ \A w \in rewritten : w \in Seq(1 .. framed)

(* How far the stream has got in the relay (0), and how far it goes with   *)
(* each waiting frame.                                                     *)
Relayed == ReplayEnd + Len(target \o held \o buf)
Reached(i) == IF i = 0 THEN Relayed ELSE frames[i][Len(frames[i])]

(* However the stream is cut into frames, and wherever ClientInit ends in  *)
(* one, no byte is lost, repeated or overtaken between the client and the  *)
(* target: what has passed, what is held and what waits make up the stream *)
(* after the replay, as far as it was sent.                                *)
StreamIntact ==
  /\ serving \in Piped =>
       /\ target \o held \o buf = Bytes(ReplayEnd, Relayed)
       /\ \A i \in DOMAIN frames : frames[i] = Bytes(Reached(i - 1), Reached(i))
       /\ Reached(Len(frames)) = framed
  /\ serving = "ended" =>
       /\ target = Bytes(ReplayEnd, ReplayEnd + Len(target))
       /\ target # <<>> => ReplayEnd + Len(target) <= framed

(* With a preference, every SetEncodings ahead of the first unknown        *)
(* message is rewritten, whole and alone, before a byte of it passes;      *)
(* nothing else ever is.                                                   *)
ParsedBefore(m) == \A l \in Messages : l < m => said[l] # "unknown"
Passing(m) == \E i \in DOMAIN target : target[i] \in End(m - 1) + 1 .. End(m)

RewrittenWhole ==
  /\ \A w \in rewritten :
       \E m \in Messages : said[m] = "setEncodings" /\ w = MessageBytes(m)
  /\ \A m \in Messages :
       said[m] = "setEncodings" /\ Passing(m) =>
         (MessageBytes(m) \in rewritten <=> rewriting /\ ParsedBefore(m))

(* A message that was sent whole reaches the target, unless the service of *)
(* the client ends: no message waits in the rewriter for a later one.      *)
MessagesReachTarget ==
  \A m \in Messages :
    (serving = "pipe" /\ framed >= End(m))
      ~> (serving = "ended" \/ ReplayEnd + Len(target) >= End(m))

=============================================================================
