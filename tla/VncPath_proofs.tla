--------------------------- MODULE VncPath_proofs ---------------------------
(***************************************************************************)
(* Proofs about the way from a VNC client to its target: the RFB handshake *)
(* (RfbHandshake), for any set of servers that keep to the protocol, the   *)
(* client slot of a bridge (VncBridge), for any set of clients, and the    *)
(* bytes that it relays (BridgeRelay), for messages of any number and any  *)
(* lengths.                                                                *)
(***************************************************************************)
EXTENDS RfbHandshake, VncBridge, BridgeRelay, SequenceTheorems, TLAPS

-----------------------------------------------------------------------------
(* The handshake.                                                          *)

(* The server waits at a place, or has stalled there.                      *)
WaitsAt(place) == at \in {place, "stalled"}

Sent(messages) == toClient = messages /\ toServer = <<>>
Received(message) == toClient = <<>> /\ toServer = <<message>>

Banner == [is |-> "banner", minor |-> server.minor]
Place(t) == IF t \in {"vncAuth", "appleDH"} THEN "response" ELSE "clientInit"
Selection(t) == [is |-> "selection", type |-> t]
Result(ok) == [is |-> "result", ok |-> ok]

(* What may be under way at each read of the client, and where the server  *)
(* is then.                                                                *)
AtBanner ==
  /\ version = 0 /\ ~accepted
  /\ \/ WaitsAt("banner") /\ Sent(<<>>)
     \/ WaitsAt("version") /\ Sent(<<Banner>>)

AtTypes ==
  \/ /\ WaitsAt("version") /\ ~accepted
     /\ Received([is |-> "version", minor |-> version])
  \/ /\ server.offers = {} /\ at = "refused" /\ ~accepted
     /\ Sent(Offer \o Reason)
  \/ /\ server.offers # {} /\ version # 3 /\ WaitsAt("selection") /\ ~accepted
     /\ Sent(Offer)
  \/ /\ version = 3
     /\ \E t \in server.offers :
          WaitsAt(Place(t)) /\ (accepted <=> t = "none") /\ Sent(Offer \o Opening(t))

AtRefusal == server.offers = {} /\ at = "refused" /\ Sent(Reason)

(* The selection is not received yet, or what opens the exchange is sent.  *)
AtOpening ==
  /\ \/ version # 3 /\ WaitsAt("selection") /\ Received(Selection(secType)) /\ ~accepted
     \/ WaitsAt(Place(secType)) /\ Sent(Opening(secType)) /\ (accepted <=> secType = "none")

AtResponse ==
  \/ WaitsAt("response") /\ Received([is |-> "response"]) /\ ~accepted
  \/ WaitsAt("clientInit") /\ Sent(<<Result(TRUE)>>) /\ accepted
  \/ at = "refused" /\ Sent(<<Result(FALSE)>> \o IF version < 8 THEN <<>> ELSE Reason)
     /\ ~accepted

AtReason == at = "refused" /\ version = 8 /\ Sent(Reason) /\ ~accepted

AtServerInit ==
  /\ accepted
  /\ \/ WaitsAt("clientInit") /\ Received([is |-> "clientInit"])
     \/ at = "running" /\ Sent(<<[is |-> "serverInit"]>>)

Flow ==
  /\ stage \in Reads \cup {"ended"}
  /\ stage = "banner" => AtBanner
  /\ stage = "types" => AtTypes
  /\ stage = "refusal" => AtRefusal
  /\ stage = "challenge" => secType = "vncAuth" /\ AtOpening
  /\ stage = "parameters" => secType = "appleDH" /\ version # 3 /\ AtOpening
  /\ stage = "result" => IF secType = "none" THEN version # 3 /\ AtOpening ELSE AtResponse
  /\ stage = "reason" => AtReason
  /\ stage = "serverInit" => AtServerInit

Settled ==
  /\ server \in Servers
  /\ stage \notin {"banner", "ended"} =>
       version = Negotiated(server.minor) /\ server.minor >= 3
  /\ stage \in {"challenge", "parameters", "result", "reason", "serverInit"} =>
       secType \in server.offers
  /\ stage # "ended" => outcome = "pending" /\ conn # "closed"

Outcome ==
  /\ outcome \in {"ok", "auth"} => stage = "ended"
  /\ outcome = "auth" => toServer = <<>> 

(* The invariant: who waits for what, and what an outcome promises.        *)
HandshakeInv == Flow /\ Settled /\ Outcome /\ SuccessIsMutual /\ AuthErrorIsDeserved

-----------------------------------------------------------------------------
(* What the stream operators do to the few messages that are under way.    *)
LEMMA TwoMessages ==
  ASSUME NEW x, NEW y PROVE <<x>> \o <<y>> = <<x, y>>
<1> DEFINE s == <<x>>  t == <<x, y>>  S == {x, y}
<1>1. s \in Seq(S) /\ y \in S /\ t \in Seq(S)
  OBVIOUS
<1>2. Len(s) = 1 /\ s[1] = x
  OBVIOUS
<1>3. Len(t) = 2 /\ t[1] = x /\ t[2] = y
  OBVIOUS
<1> HIDE DEF s, t, S
<1>4. Append(s, y) = s \o <<y>>
  BY <1>1, AppendIsConcat
<1>5. /\ Append(s, y) \in Seq(S) /\ Len(Append(s, y)) = 2
      /\ Append(s, y)[1] = x /\ Append(s, y)[2] = y
  <2>1. /\ Append(s, y) \in Seq(S)
        /\ Len(Append(s, y)) = Len(s)+1
        /\ \A i \in 1.. Len(s) : Append(s, y)[i] = s[i]
        /\ Append(s, y)[Len(s)+1] = y
    BY <1>1, AppendProperties
  <2>2. 1 \in 1 .. Len(s) /\ Len(s) + 1 = 2
    BY <1>2
  <2> QED
    BY <1>2, <2>1, <2>2
<1>6. Append(s, y) = t
  BY <1>1, <1>3, <1>5, SeqEqual
<1> QED
  BY <1>4, <1>6 DEF s, t

LEMMA Streams ==
  ASSUME NEW x, NEW y
  PROVE  /\ Head(<<x>>) = x /\ Tail(<<x>>) = <<>> /\ <<x>> # <<>>
         /\ Head(<<x, y>>) = x /\ Tail(<<x, y>>) = <<y>> /\ <<x, y>> # <<>>
         /\ Append(<<>>, x) = <<x>> /\ <<>> \o <<x>> = <<x>>
         /\ <<x>> \o <<>> = <<x>> /\ <<x>> \o <<y>> = <<x, y>>
         /\ <<>> \o <<x, y>> = <<x, y>>
<1>1. Head(<<x>>) = x /\ Tail(<<x>>) = <<>> /\ <<x>> # <<>>
  OBVIOUS
<1>2. Head(<<x, y>>) = x /\ <<x, y>> # <<>>
  OBVIOUS
<1>3. Tail(<<x, y>>) = <<y>>
  OBVIOUS
<1>4. Append(<<>>, x) = <<x>> /\ <<>> \o <<x>> = <<x>> /\ <<x>> \o <<>> = <<x>>
  OBVIOUS
<1>5. <<x>> \o <<y>> = <<x, y>>
  BY TwoMessages
<1>6. <<>> \o <<x, y>> = <<x, y>>
  <2>1. <<x, y>> \in Seq({x, y})
    OBVIOUS
  <2> QED
    BY <2>1, ConcatEmptySeq
<1> QED
  BY <1>1, <1>2, <1>3, <1>4, <1>5, <1>6

(* Two empty streams make an empty one.                                    *)
LEMMA NothingToSend == <<>> \o <<>> = <<>>
  BY EmptySeq, ConcatEmptySeq

(* What the constant says of the server met.                               *)
LEMMA ServerOf ==
  ASSUME server \in Servers
  PROVE  /\ server.minor \in Nat /\ server.offers \subseteq Types
         /\ server.minor < 7 => \A t, u \in server.offers : t = u
  BY ServersAssumption

(* Three versions are spoken, each with the servers of its own.            *)
LEMMA VersionOf ==
  ASSUME server \in Servers, server.minor >= 3
  PROVE  /\ Negotiated(server.minor) \in {3, 7, 8}
         /\ Negotiated(server.minor) = 3 <=> server.minor < 7
         /\ Negotiated(server.minor) = 7 <=> server.minor = 7
  BY ServerOf DEF Negotiated

(* The server opens the exchange of a type with one message at most.      *)
LEMMA OpeningOf ==
  /\ Opening("vncAuth") = <<[is |-> "challenge"]>>
  /\ Opening("appleDH") = <<[is |-> "parameters", valid |-> server.valid]>>
  /\ Opening("none") = IF version = 8 THEN <<Result(TRUE)>> ELSE <<>>
  BY DEF Opening, Result

(* The client selects a type it was offered and can do.  It asks for       *)
(* credentials only if it has none.                                        *)
LEMMA SelectedOf ==
  ASSUME server.offers # {}, NEW t, t = Selected(server.offers)
  PROVE  \/ t = "unsupported"
         \/ t = "needsPassword" /\ password = "" /\ version # 3
         \/ /\ t \in server.offers
            /\ t \in {"none", "vncAuth"} \/ (t = "appleDH" /\ version # 3)
<1>1. CASE version = 3
  BY <1>1 DEF Selected
<1>2. CASE version # 3
  BY <1>2 DEF Selected
<1> QED
  BY <1>1, <1>2

-----------------------------------------------------------------------------
(* Nothing is under way at first, and both wait for the banner.            *)
LEMMA HandshakeInvInit == Init => HandshakeInv
  BY DEF Init, HandshakeInv, Flow, Settled, Outcome, SuccessIsMutual,
         AuthErrorIsDeserved, AtBanner, WaitsAt, Sent, Reads

(* A handshake that ends in an error other than "auth" promises nothing.   *)
LEMMA ErrorKeeps ==
  ASSUME HandshakeInv, UNCHANGED server, stage' = "ended", outcome' \notin {"ok", "auth"}
  PROVE  HandshakeInv'
  BY DEF HandshakeInv, Flow, Settled, Outcome, SuccessIsMutual, AuthErrorIsDeserved,
         Reads

(* One that ends in "auth" has to find the server in the refusal, or the   *)
(* credentials missing or too long.                                        *)
LEMMA AuthErrorKeeps ==
  ASSUME HandshakeInv, stage' = "ended", outcome' = "auth", toServer = <<>>,
         ~accepted, server.offers # {}, password = "given" => at = "refused",
         UNCHANGED <<password, serverVars, toServer>>
  PROVE  HandshakeInv'
  BY DEF HandshakeInv, Flow, Settled, Outcome, SuccessIsMutual, AuthErrorIsDeserved,
         Reads, serverVars

(* A read that goes on: the state of the next read is left to show.        *)
LEMMA ReadKeeps ==
  ASSUME HandshakeInv, UNCHANGED <<password, serverVars, outcome, conn>>,
         outcome = "pending", conn # "closed",
         Flow', stage' \notin {"banner", "ended"},
         version' = Negotiated(server.minor), server.minor >= 3,
         stage' \in {"challenge", "parameters", "result", "reason", "serverInit"}
           => secType' \in server.offers
  PROVE  HandshakeInv'
  BY DEF HandshakeInv, Settled, Outcome, SuccessIsMutual, AuthErrorIsDeserved,
         serverVars

(* The banner is all that was under way; a version too old ends it.        *)
LEMMA ReadBannerKeeps == HandshakeInv /\ ReadBanner => HandshakeInv'
<1> SUFFICES ASSUME HandshakeInv, ReadBanner PROVE HandshakeInv'
  OBVIOUS
<1>1. /\ stage = "banner" /\ toClient = <<Banner>> /\ toServer = <<>>
      /\ WaitsAt("version") /\ ~accepted /\ outcome = "pending" /\ conn # "closed"
      /\ server \in Servers
  BY Streams DEF ReadBanner, Read, HandshakeInv, Flow, AtBanner, Sent, Settled
<1>2. /\ toClient' = <<>> /\ Message.minor = server.minor
      /\ UNCHANGED <<password, secType, serverVars>>
  BY <1>1, Streams DEF ReadBanner, Read, Message, Banner
<1>3. CASE server.minor >= 3
  <2>1. /\ version' = Negotiated(server.minor) /\ stage' = "types"
        /\ toServer' = <<[is |-> "version", minor |-> version']>>
        /\ UNCHANGED <<outcome, conn>>
    BY <1>1, <1>2, <1>3, Streams DEF ReadBanner, Writes
  <2>2. AtTypes'
    BY <1>1, <1>2, <2>1 DEF AtTypes, Received, WaitsAt, serverVars
  <2>3. Flow'
    BY <2>1, <2>2 DEF Flow, Reads
  <2> QED
    BY <1>1, <1>2, <1>3, <2>1, <2>3, ReadKeeps
<1>4. CASE ~(server.minor >= 3)
  <2>1. stage' = "ended" /\ outcome' = "protocol"
    BY <1>2, <1>4 DEF ReadBanner, Fails
  <2> QED
    BY <1>2, <2>1, ErrorKeeps DEF serverVars
<1> QED
  BY <1>3, <1>4

(* A refusal, a type of no use, or a type that both settle on: from here   *)
(* the client knows what the server sends next.                            *)
LEMMA ReadTypesKeeps == HandshakeInv /\ ReadTypes => HandshakeInv'
<1> SUFFICES ASSUME HandshakeInv, ReadTypes PROVE HandshakeInv'
  OBVIOUS
<1>0. PICK t : t = Selected(server.offers)
  OBVIOUS
<1>1. /\ stage = "types" /\ AtTypes /\ toClient # <<>> /\ toClient' = Tail(toClient)
      /\ outcome = "pending" /\ conn # "closed" /\ server \in Servers
      /\ version = Negotiated(server.minor) /\ server.minor >= 3
      /\ UNCHANGED <<password, version, serverVars>>
  BY DEF ReadTypes, Read, HandshakeInv, Flow, Settled
<1>2. /\ Message.offers = server.offers /\ toServer = <<>>
      /\ \/ server.offers = {} /\ at = "refused" /\ toClient' = Reason /\ ~accepted
         \/ /\ server.offers # {} /\ version # 3 /\ WaitsAt("selection")
            /\ toClient' = <<>> /\ ~accepted
         \/ /\ server.offers # {} /\ version = 3
            /\ \E u \in server.offers :
                 /\ WaitsAt(Place(u)) /\ (accepted <=> u = "none")
                 /\ u \in {"none", "vncAuth"} => toClient' = Opening(u)
  <2>1. CASE /\ WaitsAt("version") /\ ~accepted
             /\ Received([is |-> "version", minor |-> version])
    BY <1>1, <2>1 DEF Received
  <2>2. CASE server.offers = {} /\ at = "refused" /\ ~accepted /\ Sent(Offer \o Reason)
    <3> DEFINE o == [is |-> "types", offers |-> server.offers]
               r == [is |-> "reason"]
    <3>1. toClient = <<o, r>>
      BY <2>2, Streams DEF Sent, Offer, Reason
    <3>2. Message = o /\ toClient' = <<r>>
      BY <1>1, <3>1, Streams DEF Message
    <3>3. Message.offers = server.offers
      BY <3>2
    <3> QED
      BY <2>2, <3>2, <3>3 DEF Sent, Reason
  <2>3. CASE /\ server.offers # {} /\ version # 3 /\ WaitsAt("selection") /\ ~accepted
             /\ Sent(Offer)
    BY <1>1, <2>3, Streams DEF Message, Sent, Offer
  <2>4. CASE /\ version = 3
             /\ \E u \in server.offers :
                  WaitsAt(Place(u)) /\ (accepted <=> u = "none") /\ Sent(Offer \o Opening(u))
    <3>1. PICK u \in server.offers :
            WaitsAt(Place(u)) /\ (accepted <=> u = "none") /\ Sent(Offer \o Opening(u))
      BY <2>4
    <3> DEFINE o == [is |-> "types", offers |-> server.offers]
    <3>2. \E rest : Opening(u) = <<>> \/ Opening(u) = <<rest>>
      BY <2>4 DEF Opening
    <3>3. PICK rest : Opening(u) = <<>> \/ Opening(u) = <<rest>>
      BY <3>2
    <3>4. /\ toClient = <<o>> \/ toClient = <<o, rest>>
          /\ toClient' = Opening(u)
      <4>1. toClient = <<o>> \o Opening(u)
        BY <3>1 DEF Sent, Offer
      <4> HIDE DEF o
      <4>2. CASE Opening(u) = <<>>
        BY <1>1, <4>1, <4>2, Streams
      <4>3. CASE Opening(u) = <<rest>>
        <5>1. toClient = <<o, rest>>
          BY <4>1, <4>3, TwoMessages
        <5> QED
          BY <1>1, <4>3, <5>1, Streams
      <4> QED
        BY <3>3, <4>2, <4>3
    <3>5. Message = o /\ o.offers = server.offers
      BY <3>4, Streams DEF Message
    <3>6. server.offers # {} /\ toServer = <<>> /\ Message.offers = server.offers
      BY <3>1, <3>5 DEF Sent
    <3> QED
      BY <2>4, <3>1, <3>4, <3>6
  <2> QED
    BY <1>1, <2>1, <2>2, <2>3, <2>4 DEF AtTypes
<1>3. CASE server.offers = {}
  <2>1. stage' = "refusal" /\ UNCHANGED <<outcome, conn, toServer, secType>>
    BY <1>2, <1>3 DEF ReadTypes, GoesOn
  <2>2. Flow'
    BY <1>1, <1>2, <1>3, <2>1 DEF Flow, Reads, AtRefusal, Sent, Reason, serverVars
  <2> QED
    BY <1>1, <2>1, <2>2, ReadKeeps
<1>4. CASE server.offers # {} /\ t = "unsupported"
  <2>1. stage' = "ended" /\ outcome' = "protocol"
    BY <1>0, <1>2, <1>4 DEF ReadTypes, Fails
  <2> QED
    BY <1>1, <2>1, ErrorKeeps DEF serverVars
<1>5. CASE server.offers # {} /\ t = "needsPassword"
  <2>1. stage' = "ended" /\ outcome' = "auth" /\ toServer' = toServer
    BY <1>0, <1>2, <1>5 DEF ReadTypes, Fails
  <2>2. password = "" /\ version # 3
    BY <1>0, <1>5, SelectedOf
  <2> QED
    BY <1>1, <1>2, <1>5, <2>1, <2>2, AuthErrorKeeps
<1>6. CASE server.offers # {} /\ t \notin {"unsupported", "needsPassword"}
  <2>1. /\ t \in server.offers
        /\ t \in {"none", "vncAuth"} \/ (t = "appleDH" /\ version # 3)
    BY <1>0, <1>6, SelectedOf
  <2>2. /\ secType' = t
        /\ IF version # 3 THEN Writes(Selection(t), FirstRead(t))
           ELSE IF t = "none" THEN Writes([is |-> "clientInit"], "serverInit")
                ELSE GoesOn(FirstRead(t))
    BY <1>0, <1>2, <1>6 DEF ReadTypes, Selection
  <2>3. UNCHANGED <<outcome, conn>>
    BY <2>2 DEF Writes, GoesOn
  <2>4. Flow' /\ stage' \in {"challenge", "parameters", "result", "serverInit"}
    <3>1. CASE version # 3
      <4>1. /\ WaitsAt("selection") /\ toClient' = <<>> /\ ~accepted
            /\ toServer' = <<Selection(t)>> /\ stage' = FirstRead(t)
        BY <1>2, <1>6, <2>2, <3>1, Streams DEF Writes
      <4>2. AtOpening'
        BY <1>1, <2>2, <3>1, <4>1
           DEF AtOpening, WaitsAt, Received, Selection, serverVars
      <4> QED
        BY <1>1, <2>1, <2>2, <3>1, <4>1, <4>2 DEF Flow, Reads, FirstRead
    <3>2. CASE version = 3
      <4>1. PICK u \in server.offers :
              /\ WaitsAt(Place(u)) /\ (accepted <=> u = "none")
              /\ u \in {"none", "vncAuth"} => toClient' = Opening(u)
        BY <1>2, <1>6, <3>2
      <4>2. u = t /\ t \in {"none", "vncAuth"}
        BY <1>1, <2>1, <3>2, ServerOf, VersionOf
      <4>3. CASE t = "none"
        <5>1. /\ toClient' = <<>> /\ toServer' = <<[is |-> "clientInit"]>>
              /\ stage' = "serverInit" /\ accepted /\ WaitsAt("clientInit")
          BY <1>2, <2>2, <3>2, <4>1, <4>2, <4>3, OpeningOf, Streams
             DEF Writes, Place
        <5> QED
          BY <1>1, <5>1 DEF Flow, Reads, AtServerInit, WaitsAt, Received, serverVars
      <4>4. CASE t = "vncAuth"
        <5>1. /\ toClient' = Opening(t) /\ toServer' = <<>> /\ stage' = "challenge"
              /\ WaitsAt(Place(t)) /\ ~accepted /\ secType' = "vncAuth"
          BY <1>2, <2>2, <3>2, <4>1, <4>2, <4>4 DEF GoesOn, FirstRead
        <5>2. Opening(t)' = Opening(t)
          BY <4>4, OpeningOf DEF Opening
        <5>3. AtOpening'
          BY <1>1, <4>4, <5>1, <5>2 DEF AtOpening, WaitsAt, Sent, Place, serverVars
        <5> QED
          BY <5>1, <5>3 DEF Flow, Reads
      <4> QED
        BY <4>2, <4>3, <4>4
    <3> QED
      BY <3>1, <3>2
  <2> QED
    BY <1>1, <2>1, <2>2, <2>3, <2>4, ReadKeeps
<1> QED
  BY <1>3, <1>4, <1>5, <1>6

(* A refusal is no authentication error.                                   *)
LEMMA ReadRefusalKeeps == HandshakeInv /\ ReadRefusal => HandshakeInv'
  BY ErrorKeeps DEF ReadRefusal, Fails, serverVars

(* What the two exchanges have in common.                                  *)
LEMMA ResponseKeeps ==
  ASSUME HandshakeInv, stage \in {"challenge", "parameters"},
         stage = "challenge" => ReadChallenge,
         stage = "parameters" => ReadParameters,
         Writes([is |-> "response"], "result")
  PROVE  HandshakeInv'
<1>1. /\ AtOpening /\ secType \in {"vncAuth", "appleDH"} /\ secType \in server.offers
      /\ outcome = "pending" /\ conn # "closed"
      /\ version = Negotiated(server.minor) /\ server.minor >= 3
  BY DEF HandshakeInv, Flow, Settled
<1>2. /\ toClient # <<>> /\ toClient' = Tail(toClient)
      /\ UNCHANGED <<password, version, secType, serverVars, outcome, conn>>
      /\ stage' = "result" /\ toServer' = Append(toServer, [is |-> "response"])
  BY DEF ReadChallenge, ReadParameters, Read, Writes
<1>3. /\ WaitsAt("response") /\ ~accepted
      /\ toClient = Opening(secType) /\ toServer = <<>>
  BY <1>1, <1>2 DEF AtOpening, Received, Sent, Place
<1>4. toClient' = <<>> /\ toServer' = <<[is |-> "response"]>>
  <2>1. \E m : toClient = <<m>>
    BY <1>1, <1>3, OpeningOf
  <2> QED
    BY <1>2, <1>3, <2>1, Streams
<1>5. Flow'
  BY <1>1, <1>2, <1>3, <1>4
     DEF Flow, Reads, AtResponse, WaitsAt, Received, serverVars
<1> QED
  BY <1>1, <1>2, <1>5, ReadKeeps DEF serverVars

(* The challenge is answered.                                              *)
LEMMA ReadChallengeKeeps == HandshakeInv /\ ReadChallenge => HandshakeInv'
  BY ResponseKeeps DEF ReadChallenge, Read

(* So are the parameters, unless they are bad or the password is too       *)
(* long: then the server still waits for the response.                     *)
LEMMA ReadParametersKeeps == HandshakeInv /\ ReadParameters => HandshakeInv'
<1> SUFFICES ASSUME HandshakeInv, ReadParameters PROVE HandshakeInv'
  OBVIOUS
<1>1. /\ stage = "parameters" /\ AtOpening /\ secType = "appleDH"
      /\ secType \in server.offers /\ toClient # <<>>
      /\ UNCHANGED <<password, serverVars>>
  BY DEF ReadParameters, Read, HandshakeInv, Flow, Settled
<1>2. ~accepted /\ toServer = <<>>
  BY <1>1 DEF AtOpening, Received, Sent
<1>3. CASE Fails("protocol")
  BY <1>1, <1>3, ErrorKeeps DEF Fails, serverVars
<1>4. CASE Fails("auth") /\ password = "tooLong"
  BY <1>1, <1>2, <1>4, AuthErrorKeeps DEF Fails
<1>5. CASE Writes([is |-> "response"], "result")
  BY <1>1, <1>5, ResponseKeeps
<1> QED
  BY <1>3, <1>4, <1>5 DEF ReadParameters

(* The result tells who is accepted; only 3.8 has a reason to read.        *)
LEMMA ReadResultKeeps == HandshakeInv /\ ReadResult => HandshakeInv'
<1> SUFFICES ASSUME HandshakeInv, ReadResult PROVE HandshakeInv'
  OBVIOUS
<1>1. /\ stage = "result" /\ toClient # <<>> /\ toClient' = Tail(toClient)
      /\ IF secType = "none" THEN version # 3 /\ AtOpening ELSE AtResponse
      /\ outcome = "pending" /\ conn # "closed" /\ secType \in server.offers
      /\ version = Negotiated(server.minor) /\ server.minor >= 3 /\ server \in Servers
      /\ UNCHANGED <<password, version, secType, serverVars>>
  BY DEF ReadResult, Read, HandshakeInv, Flow, Settled
<1>2. \/ /\ WaitsAt("clientInit") /\ Sent(<<Result(TRUE)>>) /\ accepted
      \/ /\ at = "refused" /\ ~accepted
         /\ Sent(<<Result(FALSE)>> \o IF version < 8 THEN <<>> ELSE Reason)
  <2>1. CASE secType = "none"
    <3>1. WaitsAt("clientInit") /\ Sent(Opening("none")) /\ accepted
      BY <1>1, <2>1 DEF AtOpening, Received, Place
    <3>2. Opening("none") = <<Result(TRUE)>>
      BY <1>1, <3>1, OpeningOf DEF Sent
    <3> QED
      BY <3>1, <3>2
  <2>2. CASE secType # "none"
    BY <1>1, <2>2 DEF AtResponse, Received
  <2> QED
    BY <2>1, <2>2
<1>3. CASE WaitsAt("clientInit") /\ Sent(<<Result(TRUE)>>) /\ accepted
  <2>1. Message.ok /\ toClient' = <<>>
    BY <1>1, <1>3, Streams DEF Message, Sent, Result
  <2>2. /\ stage' = "serverInit" /\ toServer' = <<[is |-> "clientInit"]>>
        /\ UNCHANGED <<outcome, conn>>
    BY <1>3, <2>1, Streams DEF ReadResult, Writes, Sent
  <2>3. Flow'
    BY <1>1, <1>3, <2>1, <2>2
       DEF Flow, Reads, AtServerInit, WaitsAt, Received, serverVars
  <2> QED
    BY <1>1, <2>2, <2>3, ReadKeeps
<1>4. CASE /\ at = "refused" /\ ~accepted
           /\ Sent(<<Result(FALSE)>> \o IF version < 8 THEN <<>> ELSE Reason)
  <2>1. /\ ~Message.ok /\ toServer = <<>>
        /\ version >= 8 => toClient' = Reason
    <3> DEFINE r == Result(FALSE)
    <3>0. r.ok = FALSE
      BY DEF Result
    <3>1. toClient = <<r>> \o (IF version < 8 THEN <<>> ELSE Reason) /\ toServer = <<>>
      BY <1>4 DEF Sent
    <3> HIDE DEF r
    <3>2. CASE version < 8
      <4>1. toClient = <<r>>
        BY <3>1, <3>2, Streams
      <4>2. ~(version >= 8)
        BY <1>1, <3>2, VersionOf
      <4> QED
        BY <3>0, <3>1, <4>1, <4>2, Streams DEF Message
    <3>3. CASE ~(version < 8)
      <4>1. toClient = <<r, [is |-> "reason"]>>
        BY <3>1, <3>3, TwoMessages DEF Reason
      <4>2. Message = r /\ toClient' = <<[is |-> "reason"]>>
        BY <1>1, <4>1, Streams DEF Message
      <4> QED
        BY <3>0, <3>1, <4>2 DEF Reason
    <3> QED
      BY <3>2, <3>3
  <2>2. CASE version >= 8
    <3>1. stage' = "reason" /\ UNCHANGED <<outcome, conn, toServer>>
      BY <2>1, <2>2 DEF ReadResult, GoesOn
    <3>2. version = 8
      BY <1>1, <2>2, VersionOf
    <3>3. Flow'
      BY <1>1, <1>4, <2>1, <2>2, <3>1, <3>2
         DEF Flow, Reads, AtReason, Sent, Reason, serverVars
    <3> QED
      BY <1>1, <3>1, <3>3, ReadKeeps
  <2>3. CASE ~(version >= 8)
    <3>1. stage' = "ended" /\ outcome' = "auth" /\ toServer' = toServer
      BY <2>1, <2>3 DEF ReadResult, Fails
    <3> QED
      BY <1>1, <1>4, <2>1, <3>1, AuthErrorKeeps
  <2> QED
    BY <2>2, <2>3
<1> QED
  BY <1>2, <1>3, <1>4

(* The server gives a reason after it has refused.                         *)
LEMMA ReadReasonKeeps == HandshakeInv /\ ReadReason => HandshakeInv'
<1> SUFFICES ASSUME HandshakeInv, ReadReason PROVE HandshakeInv'
  OBVIOUS
<1>1. at = "refused" /\ toServer = <<>> /\ ~accepted /\ server.offers # {}
  BY DEF ReadReason, Read, HandshakeInv, Flow, Settled, AtReason, Sent
<1> QED
  BY <1>1, AuthErrorKeeps DEF ReadReason, Fails

(* ServerInit is the last message, and the server runs once it is sent.    *)
LEMMA ReadServerInitKeeps == HandshakeInv /\ ReadServerInit => HandshakeInv'
<1> SUFFICES ASSUME HandshakeInv, ReadServerInit PROVE HandshakeInv'
  OBVIOUS
<1>1. /\ accepted /\ at = "running" /\ toServer = <<>> /\ toClient' = <<>>
      /\ secType \in server.offers /\ conn # "closed" /\ server \in Servers
  BY Streams
     DEF ReadServerInit, Read, HandshakeInv, Flow, Settled, AtServerInit, Sent,
         Received
<1>2. /\ stage' = "ended" /\ outcome' = "ok" /\ deadline' = FALSE
      /\ UNCHANGED <<password, secType, serverVars, conn, toServer>>
  BY DEF ReadServerInit
<1> QED
  BY <1>1, <1>2
     DEF HandshakeInv, Flow, Settled, Outcome, SuccessIsMutual, AuthErrorIsDeserved,
         Reads, serverVars

(* Every step of the client, the timeout and a lost connection included.   *)
LEMMA ClientKeeps == HandshakeInv /\ Client => HandshakeInv'
<1>1. HandshakeInv /\ (TimeOut \/ ConnectionFails) => HandshakeInv'
  BY ErrorKeeps DEF TimeOut, ConnectionFails, Fails, serverVars
<1> QED
  BY <1>1, ReadBannerKeeps, ReadTypesKeeps, ReadRefusalKeeps, ReadChallengeKeeps,
     ReadParametersKeeps, ReadResultKeeps, ReadReasonKeeps, ReadServerInitKeeps DEF Client

-----------------------------------------------------------------------------
(* The server.  After the end of the handshake it may still act on what    *)
(* was under way, but not where an outcome promises something about it.    *)
LEMMA ServerKeeps ==
  ASSUME HandshakeInv, UNCHANGED <<clientVars, server, conn>>,
         stage = "ended" => UNCHANGED <<at, accepted, toClient, toServer>>
                            \/ (at # "refused" /\ toServer # <<>>)
                            \/ (at = "banner" /\ UNCHANGED <<accepted, toServer>>)
                            \/ (at \notin {"running", "refused"}
                                /\ UNCHANGED <<accepted, toClient, toServer>>),
         stage # "ended" => Flow'
  PROVE  HandshakeInv'
<1>1. Flow'
  BY DEF HandshakeInv, Flow, clientVars, Reads
<1>2. Settled'
  BY DEF HandshakeInv, Settled, clientVars
<1>3. Outcome' /\ SuccessIsMutual' /\ AuthErrorIsDeserved'
  BY DEF HandshakeInv, Outcome, SuccessIsMutual, AuthErrorIsDeserved, clientVars
<1> QED
  BY <1>1, <1>2, <1>3 DEF HandshakeInv

(* Each step of the server answers the one message under way.              *)
LEMMA SendBannerKeeps == HandshakeInv /\ SendBanner => HandshakeInv'
<1> SUFFICES ASSUME HandshakeInv, SendBanner PROVE HandshakeInv'
  OBVIOUS
<1>1. /\ at = "banner" /\ at' = "version" /\ toClient' = toClient \o <<Banner>>
      /\ UNCHANGED <<clientVars, server, accepted, conn, toServer>>
  BY DEF SendBanner, Sends, Banner
<1>2. ASSUME stage # "ended" PROVE Flow'
  <2>1. stage = "banner" /\ Sent(<<>>) /\ AtBanner
    BY <1>1, <1>2
       DEF HandshakeInv, Flow, Reads, AtBanner, AtTypes, AtRefusal, AtOpening,
           AtResponse, AtReason, AtServerInit, WaitsAt, Place
  <2>2. Sent(<<Banner>>)'
    BY <1>1, <2>1, Streams DEF Sent, Banner
  <2> QED
    BY <1>1, <2>1, <2>2 DEF Flow, Reads, AtBanner, WaitsAt, clientVars
<1> QED
  BY <1>1, <1>2, ServerKeeps

(* In 3.3 the server dictates a type, and opens its exchange at once.      *)
LEMMA ReceiveVersionKeeps == HandshakeInv /\ ReceiveVersion => HandshakeInv'
<1> SUFFICES ASSUME HandshakeInv, ReceiveVersion PROVE HandshakeInv'
  OBVIOUS
<1>1. /\ at = "version" /\ toServer # <<>> /\ toServer' = Tail(toServer)
      /\ UNCHANGED <<clientVars, server, conn>> /\ server \in Servers
  BY DEF ReceiveVersion, Receives, HandshakeInv, Settled
<1>2. ASSUME stage # "ended" PROVE Flow'
  <2>1. /\ stage = "types" /\ ~accepted
        /\ Received([is |-> "version", minor |-> version])
    BY <1>1, <1>2
       DEF HandshakeInv, Flow, Reads, AtBanner, AtTypes, AtRefusal, AtOpening,
           AtResponse, AtReason, AtServerInit, WaitsAt, Place, Sent
  <2>2. toServer' = <<>> /\ toClient = <<>>
    BY <1>1, <2>1, Streams DEF Received
  <2>3. UNCHANGED <<Offer, Reason>>
    BY <1>1 DEF Offer, Reason
  <2>4. CASE server.offers = {}
    <3>1. at' = "refused" /\ toClient' = <<>> \o (Offer \o Reason) /\ accepted' = accepted
      BY <2>2, <2>4 DEF ReceiveVersion, Sends
    <3>2. toClient' = Offer \o Reason
      BY <3>1, Streams, TwoMessages DEF Offer, Reason
    <3> QED
      BY <1>1, <2>1, <2>2, <2>3, <2>4, <3>1, <3>2
         DEF Flow, Reads, AtTypes, Sent, clientVars
  <2>5. CASE server.offers # {} /\ version # 3
    <3>1. at' = "selection" /\ toClient' = <<>> \o Offer /\ accepted' = accepted
      BY <2>2, <2>5 DEF ReceiveVersion, Sends
    <3>2. toClient' = Offer
      BY <3>1, Streams DEF Offer
    <3> QED
      BY <1>1, <2>1, <2>2, <2>3, <2>5, <3>1, <3>2
         DEF Flow, Reads, AtTypes, Sent, WaitsAt, clientVars
  <2>6. CASE server.offers # {} /\ version = 3
    <3>1. PICK t \in server.offers :
            /\ at' = Place(t) /\ (accepted' <=> t = "none")
            /\ toClient' = <<>> \o (Offer \o Opening(t))
      BY <2>2, <2>6 DEF ReceiveVersion, Runs, Sends, Place
    <3> DEFINE o == [is |-> "types", offers |-> server.offers]
    <3>2. toClient' = Offer \o Opening(t)
      <4>1. \E rest : Opening(t) = <<>> \/ Opening(t) = <<rest>>
        BY DEF Opening
      <4>2. PICK rest : Opening(t) = <<>> \/ Opening(t) = <<rest>>
        BY <4>1
      <4>3. Offer = <<o>>
        BY DEF Offer
      <4> HIDE DEF o
      <4>4. Offer \o Opening(t) = <<o>> \/ Offer \o Opening(t) = <<o, rest>>
        BY <4>2, <4>3, Streams, TwoMessages
      <4> QED
        BY <3>1, <4>4, Streams
    <3>3. Opening(t)' = Opening(t)
      BY <1>1 DEF Opening, clientVars
    <3>4. (WaitsAt(Place(t)) /\ (accepted <=> t = "none") /\ Sent(Offer \o Opening(t)))'
      BY <2>2, <2>3, <3>1, <3>2, <3>3 DEF WaitsAt, Sent, Place
    <3> QED
      BY <1>1, <2>1, <2>6, <3>4 DEF Flow, Reads, AtTypes, clientVars
  <2> QED
    BY <2>4, <2>5, <2>6
<1> QED
  BY <1>1, <1>2, ServerKeeps

(* Later it opens the exchange of the type selected.                       *)
LEMMA ReceiveSelectionKeeps == HandshakeInv /\ ReceiveSelection => HandshakeInv'
<1> SUFFICES ASSUME HandshakeInv, ReceiveSelection PROVE HandshakeInv'
  OBVIOUS
<1>1. /\ at = "selection" /\ toServer # <<>> /\ toServer' = Tail(toServer)
      /\ UNCHANGED <<clientVars, server, conn>> /\ server \in Servers
  BY DEF ReceiveSelection, Receives, HandshakeInv, Settled
<1>2. ASSUME stage # "ended" PROVE Flow'
  <2>1. /\ stage \in {"challenge", "parameters", "result"} /\ AtOpening
        /\ stage = "challenge" => secType = "vncAuth"
        /\ stage = "parameters" => secType = "appleDH" /\ version # 3
        /\ stage = "result" => secType = "none" /\ version # 3
        /\ Received(Selection(secType))
    BY <1>1, <1>2
       DEF HandshakeInv, Flow, Reads, AtBanner, AtTypes, AtRefusal, AtOpening,
           AtResponse, AtReason, AtServerInit, WaitsAt, Place, Sent, Received
  <2>2. toServer' = <<>> /\ toClient = <<>> /\ Request.type = secType
    BY <1>1, <2>1, Streams DEF Received, Request, Selection
  <2>3. /\ at' = Place(secType) /\ (accepted' <=> secType = "none")
        /\ toClient' = <<>> \o (<<>> \o Opening(secType))
    BY <2>2 DEF ReceiveSelection, Runs, Sends, Place
  <2>4. toClient' = Opening(secType)
    <3>1. \E m : Opening(secType) = <<>> \/ Opening(secType) = <<m>>
      BY DEF Opening
    <3> QED
      BY <2>3, <3>1, Streams, NothingToSend
  <2>5. Opening(secType)' = Opening(secType)
    BY <1>1 DEF Opening, clientVars
  <2>6. AtOpening'
    BY <1>1, <2>2, <2>3, <2>4, <2>5 DEF AtOpening, WaitsAt, Sent, Place, clientVars
  <2> QED
    BY <1>1, <2>1, <2>6 DEF Flow, Reads, clientVars
<1> QED
  BY <1>1, <1>2, ServerKeeps

(* It judges the response.                                                 *)
LEMMA ReceiveResponseKeeps == HandshakeInv /\ ReceiveResponse => HandshakeInv'
<1> SUFFICES ASSUME HandshakeInv, ReceiveResponse PROVE HandshakeInv'
  OBVIOUS
<1>1. /\ at = "response" /\ toServer # <<>> /\ toServer' = Tail(toServer)
      /\ UNCHANGED <<clientVars, server, conn>> /\ server \in Servers
  BY DEF ReceiveResponse, Receives, HandshakeInv, Settled
<1>2. ASSUME stage # "ended" PROVE Flow'
  <2>1. /\ stage = "result" /\ secType # "none"
        /\ Received([is |-> "response"])
    BY <1>1, <1>2
       DEF HandshakeInv, Flow, Reads, AtBanner, AtTypes, AtRefusal, AtOpening,
           AtResponse, AtReason, AtServerInit, WaitsAt, Place, Sent, Received
  <2>2. toServer' = <<>> /\ toClient = <<>>
    BY <1>1, <2>1, Streams DEF Received
  <2>3. PICK ok \in BOOLEAN :
          /\ at' = IF ok THEN "clientInit" ELSE "refused"
          /\ accepted' = ok
          /\ toClient' = <<>> \o (<<Result(ok)>> \o IF ok \/ version < 8 THEN <<>> ELSE Reason)
    BY <2>2 DEF ReceiveResponse, Sends, Result
  <2>4. Reason' = Reason /\ version' = version /\ secType' = secType /\ stage' = stage
    BY <1>1 DEF Reason, clientVars
  <2>5. AtResponse'
    <3>1. CASE ok
      <4>1. toClient' = <<Result(TRUE)>>
        BY <2>3, <3>1, Streams
      <4> QED
        BY <2>2, <2>3, <3>1, <4>1 DEF AtResponse, WaitsAt, Sent, Result
    <3>2. CASE ~ok
      <4> DEFINE r == Result(FALSE)
                 s == IF version < 8 THEN <<>> ELSE Reason
      <4>1. toClient' = <<>> \o (<<r>> \o s) /\ (s = <<>> \/ s = <<[is |-> "reason"]>>)
        BY <2>3, <3>2 DEF Reason
      <4>2. toClient' = <<r>> \o s
        <5> HIDE DEF r, s
        <5> QED
          BY <4>1, Streams, TwoMessages
      <4> QED
        BY <2>2, <2>3, <2>4, <3>2, <4>2 DEF AtResponse, WaitsAt, Sent, Result
    <3> QED
      BY <3>1, <3>2
  <2> QED
    BY <2>1, <2>4, <2>5 DEF Flow, Reads
<1> QED
  BY <1>1, <1>2, ServerKeeps

(* It runs the session.                                                    *)
LEMMA ReceiveClientInitKeeps == HandshakeInv /\ ReceiveClientInit => HandshakeInv'
<1> SUFFICES ASSUME HandshakeInv, ReceiveClientInit PROVE HandshakeInv'
  OBVIOUS
<1>1. /\ at = "clientInit" /\ toServer # <<>> /\ toServer' = Tail(toServer)
      /\ at' = "running" /\ toClient' = toClient \o <<[is |-> "serverInit"]>>
      /\ UNCHANGED <<clientVars, server, accepted, conn>>
  BY DEF ReceiveClientInit, Receives, Sends
<1>2. ASSUME stage # "ended" PROVE Flow'
  <2>1. /\ stage = "serverInit" /\ accepted
        /\ Received([is |-> "clientInit"])
    BY <1>1, <1>2
       DEF HandshakeInv, Flow, Reads, AtBanner, AtTypes, AtRefusal, AtOpening,
           AtResponse, AtReason, AtServerInit, WaitsAt, Place, Sent, Received
  <2>2. toServer' = <<>> /\ toClient' = <<[is |-> "serverInit"]>>
    BY <1>1, <2>1, Streams DEF Received
  <2> QED
    BY <1>1, <2>1, <2>2 DEF Flow, Reads, AtServerInit, Sent, clientVars
<1> QED
  BY <1>1, <1>2, ServerKeeps

(* A server that stalls leaves what is under way as it is.                 *)
LEMMA ServerStallsKeeps == HandshakeInv /\ ServerStalls => HandshakeInv'
<1> SUFFICES ASSUME HandshakeInv, ServerStalls PROVE HandshakeInv'
  OBVIOUS
<1>1. /\ at \notin {"running", "refused", "stalled"} /\ at' = "stalled"
      /\ UNCHANGED <<clientVars, server, accepted, conn, toClient, toServer>>
  BY DEF ServerStalls
<1>2. ASSUME stage # "ended" PROVE Flow'
  BY <1>1
     DEF HandshakeInv, Flow, AtBanner, AtTypes, AtRefusal, AtOpening, AtResponse,
         AtReason, AtServerInit, WaitsAt, Sent, Received, Banner, Offer, Reason,
         Opening, Place, Selection, Result, clientVars
<1> QED
  BY <1>1, <1>2, ServerKeeps

(* So does one that closes the connection.                                 *)
LEMMA ServerDropsKeeps == HandshakeInv /\ ServerDrops => HandshakeInv'
<1> SUFFICES ASSUME HandshakeInv, ServerDrops PROVE HandshakeInv'
  OBVIOUS
<1>1. conn' = "dropped" /\ UNCHANGED <<clientVars, serverVars, toClient, toServer>>
  BY DEF ServerDrops
<1>2. Flow'
  BY <1>1
     DEF HandshakeInv, Flow, AtBanner, AtTypes, AtRefusal, AtOpening, AtResponse,
         AtReason, AtServerInit, WaitsAt, Sent, Received, Banner, Offer, Reason,
         Opening, Place, Selection, Result, clientVars, serverVars
<1> QED
  BY <1>1, <1>2
     DEF HandshakeInv, Settled, Outcome, SuccessIsMutual, AuthErrorIsDeserved,
         clientVars, serverVars

(* The invariant is inductive.                                             *)
LEMMA HandshakeInvKept == HandshakeInv /\ [Next]_vars => HandshakeInv'
<1>1. ASSUME HandshakeInv, UNCHANGED vars PROVE HandshakeInv'
  <2>1. Flow'
    BY <1>1
       DEF HandshakeInv, Flow, AtBanner, AtTypes, AtRefusal, AtOpening, AtResponse,
           AtReason, AtServerInit, WaitsAt, Sent, Received, Banner, Offer, Reason,
           Opening, Place, Selection, Result, vars, clientVars, serverVars
  <2> QED
    BY <1>1, <2>1
       DEF HandshakeInv, Settled, Outcome, SuccessIsMutual, AuthErrorIsDeserved,
           vars, clientVars, serverVars
<1> QED
  BY <1>1, ClientKeeps, SendBannerKeeps, ReceiveVersionKeeps, ReceiveSelectionKeeps,
     ReceiveResponseKeeps, ReceiveClientInitKeeps, ServerStallsKeeps, ServerDropsKeeps
     DEF Next, Server

(* It holds of every reachable state.                                      *)
LEMMA HandshakeInvAlways == Spec => []HandshakeInv
  BY HandshakeInvInit, HandshakeInvKept, PTL DEF Spec

-----------------------------------------------------------------------------
(* Client and server are never out of step, whatever version they speak:   *)
(* what is next on the connection is what the client reads next.           *)
THEOREM HandshakeInStep == Spec => []InStep
<1>1. HandshakeInv => InStep
  <2> SUFFICES ASSUME HandshakeInv, stage # "ended", toClient # <<>>
               PROVE  Message.is = IF stage = "refusal" THEN "reason" ELSE stage
    BY DEF InStep
  <2> QED
    BY Streams, TwoMessages, OpeningOf
       DEF HandshakeInv, Flow, Reads, Message, AtBanner, AtTypes, AtRefusal,
           AtOpening, AtResponse, AtReason, AtServerInit, Sent, Received, Banner,
           Offer, Reason, Result
<1> QED
  BY <1>1, HandshakeInvAlways, PTL

(* Success: the server has accepted, runs its session, and nothing of the  *)
(* handshake is left on the connection handed over.                        *)
THEOREM HandshakeSuccessIsMutual == Spec => []SuccessIsMutual
<1>1. HandshakeInv => SuccessIsMutual
  BY DEF HandshakeInv
<1> QED
  BY <1>1, HandshakeInvAlways, PTL

(* An authentication error is about the credentials.                       *)
THEOREM HandshakeAuthError == Spec => []AuthErrorIsDeserved
<1>1. HandshakeInv => AuthErrorIsDeserved
  BY DEF HandshakeInv
<1> QED
  BY <1>1, HandshakeInvAlways, PTL

(* The one case in which both wait: the client for the result that 3.7     *)
(* does not send after None, the server for ClientInit.                    *)
StuckOnNone == version = 7 /\ secType = "none" /\ "none" \in server.offers

(* Whatever servers there are, client and server wait for one another in   *)
(* that case only.                                                         *)
THEOREM HandshakeStuckOnNoneOnly == Spec => [](NoMutualWait \/ StuckOnNone)
<1>1. ASSUME NEW x, NEW m, m = <<>> \/ \E y : m = <<y>>
      PROVE  <<x>> \o m # <<>>
  <2>1. CASE m = <<>>
    BY <2>1, Streams
  <2>2. CASE m # <<>>
    <3>1. PICK y : m = <<y>>
      BY <1>1, <2>2
    <3> QED
      BY <3>1, Streams
  <2> QED
    BY <2>1, <2>2
<1>2. HandshakeInv => NoMutualWait \/ StuckOnNone
  <2> SUFFICES ASSUME HandshakeInv, stage # "ended", at \notin {"banner", "stalled"},
                      toClient = <<>>, toServer = <<>>,
                      ~StuckOnNone
               PROVE  FALSE
    BY DEF NoMutualWait
  <2>1. /\ stage \in Reads
        /\ ~\E m : Received(m)
        /\ ~\E x, m : (m = <<>> \/ \E y : m = <<y>>) /\ Sent(<<x>> \o m)
        /\ ~\E x : Sent(<<x>>)
    BY <1>1, Streams DEF HandshakeInv, Flow, Sent, Received
  <2>2. \A t : Opening(t) = <<>> \/ \E y : Opening(t) = <<y>>
    BY DEF Opening
  <2>3. stage \notin {"banner", "refusal", "reason", "serverInit"}
    BY <2>1
       DEF HandshakeInv, Flow, AtBanner, AtRefusal, AtReason, AtServerInit, WaitsAt,
           Reason
  <2>4. stage # "types"
    BY <2>1, <2>2 DEF HandshakeInv, Flow, AtTypes, Offer, Reason
  <2>5. secType = "none" => stage = "result" /\ version = 7
    <3>1. secType = "none" => stage = "result"
      BY <2>1, <2>3, <2>4 DEF HandshakeInv, Flow, Reads
    <3>2. ASSUME secType = "none", stage = "result" PROVE version = 7
      <4>1. Sent(Opening("none")) /\ version # 3
        BY <2>1, <3>2 DEF HandshakeInv, Flow, AtOpening
      <4>2. version # 8
        BY <2>1, <4>1, OpeningOf
      <4> QED
        BY <3>2, <4>1, <4>2, VersionOf DEF HandshakeInv, Settled
    <3> QED
      BY <3>1, <3>2
  <2>6. secType # "none"
    BY <2>5 DEF HandshakeInv, Settled, StuckOnNone
  <2>7. stage = "result" /\ AtResponse
    <3>1. stage \notin {"challenge", "parameters"}
      BY <2>1, OpeningOf DEF HandshakeInv, Flow, AtOpening
    <3> QED
      BY <2>1, <2>3, <2>4, <2>6, <3>1 DEF HandshakeInv, Flow, Reads
  <2> QED
    BY <2>1, <2>7 DEF AtResponse, Reason
<1> QED
  BY <1>2, HandshakeInvAlways, PTL

(* A 3.7 server does not offer None.                                       *)
NoneIsAnswered == \A s \in Servers : s.minor = 7 => "none" \notin s.offers

(* With such servers no handshake ever hangs.                              *)
THEOREM HandshakeNeverStuck ==
  ASSUME NoneIsAnswered PROVE Spec => []NoMutualWait
<1>1. HandshakeInv /\ StuckOnNone /\ stage \notin {"banner", "ended"} => FALSE
  BY VersionOf DEF HandshakeInv, Settled, StuckOnNone, NoneIsAnswered
<1>2. HandshakeInv /\ (NoMutualWait \/ StuckOnNone) => NoMutualWait
  BY <1>1 DEF HandshakeInv, Flow, AtBanner, StuckOnNone, NoMutualWait
<1> QED
  BY <1>2, HandshakeInvAlways, HandshakeStuckOnNoneOnly, PTL

-----------------------------------------------------------------------------
(* What is read next is of the kind that the client reads.                 *)
LEMMA MessageOf ==
  ASSUME TypeOK, InStep, stage # "ended", toClient # <<>>
  PROVE  /\ Message \in FromServer /\ Tail(toClient) \in Seq(FromServer)
         /\ stage = "banner" => Message.minor \in Nat
         /\ stage = "types" => Message.offers \subseteq Types
<1>1. toClient \in Seq(FromServer)
  BY DEF TypeOK
<1>2. Message \in FromServer /\ Tail(toClient) \in Seq(FromServer)
  BY <1>1 DEF Message
<1>3. Message.is = IF stage = "refusal" THEN "reason" ELSE stage
  BY DEF InStep
<1>4. stage = "banner" => Message.minor \in Nat
  BY <1>2, <1>3 DEF FromServer
<1>5. stage = "types" => Message.offers \in SUBSET Types
  BY <1>2, <1>3 DEF FromServer
<1> QED
  BY <1>2, <1>4, <1>5

(* The message that the client writes, and the read it goes on to.         *)
LEMMA WritesTyped ==
  ASSUME TypeOK, stage # "ended", NEW m \in FromClient, NEW next \in Reads,
         Writes(m, next)
  PROVE  /\ stage' \in Reads /\ outcome' = "pending" /\ UNCHANGED <<deadline, conn>>
         /\ toServer' \in Seq(FromClient)
<1>1. toServer \in Seq(FromClient) /\ outcome = "pending"
  BY DEF TypeOK
<1>2. Append(toServer, m) \in Seq(FromClient)
  BY <1>1, AppendProperties
<1> QED
  BY <1>1, <1>2 DEF Writes

(* What is left to show of every step of the client.                       *)
ClientTyped ==
  /\ version' \in {0, 3, 7, 8} /\ secType' \in Types
  /\ stage' \in Reads \cup {"ended"}
  /\ outcome' \in {"pending", "ok", "protocol", "auth", "timeout", "connection"}
  /\ (outcome' = "pending") <=> (stage' # "ended")
  /\ deadline' \in BOOLEAN /\ conn' \in {"open", "closed", "dropped"}
  /\ toServer' \in Seq(FromClient)

(* An error.                                                               *)
LEMMA FailsTyped ==
  ASSUME TypeOK, UNCHANGED <<version, secType>>,
         NEW kind \in {"protocol", "auth", "connection"}, Fails(kind)
  PROVE  ClientTyped
  BY DEF TypeOK, Fails, ClientTyped, Reads

(* A step to the next read, with a message or without.                     *)
LEMMA GoesOnTyped ==
  ASSUME TypeOK, UNCHANGED version, secType' \in Types, stage # "ended",
         \/ \E next \in Reads : GoesOn(next)
         \/ \E m \in FromClient, next \in Reads : Writes(m, next)
  PROVE  ClientTyped
<1>1. "ended" \notin Reads
  BY DEF Reads
<1>2. CASE \E next \in Reads : GoesOn(next)
  BY <1>1, <1>2 DEF TypeOK, GoesOn, ClientTyped
<1>3. CASE \E m \in FromClient, next \in Reads : Writes(m, next)
  <2>1. PICK m \in FromClient, next \in Reads : Writes(m, next)
    BY <1>3
  <2>2. /\ stage' \in Reads /\ outcome' = "pending" /\ UNCHANGED <<deadline, conn>>
        /\ toServer' \in Seq(FromClient)
    BY <2>1, WritesTyped
  <2> QED
    BY <1>1, <2>2 DEF TypeOK, ClientTyped
<1> QED
  BY <1>2, <1>3

(* The type selected can be spoken, or none is.                            *)
LEMMA SelectedTyped ==
  ASSUME NEW offers \in SUBSET Types, offers # {}
  PROVE  Selected(offers) \in {"none", "vncAuth", "appleDH", "unsupported", "needsPassword"}
<1>1. CASE version = 3
  BY <1>1 DEF Selected, Types
<1>2. CASE version # 3
  BY <1>2 DEF Selected
<1> QED
  BY <1>1, <1>2

(* A type is settled on, and spoken, or the handshake ends.                *)
LEMMA ReadTypesTyped ==
  ASSUME TypeOK, InStep, ReadTypes PROVE ClientTyped
<1>1. /\ stage = "types" /\ toClient # <<>> /\ UNCHANGED version /\ secType \in Types
  BY DEF ReadTypes, Read, TypeOK
<1>2. Message.offers \subseteq Types
  BY <1>1, MessageOf
<1>3. CASE Message.offers = {}
  <2>1. GoesOn("refusal") /\ secType' = secType /\ "refusal" \in Reads
    BY <1>3 DEF ReadTypes, Reads
  <2> QED
    BY <1>1, <2>1, GoesOnTyped
<1>4. CASE Message.offers # {}
  <2>1. PICK t : t = Selected(Message.offers)
    OBVIOUS
  <2>2. t \in {"none", "vncAuth", "appleDH", "unsupported", "needsPassword"}
    BY <1>2, <1>4, <2>1, SelectedTyped
  <2>3. CASE t \in {"unsupported", "needsPassword"}
    <3>1. UNCHANGED secType /\ (Fails("protocol") \/ Fails("auth"))
      BY <1>4, <2>1, <2>3 DEF ReadTypes
    <3> QED
      BY <1>1, <3>1, FailsTyped
  <2>4. CASE t \in {"none", "vncAuth", "appleDH"}
    <3>1. /\ secType' = t
          /\ \/ Writes([is |-> "selection", type |-> t], FirstRead(t))
             \/ Writes([is |-> "clientInit"], "serverInit")
             \/ GoesOn(FirstRead(t))
      BY <1>4, <2>1, <2>4 DEF ReadTypes
    <3>2. t \in Types /\ FirstRead(t) \in Reads /\ "serverInit" \in Reads
      BY <2>4 DEF Types, FirstRead, Reads
    <3>3. [is |-> "selection", type |-> t] \in FromClient
      BY <3>2 DEF FromClient
    <3>4. [is |-> "clientInit"] \in FromClient
      BY DEF FromClient
    <3> QED
      BY <1>1, <3>1, <3>2, <3>3, <3>4, GoesOnTyped
  <2> QED
    BY <2>2, <2>3, <2>4
<1> QED
  BY <1>3, <1>4

(* The client writes what the server understands.                          *)
LEMMA ClientKeepsTypes ==
  ASSUME TypeOK, InStep, Client PROVE TypeOK'
<1>1. /\ stage # "ended" /\ UNCHANGED <<password, serverVars>>
      /\ toClient' = toClient \/ (toClient # <<>> /\ toClient' = Tail(toClient))
  BY DEF Client, ReadBanner, ReadTypes, ReadRefusal, ReadChallenge, ReadParameters,
         ReadResult, ReadReason, ReadServerInit, TimeOut, ConnectionFails, Read
<1>2. toClient' \in Seq(FromServer)
  BY <1>1, MessageOf DEF TypeOK
<1>3. version \in {0, 3, 7, 8} /\ secType \in Types /\ conn \in {"open", "closed", "dropped"}
  BY DEF TypeOK
<1>4. ClientTyped
  <2>1. CASE ReadBanner
    <3>1. stage = "banner" /\ Message.minor \in Nat /\ secType' = secType
      BY <1>1, <2>1, MessageOf DEF ReadBanner, Read
    <3>2. CASE Message.minor >= 3
      <4>1. /\ version' = Negotiated(Message.minor)
            /\ Writes([is |-> "version", minor |-> version'], "types")
        BY <2>1, <3>2 DEF ReadBanner
      <4>2. version' \in {3, 7, 8}
        BY <3>1, <4>1 DEF Negotiated
      <4>3. [is |-> "version", minor |-> version'] \in FromClient /\ "types" \in Reads
        BY <4>2 DEF FromClient, Reads
      <4>4. /\ stage' \in Reads /\ outcome' = "pending" /\ UNCHANGED <<deadline, conn>>
            /\ toServer' \in Seq(FromClient)
        BY <1>1, <4>1, <4>3, WritesTyped
      <4> QED
        BY <3>1, <4>2, <4>4 DEF TypeOK, ClientTyped, Reads
    <3>3. CASE ~(Message.minor >= 3)
      BY <2>1, <3>1, <3>3, FailsTyped DEF ReadBanner
    <3> QED
      BY <3>2, <3>3
  <2>2. CASE ReadTypes
    BY <2>2, ReadTypesTyped
  <2>3. CASE ReadRefusal \/ ReadReason \/ ConnectionFails
    BY <2>3, FailsTyped DEF ReadRefusal, ReadReason, ConnectionFails
  <2>4. CASE ReadChallenge \/ ReadParameters \/ ReadResult
    <3>1. /\ UNCHANGED <<version, secType>>
          /\ \/ Fails("protocol") \/ Fails("auth")
             \/ GoesOn("reason")
             \/ Writes([is |-> "response"], "result")
             \/ Writes([is |-> "clientInit"], "serverInit")
      BY <2>4 DEF ReadChallenge, ReadParameters, ReadResult
    <3>2. {"reason", "result", "serverInit"} \subseteq Reads
      BY DEF Reads
    <3>3. [is |-> "response"] \in FromClient /\ [is |-> "clientInit"] \in FromClient
      BY DEF FromClient
    <3> QED
      BY <1>1, <1>3, <3>1, <3>2, <3>3, FailsTyped, GoesOnTyped
  <2>5. CASE ReadServerInit \/ TimeOut
    BY <2>5 DEF ReadServerInit, TimeOut, TypeOK, ClientTyped
  <2> QED
    BY <2>1, <2>2, <2>3, <2>4, <2>5 DEF Client
<1> QED
  BY <1>1, <1>2, <1>4 DEF TypeOK, ClientTyped, serverVars

(* The server: it answers with a few messages, all of the kinds it sends.  *)
LEMMA ServerKeepsTypes ==
  ASSUME TypeOK, Server PROVE TypeOK'
<1> DEFINE Places == {"banner", "version", "selection", "response", "clientInit",
                      "running", "refused", "stalled"}
           Said(s) == s \in Seq(FromServer)
<1>1. /\ UNCHANGED <<clientVars, server>> /\ server.minor \in Nat
      /\ server.offers \in SUBSET Types /\ server.valid \in BOOLEAN
  BY ServersAssumption
     DEF TypeOK, Server, SendBanner, ReceiveVersion, ReceiveSelection, ReceiveResponse,
         ReceiveClientInit, ServerStalls, ServerDrops, serverVars
<1>2. toServer' \in Seq(FromClient)
  <2>1. toServer' = toServer \/ (toServer # <<>> /\ toServer' = Tail(toServer))
    BY DEF Server, SendBanner, ReceiveVersion, ReceiveSelection, ReceiveResponse,
           ReceiveClientInit, ServerStalls, ServerDrops, Receives
  <2>2. toServer \in Seq(FromClient)
    BY DEF TypeOK
  <2> QED
    BY <2>1, <2>2, HeadTailProperties
<1>3. conn' \in {conn, "dropped"}
  BY DEF Server, SendBanner, ReceiveVersion, ReceiveSelection, ReceiveResponse,
         ReceiveClientInit, ServerStalls, ServerDrops
<1>4. /\ Said(<<>>) /\ Said(Offer) /\ Said(Reason) /\ Said(<<Banner>>)
      /\ Said(<<[is |-> "serverInit"]>>) /\ \A ok \in BOOLEAN : Said(<<Result(ok)>>)
      /\ \A t : Said(Opening(t))
  <2>1. \A m \in FromServer : Said(<<m>>)
    OBVIOUS
  <2>2. Said(<<>>)
    OBVIOUS
  <2>3. /\ [is |-> "types", offers |-> server.offers] \in FromServer
        /\ Banner \in FromServer /\ \A ok \in BOOLEAN : Result(ok) \in FromServer
        /\ [is |-> "parameters", valid |-> server.valid] \in FromServer
    BY <1>1 DEF FromServer, Banner, Result
  <2>4. /\ [is |-> "reason"] \in FromServer /\ [is |-> "serverInit"] \in FromServer
        /\ [is |-> "challenge"] \in FromServer
    BY DEF FromServer
  <2> HIDE DEF Said
  <2>5. ASSUME NEW t PROVE Said(Opening(t))
    <3>1. Opening(t) \in {<<>>, <<[is |-> "challenge"]>>, <<Result(TRUE)>>,
                          <<[is |-> "parameters", valid |-> server.valid]>>}
      BY DEF Opening, Result
    <3> QED
      BY <2>1, <2>2, <2>3, <2>4, <3>1
  <2> QED
    BY <2>1, <2>2, <2>3, <2>4, <2>5 DEF Offer, Reason
<1>5. ASSUME NEW s, NEW t, Said(s), Said(t) PROVE Said(s \o t)
  BY <1>5, ConcatProperties
<1>6. Said(toClient) /\ server' = server
  BY <1>1 DEF TypeOK
<1> HIDE DEF Said
<1> DEFINE Typed == Said(toClient') /\ at' \in Places /\ accepted' \in BOOLEAN
<1>7. at \in Places /\ accepted \in BOOLEAN
  BY DEF TypeOK
<1>8. ASSUME NEW t, NEW before, Said(before), Runs(t, before) PROVE Typed
  BY <1>4, <1>5, <1>6, <1>8 DEF Runs, Sends
<1>9. Typed
  <2>1. CASE SendBanner
    BY <1>4, <1>5, <1>6, <1>7, <2>1 DEF SendBanner, Sends, Banner
  <2>2. CASE ReceiveVersion
    <3>1. \/ at' \in {"refused", "selection"} /\ accepted' = accepted
             /\ \E s \in {Offer, Offer \o Reason} : toClient' = toClient \o s
          \/ \E t : Runs(t, Offer)
      BY <2>2 DEF ReceiveVersion, Sends
    <3> QED
      BY <1>4, <1>5, <1>6, <1>7, <1>8, <3>1
  <2>3. CASE ReceiveSelection
    BY <1>4, <1>8, <2>3 DEF ReceiveSelection
  <2>4. CASE ReceiveResponse
    <3>1. PICK ok \in BOOLEAN :
            /\ at' = IF ok THEN "clientInit" ELSE "refused"
            /\ accepted' = ok
            /\ toClient' = toClient \o (<<Result(ok)>> \o
                                        IF ok \/ version < 8 THEN <<>> ELSE Reason)
      BY <2>4 DEF ReceiveResponse, Sends, Result
    <3> QED
      BY <1>4, <1>5, <1>6, <3>1
  <2>5. CASE ReceiveClientInit
    BY <1>4, <1>5, <1>6, <1>7, <2>5 DEF ReceiveClientInit, Sends
  <2>6. CASE ServerStalls \/ ServerDrops
    BY <1>6, <1>7, <2>6 DEF ServerStalls, ServerDrops, serverVars
  <2> QED
    BY <2>1, <2>2, <2>3, <2>4, <2>5, <2>6 DEF Server
<1> QED
  BY <1>1, <1>2, <1>3, <1>9 DEF TypeOK, clientVars, Said

(* Every variable of the handshake has its type.                           *)
THEOREM HandshakeTypes == Spec => []TypeOK
<1>1. Init => TypeOK
  <2>1. <<>> \in Seq(FromServer) /\ <<>> \in Seq(FromClient)
    BY EmptySeq
  <2> QED
    BY <2>1 DEF Init, TypeOK, Types, Reads
<1>2. TypeOK /\ InStep /\ [Next]_vars => TypeOK'
  <2>1. TypeOK /\ UNCHANGED vars => TypeOK'
    BY DEF TypeOK, vars, clientVars, serverVars
  <2> QED
    BY <2>1, ClientKeepsTypes, ServerKeepsTypes DEF Next
<1> QED
  BY <1>1, <1>2, HandshakeInStep, PTL DEF Spec

-----------------------------------------------------------------------------
(* The client slot of a bridge.                                            *)

(* The slot, and the connections to the target with it.  A connection is   *)
(* open only from the dial to the teardown, hence within the slot.         *)
SlotInv ==
  /\ BridgeTypeOK
  /\ SlotIsServed
  /\ \A w \in Clients :
       tcp[w] = "open" =>
         handler[w] \in {"handshaking", "presenting", "piping", "writing", "closing"}

(* SlotInv holds of every reachable state.                                 *)
THEOREM SlotSafe == BridgeSpec => []SlotInv
<1> USE NoneAssumption, QueueAssumption DEF ownVars, pumpVars, handlerVars, Serving
<1>1. BridgeInit => SlotInv
  <2> SUFFICES ASSUME BridgeInit PROVE SlotInv
    OBVIOUS
  <2>1. 0 \in 0 .. QueueSize
    OBVIOUS
  <2>2. BridgeTypeOK
    BY <2>1 DEF BridgeInit, BridgeTypeOK
  <2>3. SlotIsServed
    BY DEF BridgeInit, SlotIsServed
  <2> QED
    BY <2>2, <2>3 DEF BridgeInit, SlotInv
<1>2. SlotInv /\ [BridgeNext]_bridgeVars => SlotInv'
  <2> SUFFICES ASSUME SlotInv, [BridgeNext]_bridgeVars PROVE SlotInv'
    OBVIOUS
  <2> USE DEF SlotInv, BridgeTypeOK, SlotIsServed
  <2>1. CASE Close
    <3>1. CASE CloseBegins
      BY <3>1 DEF CloseBegins
    <3>2. CASE CloseServer
      BY <3>2 DEF CloseServer
    <3>3. ASSUME NEW w \in Clients, CloseClient(w) PROVE SlotInv'
      BY <3>3 DEF CloseClient
    <3>4. QED
      BY <2>1, <3>1, <3>2, <3>3 DEF Close
  <2>2. ASSUME NEW w \in Clients, Upgrade(w) \/ RejectBusy(w) PROVE SlotInv'
    BY <2>2 DEF Upgrade, RejectBusy
  <2>3. ASSUME NEW w \in Clients, TakeSlot(w) PROVE SlotInv'
    BY <2>3 DEF TakeSlot
  <2>4. ASSUME NEW w \in Clients, Release(w) PROVE SlotInv'
    BY <2>4 DEF Release
  <2>5. ASSUME NEW w \in Clients, DialOk(w) \/ HandshakeOk(w) \/ PresentOk(w)
        PROVE  SlotInv'
    BY <2>5 DEF DialOk, HandshakeOk, PresentOk, StartsPipe
  <2>6. ASSUME NEW w \in Clients, ServeFails(w) \/ PipeEnds(w) \/ WriteFails(w)
        PROVE  SlotInv'
    BY <2>6 DEF ServeFails, PipeEnds, WriteFails
  <2>7. ASSUME NEW w \in Clients, Teardown(w) PROVE SlotInv'
    BY <2>7 DEF Teardown
  <2>8. ASSUME NEW w \in Clients, ReplayTakes(w) \/ TakeChunk(w) \/ WriteOk(w)
        PROVE  SlotInv'
    BY <2>8 DEF ReplayTakes, TakeChunk, WriteOk, StartsPipe
  <2>9. ASSUME NEW w \in Clients, ClientLeaves(w) \/ TargetDrops(w) PROVE SlotInv'
    BY <2>9 DEF ClientLeaves, TargetDrops
  <2>10. CASE UNCHANGED bridgeVars
    BY <2>10 DEF bridgeVars
  <2>11. ASSUME NEW w \in Clients, Pump(w) \/ CopyLoop(w) PROVE SlotInv'
    BY <2>11 DEF Pump, PumpReads, PumpSends, PumpStops, PumpFails, CopyLoop, DownStep,
                 DownReads, DownSends, DownEnds
  <2>12. QED
    BY <2>1, <2>2, <2>3, <2>4, <2>5, <2>6, <2>7, <2>8, <2>9, <2>10, <2>11
       DEF BridgeNext, HandleWebSocket, ServeClient
<1>3. QED
  BY <1>1, <1>2, PTL DEF BridgeSpec

(* The slot is taken exactly while its client is served.                   *)
THEOREM SlotServed == BridgeSpec => []SlotIsServed
<1>1. SlotInv => SlotIsServed
  BY DEF SlotInv
<1>2. QED
  BY <1>1, SlotSafe, PTL

(* However many clients come and go, at most one connection to the target  *)
(* is open.                                                                *)
THEOREM OneTarget == BridgeSpec => []OneTargetConnection
<1>1. SlotInv => OneTargetConnection
  BY DEF SlotInv, SlotIsServed, OneTargetConnection, Serving
<1>2. QED
  BY <1>1, SlotSafe, PTL

-----------------------------------------------------------------------------
(* The bytes that a bridge relays.                                         *)

(* The bytes of the frames that wait follow the r-th and go as far as the  *)
(* client has sent; cut[i] is the last byte of the i-th frame.             *)
Waiting(r) ==
  \E cut \in [0 .. Len(frames) -> Nat] :
    /\ cut[0] = r /\ cut[Len(frames)] = framed
    /\ \A i, j \in 0 .. Len(frames) : i < j => cut[i] < cut[j]
    /\ \A i \in 1 .. Len(frames) : frames[i] = Bytes(cut[i - 1], cut[i])

(* The messages before the u-th have been taken apart: none is unknown,    *)
(* and every SetEncodings among them was rewritten, nothing else.          *)
Parsed(u) ==
  /\ \A l \in Messages : l < u => said[l] # "unknown"
  /\ rewritten = {MessageBytes(l) : l \in {m \in Messages :
                                             m < u /\ said[m] = "setEncodings"}}

(* The rewriter is at the beginning of a message while it works, and has   *)
(* stopped at the first unknown one otherwise.                             *)
AtBoundary(p) ==
  /\ ~rewriting => ~disabled /\ rewritten = {} /\ held = <<>>
  /\ rewriting /\ ~disabled =>
       \E u \in 1 .. MaxMessages + 1 : p = End(u - 1) /\ Parsed(u)
  /\ disabled =>
       rewriting /\ held = <<>> /\ \E u \in Messages : said[u] = "unknown" /\ Parsed(u)

(* The stream, cut at what has passed (p), what the rewriter holds (q) and *)
(* what the reader holds (r).                                              *)
Replaying(p) ==
  /\ p = ReplayEnd /\ held = <<>>
  /\ \E r \in Nat : Before(serving) <= r /\ buf = Bytes(Before(serving), r) /\ Waiting(r)

Piping(p) ==
  \E q, r \in Nat :
    /\ p <= q /\ q <= r /\ held = Bytes(p, q) /\ buf = Bytes(q, r) /\ Waiting(r)
    /\ serving = "flush" => p = q
    /\ serving # "flush" => q = r

Cut(p) ==
  /\ ReplayEnd <= p /\ target = Bytes(ReplayEnd, p) /\ AtBoundary(p)
  /\ serving \in Replay => Replaying(p)
  /\ serving \in Piped => Piping(p)
  /\ serving = "ended" => p = ReplayEnd \/ p <= framed

RelayTypes ==
  /\ rewriting \in BOOLEAN /\ disabled \in BOOLEAN
  /\ said \in [Messages -> Kinds] /\ ends \in Ends
  /\ serving \in Replay \cup Piped \cup {"ended"}
  /\ frames \in Seq(Seq(Nat))
  /\ framed \in Nat /\ framed <= End(MaxMessages)

RelayInv == RelayTypes /\ \E p \in Nat : Cut(p)

(* A stretch of the stream is a sequence of its bytes, in order.           *)
LEMMA BytesProperties ==
  ASSUME NEW a \in Nat, NEW b \in Nat, a <= b
  PROVE  /\ Bytes(a, b) \in Seq(Nat)
         /\ Len(Bytes(a, b)) = b - a
         /\ \A i \in 1 .. b - a : Bytes(a, b)[i] = a + i
  <1>1. b - a \in Nat
    OBVIOUS
  <1>2. \A i \in 1 .. b - a : a + i \in Nat
    OBVIOUS
  <1> QED  BY <1>1, <1>2 DEF Bytes

LEMMA BytesEmpty ==
  ASSUME NEW a \in Nat, NEW b \in Nat, a <= b
  PROVE  Bytes(a, b) = <<>> <=> a = b
  <1>1. Len(Bytes(a, b)) = b - a /\ Bytes(a, b) \in Seq(Nat)
    BY BytesProperties
  <1>2. Bytes(a, b) = <<>> <=> Len(Bytes(a, b)) = 0
    BY <1>1, EmptySeq
  <1> QED  BY <1>1, <1>2

(* Two stretches that meet make up one.                                    *)
LEMMA BytesJoin ==
  ASSUME NEW a \in Nat, NEW b \in Nat, NEW c \in Nat, a <= b, b <= c
  PROVE  Bytes(a, b) \o Bytes(b, c) = Bytes(a, c)
  <1> DEFINE joined == Bytes(a, b) \o Bytes(b, c)
  <1>0. a <= c /\ b - a \in Nat /\ c - b \in Nat /\ (b - a) + (c - b) = c - a
    OBVIOUS
  <1>1. /\ Bytes(a, b) \in Seq(Nat) /\ Len(Bytes(a, b)) = b - a
        /\ \A i \in 1 .. b - a : Bytes(a, b)[i] = a + i
    BY BytesProperties
  <1>2. /\ Bytes(b, c) \in Seq(Nat) /\ Len(Bytes(b, c)) = c - b
        /\ \A i \in 1 .. c - b : Bytes(b, c)[i] = b + i
    BY BytesProperties
  <1>3. /\ Bytes(a, c) \in Seq(Nat) /\ Len(Bytes(a, c)) = c - a
        /\ \A i \in 1 .. c - a : Bytes(a, c)[i] = a + i
    BY <1>0, BytesProperties
  <1>4. /\ joined \in Seq(Nat) /\ Len(joined) = c - a
        /\ \A i \in 1 .. c - a :
             joined[i] = IF i <= b - a THEN Bytes(a, b)[i] ELSE Bytes(b, c)[i - (b - a)]
    <2>1. /\ joined \in Seq(Nat)
          /\ Len(joined) = Len(Bytes(a, b)) + Len(Bytes(b, c))
          /\ \A i \in 1 .. Len(Bytes(a, b)) + Len(Bytes(b, c)) :
               joined[i] = IF i <= Len(Bytes(a, b)) THEN Bytes(a, b)[i]
                           ELSE Bytes(b, c)[i - Len(Bytes(a, b))]
      BY <1>1, <1>2, ConcatProperties
    <2> QED  BY <2>1, <1>0, <1>1, <1>2
  <1>5. ASSUME NEW i \in 1 .. c - a PROVE joined[i] = a + i
    <2>1. CASE i <= b - a
      <3>1. i \in 1 .. b - a
        BY <2>1, <1>0
      <3> QED  BY <2>1, <3>1, <1>1, <1>4
    <2>2. CASE ~(i <= b - a)
      <3>1. i - (b - a) \in 1 .. c - b
        BY <2>2, <1>0
      <3>2. joined[i] = Bytes(b, c)[i - (b - a)]
        BY <2>2, <1>4
      <3>3. b + (i - (b - a)) = a + i
        OBVIOUS
      <3> QED  BY <3>1, <3>2, <3>3, <1>2
    <2> QED  BY <2>1, <2>2
  <1>6. \A i \in 1 .. Len(joined) : joined[i] = Bytes(a, c)[i]
    BY <1>3, <1>4, <1>5
  <1> QED  BY <1>3, <1>4, <1>6, SeqEqual

(* A stretch taken apart: its first bytes, and the rest.                   *)
LEMMA BytesSplit ==
  ASSUME NEW a \in Nat, NEW b \in Nat, NEW c \in Nat, a <= b, b <= c
  PROVE  /\ SubSeq(Bytes(a, c), 1, b - a) = Bytes(a, b)
         /\ SubSeq(Bytes(a, c), (b - a) + 1, Len(Bytes(a, c))) = Bytes(b, c)
  <1> DEFINE first == SubSeq(Bytes(a, c), 1, b - a)
             rest == SubSeq(Bytes(a, c), (b - a) + 1, Len(Bytes(a, c)))
  <1>0. /\ a <= c /\ b - a \in Nat /\ c - b \in Nat /\ c - a \in Nat
        /\ b - a <= c - a
    OBVIOUS
  <1>1. /\ Bytes(a, b) \in Seq(Nat) /\ Len(Bytes(a, b)) = b - a
        /\ \A i \in 1 .. b - a : Bytes(a, b)[i] = a + i
    BY BytesProperties
  <1>2. /\ Bytes(b, c) \in Seq(Nat) /\ Len(Bytes(b, c)) = c - b
        /\ \A i \in 1 .. c - b : Bytes(b, c)[i] = b + i
    BY BytesProperties
  <1>3. /\ Bytes(a, c) \in Seq(Nat) /\ Len(Bytes(a, c)) = c - a
        /\ \A i \in 1 .. c - a : Bytes(a, c)[i] = a + i
    BY <1>0, BytesProperties
  <1>4. first = Bytes(a, b)
    <2>1. \A i \in 1 .. b - a : Bytes(a, c)[i] = a + i /\ a + i \in Nat
      BY <1>0, <1>3
    <2>2. /\ first \in Seq(Nat)
          /\ Len(first) = IF 1 <= b - a THEN (b - a) - 1 + 1 ELSE 0
          /\ \A i \in 1 .. (b - a) - 1 + 1 : first[i] = Bytes(a, c)[1 + i - 1]
      <3>1. \A i \in 1 .. b - a : Bytes(a, c)[i] \in Nat
        BY <2>1
      <3>2. 1 \in Int /\ b - a \in Int
        OBVIOUS
      <3> QED  BY <3>1, <3>2, SubSeqProperties
    <2>3. Len(first) = b - a
      BY <2>2, <1>0
    <2>4. ASSUME NEW i \in 1 .. b - a PROVE first[i] = Bytes(a, b)[i]
      <3>1. i \in 1 .. (b - a) - 1 + 1 /\ 1 + i - 1 = i
        OBVIOUS
      <3> QED  BY <3>1, <2>1, <2>2, <1>1
    <2> QED  BY <2>2, <2>3, <2>4, <1>1, SeqEqual
  <1>5. rest = Bytes(b, c)
    <2> DEFINE m == (b - a) + 1
               n == c - a
    <2>0. m \in Int /\ n \in Int /\ m >= 1 /\ (n - m) + 1 = c - b
      BY <1>0
    <2>1. ASSUME NEW i \in m .. n PROVE Bytes(a, c)[i] \in Nat
      <3>1. i \in 1 .. c - a
        BY <2>0
      <3> QED  BY <3>1, <1>3
    <2>2. rest = SubSeq(Bytes(a, c), m, n)
      BY <1>3
    <2>3. /\ rest \in Seq(Nat)
          /\ Len(rest) = IF m <= n THEN n - m + 1 ELSE 0
          /\ \A i \in 1 .. n - m + 1 : rest[i] = Bytes(a, c)[m + i - 1]
      <3> HIDE DEF m, n, rest
      <3> QED  BY <2>0, <2>1, <2>2, SubSeqProperties
    <2>4. Len(rest) = c - b
      BY <2>3, <1>0
    <2>5. ASSUME NEW i \in 1 .. c - b PROVE rest[i] = Bytes(b, c)[i]
      <3>1. i \in 1 .. n - m + 1 /\ m + i - 1 \in 1 .. c - a /\ a + (m + i - 1) = b + i
        OBVIOUS
      <3> QED  BY <3>1, <2>3, <1>2, <1>3
    <2> QED  BY <2>3, <2>4, <2>5, <1>2, SeqEqual
  <1> QED  BY <1>4, <1>5

(* Stretches that are not empty are equal only if they are the same.       *)
LEMMA BytesInjective ==
  ASSUME NEW a \in Nat, NEW b \in Nat, NEW c \in Nat, NEW d \in Nat,
         a < b, c < d, Bytes(a, b) = Bytes(c, d)
  PROVE  a = c /\ b = d
  <1>0. a <= b /\ c <= d
    OBVIOUS
  <1>1. Len(Bytes(a, b)) = b - a /\ \A i \in 1 .. b - a : Bytes(a, b)[i] = a + i
    BY <1>0, BytesProperties
  <1>2. Len(Bytes(c, d)) = d - c /\ \A i \in 1 .. d - c : Bytes(c, d)[i] = c + i
    BY <1>0, BytesProperties
  <1>3. a + 1 = c + 1
    BY <1>1, <1>2
  <1> QED  BY <1>1, <1>2, <1>3

(* The message ends lie behind each other and behind the replay.           *)
LEMMA EndsGrow ==
  ASSUME ends \in Ends
  PROVE  /\ \A m \in 0 .. MaxMessages : End(m) \in Nat /\ End(m) >= ReplayEnd
         /\ \A l, m \in 0 .. MaxMessages : l < m => End(l) < End(m)
  <1>1. /\ ends \in [Messages -> Nat]
        /\ \A m \in Messages : ends[m] > ReplayEnd
        /\ \A l, m \in Messages : l < m => ends[l] < ends[m]
    BY EndsAssumption
  <1>2. ASSUME NEW m \in 0 .. MaxMessages PROVE m # 0 => m \in Messages
    BY BoundsAssumption DEF Messages
  <1> QED  BY <1>1, <1>2 DEF End, ReplayEnd

(* What waits for the relay: nothing beyond what was sent.                 *)
LEMMA WaitingEnd ==
  ASSUME frames \in Seq(Seq(Nat)), framed \in Nat, NEW r \in Nat, Waiting(r)
  PROVE  r <= framed /\ (frames = <<>> => r = framed)
  <1>1. PICK cut \in [0 .. Len(frames) -> Nat] :
          /\ cut[0] = r /\ cut[Len(frames)] = framed
          /\ \A i, j \in 0 .. Len(frames) : i < j => cut[i] < cut[j]
    BY DEF Waiting
  <1>2. Len(frames) \in Nat /\ (frames = <<>> => Len(frames) = 0)
    BY LenProperties
  <1>3. 0 \in 0 .. Len(frames) /\ Len(frames) \in 0 .. Len(frames)
    BY <1>2
  <1>4. CASE Len(frames) = 0
    BY <1>1, <1>4
  <1>5. CASE Len(frames) # 0
    <2>1. 0 < Len(frames) /\ frames # <<>>
      BY <1>2, <1>5
    <2>2. cut[0] < cut[Len(frames)]
      BY <1>1, <1>3, <2>1
    <2> QED  BY <1>1, <2>1, <2>2
  <1> QED  BY <1>4, <1>5

(* The first waiting frame goes on where r ends, the others go on from it. *)
LEMMA WaitingHead ==
  ASSUME frames \in Seq(Seq(Nat)), framed \in Nat, NEW r \in Nat, Waiting(r),
         frames # <<>>, frames' = Tail(frames), framed' = framed
  PROVE  \E s \in Nat : r < s /\ Head(frames) = Bytes(r, s) /\ Waiting(s)'
  <1>1. PICK cut \in [0 .. Len(frames) -> Nat] :
          /\ cut[0] = r /\ cut[Len(frames)] = framed
          /\ \A i, j \in 0 .. Len(frames) : i < j => cut[i] < cut[j]
          /\ \A i \in 1 .. Len(frames) : frames[i] = Bytes(cut[i - 1], cut[i])
    BY DEF Waiting
  <1> DEFINE n == Len(frames)
             rest == [i \in 0 .. n - 1 |-> cut[i + 1]]
  <1>2. n \in Nat \ {0}
    BY EmptySeq
  <1>3. 1 \in 1 .. n /\ 0 \in 0 .. n /\ 1 \in 0 .. n /\ 1 - 1 = 0
    BY <1>2
  <1>4. /\ Len(frames') = n - 1
        /\ \A i \in 1 .. n - 1 : frames'[i] = frames[i + 1]
    BY HeadTailProperties
  <1>5. cut[1] \in Nat /\ r < cut[1] /\ Head(frames) = Bytes(r, cut[1])
    <2>0. \A i, j \in 0 .. n : i < j => cut[i] < cut[j]
      BY <1>1
    <2>1. cut[1] \in Nat
      <3>1. cut \in [0 .. n -> Nat]
        OBVIOUS
      <3> HIDE DEF n
      <3> QED  BY <3>1, <1>3
    <2>4. cut[0] < cut[1]
      BY <2>0, <1>2
    <2>2. frames[1] = Bytes(cut[1 - 1], cut[1])
      BY <1>1, <1>3
    <2>3. Head(frames) = frames[1]
      OBVIOUS
    <2> QED  BY <1>1, <1>3, <2>1, <2>2, <2>3, <2>4
  <1>6. Waiting(cut[1])'
    <2>0. /\ \A i \in 0 .. n - 1 : i + 1 \in 0 .. n
          /\ \A i \in 1 .. n - 1 : i + 1 \in 1 .. n /\ (i + 1) - 1 = (i - 1) + 1
                                   /\ i - 1 \in 0 .. n - 1 /\ i \in 0 .. n - 1
      BY <1>2
    <2>1. rest \in [0 .. n - 1 -> Nat]
      BY <1>1, <2>0
    <2>2. rest[0] = cut[1] /\ rest[n - 1] = framed'
      BY <1>1, <1>2
    <2>3. \A i, j \in 0 .. n - 1 : i < j => rest[i] < rest[j]
      BY <1>1, <2>0
    <2>4. ASSUME NEW i \in 1 .. n - 1 PROVE frames'[i] = Bytes(rest[i - 1], rest[i])
      <3>1. frames'[i] = Bytes(cut[(i + 1) - 1], cut[i + 1])
        BY <1>1, <1>4, <2>0
      <3> QED  BY <3>1, <2>0
    <2> HIDE DEF rest
    <2> QED  BY <1>4, <2>1, <2>2, <2>3, <2>4 DEF Waiting
  <1> QED  BY <1>5, <1>6

(* A frame that goes on where the last one ends waits behind it.           *)
LEMMA WaitingAppend ==
  ASSUME frames \in Seq(Seq(Nat)), framed \in Nat, NEW r \in Nat, Waiting(r),
         NEW n \in Nat, framed < n,
         frames' = Append(frames, Bytes(framed, n)), framed' = n
  PROVE  Waiting(r)'
  <1>1. PICK cut \in [0 .. Len(frames) -> Nat] :
          /\ cut[0] = r /\ cut[Len(frames)] = framed
          /\ \A i, j \in 0 .. Len(frames) : i < j => cut[i] < cut[j]
          /\ \A i \in 1 .. Len(frames) : frames[i] = Bytes(cut[i - 1], cut[i])
    BY DEF Waiting
  <1> DEFINE k == Len(frames)
             more == [i \in 0 .. k + 1 |-> IF i = k + 1 THEN n ELSE cut[i]]
  <1>2. k \in Nat
    BY LenProperties
  <1>3. Bytes(framed, n) \in Seq(Nat)
    <2>1. framed <= n
      OBVIOUS
    <2> QED  BY <2>1, BytesProperties
  <1>4. /\ Len(frames') = k + 1
        /\ \A i \in 1 .. k : frames'[i] = frames[i]
        /\ frames'[k + 1] = Bytes(framed, n)
    BY <1>3, AppendProperties
  <1>5. ASSUME NEW i \in 0 .. k + 1
        PROVE  /\ i # k + 1 => i \in 0 .. k
               /\ i # k + 1 /\ i # 0 => i \in 1 .. k /\ i - 1 \in 0 .. k /\ i - 1 # k + 1
               /\ i # 0 => i - 1 \in 0 .. k + 1 /\ i - 1 # k + 1
    BY <1>2
  <1>6. more \in [0 .. k + 1 -> Nat]
    BY <1>1, <1>5
  <1>7. more[0] = r /\ more[k + 1] = framed'
    BY <1>1, <1>2
  <1>8. ASSUME NEW i \in 0 .. k + 1, NEW j \in 0 .. k + 1, i < j
        PROVE  more[i] < more[j]
    <2>0. i \in 0 .. k /\ more[i] = cut[i] /\ cut[i] \in Nat
      <3>1. i \in 0 .. k /\ i # k + 1
        BY <1>2, <1>8
      <3> QED  BY <3>1, <1>1
    <2>1. CASE j = k + 1
      <3>1. more[j] = n
        BY <2>1
      <3>2. cut[i] <= framed
        <4>1. k \in 0 .. k /\ cut[k] = framed
          BY <1>1, <1>2
        <4>2. CASE i = k
          BY <4>1, <4>2
        <4>3. CASE i # k
          <5>1. i < k
            BY <2>0, <4>3, <1>2
          <5>2. cut[i] < cut[k]
            BY <5>1, <4>1, <2>0, <1>1
          <5> QED  BY <5>2, <4>1, <2>0
        <4> QED  BY <4>2, <4>3
      <3> QED  BY <2>0, <3>1, <3>2
    <2>2. CASE j # k + 1
      <3>1. j \in 0 .. k /\ more[j] = cut[j]
        BY <2>2, <1>2
      <3> QED  BY <2>0, <3>1, <1>1, <1>8
    <2> QED  BY <2>1, <2>2
  <1>9. ASSUME NEW i \in 1 .. k + 1 PROVE frames'[i] = Bytes(more[i - 1], more[i])
    <2>0. i \in 0 .. k + 1 /\ i - 1 \in 0 .. k + 1 /\ i - 1 # k + 1
      BY <1>2
    <2>1. more[i - 1] = cut[i - 1]
      BY <2>0
    <2>2. CASE i = k + 1
      <3>1. more[i] = n /\ cut[i - 1] = framed
        BY <2>2, <2>0, <1>1, <1>2
      <3> QED  BY <2>1, <2>2, <3>1, <1>4
    <2>3. CASE i # k + 1
      <3>1. i \in 1 .. k /\ more[i] = cut[i]
        BY <2>3, <2>0, <1>2
      <3> QED  BY <2>1, <3>1, <1>1, <1>4
    <2> QED  BY <2>2, <2>3
  <1> HIDE DEF more
  <1> QED  BY <1>4, <1>6, <1>7, <1>8, <1>9 DEF Waiting

(* Nothing of the stream moves.                                            *)
LEMMA BoundaryKept ==
  ASSUME NEW p, AtBoundary(p),
         UNCHANGED <<rewriting, said, ends, disabled, held, rewritten>>
  PROVE  AtBoundary(p)'
  BY DEF AtBoundary, Parsed, MessageBytes, End

LEMMA WaitingKept ==
  ASSUME NEW r, Waiting(r), UNCHANGED <<frames, framed>>
  PROVE  Waiting(r)'
  BY DEF Waiting

(* What the relay forwards is behind what the rewriter holds: either both  *)
(* are written or both are held.                                           *)
LEMMA Forwards ==
  ASSUME NEW p \in Nat, NEW q \in Nat, NEW s \in Nat,
         ReplayEnd <= p, p <= q, q <= s,
         target = Bytes(ReplayEnd, p), held = Bytes(p, q), AtBoundary(p),
         rewriting \in BOOLEAN, disabled \in BOOLEAN,
         Forward(Bytes(q, s)),
         UNCHANGED <<rewriting, said, ends, disabled, rewritten>>
  PROVE  \E t \in Nat : /\ ReplayEnd <= t /\ t <= s
                        /\ target' = Bytes(ReplayEnd, t) /\ held' = Bytes(t, s)
                        /\ AtBoundary(t)' /\ serving' \in {"pushing", "pipe"}
  <1>1. CASE rewriting /\ ~disabled
    <2>1. held' = Bytes(p, s) /\ target' = target /\ serving' = "pushing"
      BY <1>1, BytesJoin DEF Forward
    <2>2. AtBoundary(p)'
      BY <1>1 DEF AtBoundary, Parsed, MessageBytes, End
    <2>3. p <= s
      OBVIOUS
    <2> QED  BY <2>1, <2>2, <2>3
  <1>2. CASE ~(rewriting /\ ~disabled)
    <2>1. held = <<>>
      BY <1>2 DEF AtBoundary
    <2>2. p = q
      BY <2>1, BytesEmpty
    <2>3. held' = <<>> /\ serving' = "pipe" /\ target' = target \o Bytes(q, s)
      BY <1>2, <2>1 DEF Forward, Write
    <2>4. ReplayEnd \in Nat /\ ReplayEnd <= s /\ s <= s
      BY DEF ReplayEnd
    <2>5. target' = Bytes(ReplayEnd, s)
      BY <2>2, <2>3, <2>4, BytesJoin
    <2>6. held' = Bytes(s, s)
      BY <2>3, <2>4, BytesEmpty
    <2>7. AtBoundary(s)'
      BY <1>2, <2>1, <2>3 DEF AtBoundary, Parsed, MessageBytes, End
    <2> QED  BY <2>3, <2>4, <2>5, <2>6, <2>7
  <1> QED  BY <1>1, <1>2

LEMMA RelayInit_Inv == ASSUME RelayInit PROVE RelayInv
  <1>0. ReplayEnd \in Nat /\ ReplayEnd <= ReplayEnd /\ 0 \in Nat /\ 0 <= 0
    BY DEF ReplayEnd
  <1>1. RelayTypes
    <2>1. MaxMessages \in 0 .. MaxMessages
      BY BoundsAssumption
    <2>2. End(MaxMessages) \in Nat
      BY <2>1, EndsGrow DEF RelayInit
    <2>3. frames \in Seq(Seq(Nat))
      BY EmptySeq DEF RelayInit
    <2>4. framed \in Nat /\ framed <= End(MaxMessages)
      BY <2>2 DEF RelayInit
    <2>5. serving \in Replay
      BY DEF RelayInit, Replay
    <2> QED  BY <2>3, <2>4, <2>5 DEF RelayInit, RelayTypes
  <1>2. AtBoundary(ReplayEnd)
    <2>1. 1 \in 1 .. MaxMessages + 1 /\ 1 - 1 = 0 /\ End(0) = ReplayEnd
      BY BoundsAssumption DEF End
    <2>2. \A m \in Messages : ~(m < 1)
      BY DEF Messages
    <2>3. Parsed(1)
      BY <2>2 DEF RelayInit, Parsed
    <2> QED  BY <2>1, <2>3 DEF RelayInit, AtBoundary
  <1>3. Waiting(0)
    <2> DEFINE cut == [i \in 0 .. 0 |-> 0]
    <2>1. Len(frames) = 0
      BY DEF RelayInit
    <2>2. /\ cut \in [0 .. Len(frames) -> Nat] /\ cut[0] = 0 /\ cut[Len(frames)] = framed
          /\ \A i, j \in 0 .. Len(frames) : i < j => cut[i] < cut[j]
          /\ \A i \in 1 .. Len(frames) : frames[i] = Bytes(cut[i - 1], cut[i])
      BY <2>1 DEF RelayInit
    <2> HIDE DEF cut
    <2> QED  BY <2>2 DEF Waiting
  <1>4. Replaying(ReplayEnd)
    <2>1. buf = Bytes(0, 0) /\ Before(serving) = 0
      BY <1>0, BytesEmpty DEF RelayInit, Before
    <2> QED  BY <1>0, <1>3, <2>1 DEF Replaying, RelayInit
  <1>5. target = Bytes(ReplayEnd, ReplayEnd)
    BY <1>0, BytesEmpty DEF RelayInit
  <1>6. Cut(ReplayEnd)
    BY <1>0, <1>2, <1>4, <1>5 DEF Cut, RelayInit, Replay, Piped
  <1> QED  BY <1>0, <1>1, <1>6 DEF RelayInv

LEMMA RelayTypesKept ==
  ASSUME RelayTypes, [RelayNext]_relayVars
  PROVE  RelayTypes'
  <1>0. UNCHANGED <<rewriting, said, ends>> /\ End(MaxMessages)' = End(MaxMessages)
    <2>1. UNCHANGED <<rewriting, said, ends>>
      BY DEF RelayNext, Relay, ClientSends, StreamEnds, ConnectionDrops, Fill,
             ReplayStep, Flush, TakeFrame, TakeMessage, Disable, PushEnds,
             ServeEnds, relayVars, streamVars
    <2> QED  BY <2>1 DEF End
  <1>1. disabled' \in BOOLEAN /\ serving' \in Replay \cup Piped \cup {"ended"}
    BY DEF RelayNext, Relay, ClientSends, StreamEnds, ConnectionDrops, Fill,
           ReplayStep, Flush, TakeFrame, TakeMessage, Disable, PushEnds, ServeEnds,
           relayVars, streamVars, targetVars, RelayTypes, Forward, Replay, Piped,
           After
  <1>2. frames' \in Seq(Seq(Nat)) /\ framed' \in Nat /\ framed' <= End(MaxMessages)
    <2>0. framed \in Nat /\ framed <= End(MaxMessages) /\ frames \in Seq(Seq(Nat))
      BY DEF RelayTypes
    <2>1. CASE ClientSends
      <3>0. End(MaxMessages) \in Nat
        <4>1. MaxMessages \in 0 .. MaxMessages
          BY BoundsAssumption
        <4> QED  BY <4>1, EndsGrow DEF RelayTypes
      <3>1. PICK n \in framed + 1 .. End(MaxMessages) :
              frames' = Append(frames, Bytes(framed, n)) /\ framed' = n
        BY <2>1 DEF ClientSends
      <3>2. n \in Nat /\ framed <= n /\ n <= End(MaxMessages)
        BY <2>0, <3>0
      <3>3. Bytes(framed, n) \in Seq(Nat)
        BY <2>0, <3>2, BytesProperties
      <3> QED  BY <2>0, <3>1, <3>2, <3>3, AppendProperties
    <2>2. CASE Fill \/ TakeFrame
      <3>1. frames # <<>> /\ frames' = Tail(frames) /\ framed' = framed
        BY <2>2 DEF Fill, TakeFrame, streamVars
      <3> QED  BY <2>0, <3>1, HeadTailProperties
    <2>3. CASE UNCHANGED <<frames, framed>>
      BY <2>0, <2>3
    <2> QED  BY <2>1, <2>2, <2>3
            DEF RelayNext, Relay, StreamEnds, ConnectionDrops, ReplayStep, Flush,
                TakeMessage, Disable, PushEnds, ServeEnds, relayVars, streamVars
  <1> QED  BY <1>0, <1>1, <1>2 DEF RelayTypes

(* Steps that move no byte of the relay.                                   *)
LEMMA StillStep ==
  ASSUME RelayTypes, NEW p \in Nat, Cut(p),
         UNCHANGED <<rewriting, said, ends, serving, buf, held, disabled, target, rewritten>>,
         ClientSends \/ UNCHANGED <<frames, framed>>
  PROVE  Cut(p)'
  <1>0. framed \in Nat /\ frames \in Seq(Seq(Nat))
    BY DEF RelayTypes
  <1>1. ASSUME NEW r \in Nat, Waiting(r) PROVE Waiting(r)'
    <2>1. CASE ClientSends
      <3>1. PICK n \in framed + 1 .. End(MaxMessages) :
              frames' = Append(frames, Bytes(framed, n)) /\ framed' = n
        BY <2>1 DEF ClientSends
      <3>2. n \in Nat /\ framed < n
        BY <1>0, <3>1
      <3> QED  BY <1>0, <1>1, <3>1, <3>2, WaitingAppend
    <2>2. CASE UNCHANGED <<frames, framed>>
      BY <1>1, <2>2, WaitingKept
    <2> QED  BY <2>1, <2>2
  <1>2. framed' \in Nat /\ framed <= framed'
    <2>1. CASE ClientSends
      <3>1. PICK n \in framed + 1 .. End(MaxMessages) : framed' = n
        BY <2>1 DEF ClientSends
      <3> QED  BY <1>0, <3>1
    <2> QED  BY <1>0, <2>1
  <1>3. AtBoundary(p)'
    BY BoundaryKept DEF Cut
  <1>4. Replaying(p) => Replaying(p)'
    BY <1>1 DEF Replaying
  <1>5. Piping(p) => Piping(p)'
    BY <1>1 DEF Piping
  <1>6. p <= framed => p <= framed'
    BY <1>0, <1>2
  <1> QED  BY <1>3, <1>4, <1>5, <1>6 DEF Cut

LEMMA FillStep ==
  ASSUME RelayTypes, NEW p \in Nat, Cut(p), Fill
  PROVE  Cut(p)'
  <1>0. /\ framed \in Nat /\ frames \in Seq(Seq(Nat)) /\ Replaying(p)
        /\ Before(serving) \in Nat
    BY DEF RelayTypes, Cut, Fill, Replay, Before
  <1>1. PICK r \in Nat : Before(serving) <= r /\ buf = Bytes(Before(serving), r) /\ Waiting(r)
    BY <1>0 DEF Replaying
  <1>2. PICK s \in Nat : r < s /\ Head(frames) = Bytes(r, s) /\ Waiting(s)'
    BY <1>0, <1>1, WaitingHead DEF Fill, streamVars
  <1>3. r <= s /\ Before(serving) <= s
    BY <1>0, <1>1, <1>2
  <1>4. buf' = Bytes(Before(serving), s)
    <2>1. Bytes(Before(serving), r) \o Bytes(r, s) = Bytes(Before(serving), s)
      BY <1>0, <1>1, <1>3, BytesJoin
    <2> QED  BY <1>1, <1>2, <2>1 DEF Fill
  <1>5. Replaying(p)'
    BY <1>0, <1>2, <1>3, <1>4 DEF Replaying, Fill, streamVars
  <1>6. AtBoundary(p)'
    BY BoundaryKept DEF Cut, Fill, streamVars, targetVars
  <1> QED  BY <1>5, <1>6 DEF Cut, Fill, Replay, Piped, streamVars, targetVars

LEMMA ReplayStepStep ==
  ASSUME RelayTypes, NEW p \in Nat, Cut(p), ReplayStep
  PROVE  Cut(p)'
  <1> DEFINE b == Before(serving)
             c == b + Size(serving)
  <1>0. Replaying(p) /\ b \in Nat /\ c \in Nat /\ b <= c /\ c - b = Size(serving)
    BY DEF Cut, ReplayStep, Replay, Before, Size
  <1>1. PICK r \in Nat : b <= r /\ buf = Bytes(b, r) /\ Waiting(r)
    BY <1>0 DEF Replaying
  <1>2. c <= r
    <2>1. Len(buf) = r - b
      BY <1>0, <1>1, BytesProperties
    <2>2. Len(buf) >= Size(serving)
      BY DEF ReplayStep
    <2> QED  BY <1>0, <2>1, <2>2
  <1>3. buf' = Bytes(c, r)
    <2>1. SubSeq(Bytes(b, r), (c - b) + 1, Len(Bytes(b, r))) = Bytes(c, r)
      BY <1>0, <1>1, <1>2, BytesSplit
    <2> QED  BY <1>0, <1>1, <2>1 DEF ReplayStep
  <1>4. Waiting(r)'
    BY <1>1, WaitingKept DEF ReplayStep, streamVars
  <1>5. AtBoundary(p)'
    BY BoundaryKept DEF Cut, ReplayStep, streamVars, targetVars
  <1>6. p = ReplayEnd /\ held = <<>>
    BY <1>0 DEF Replaying
  <1>7. UNCHANGED <<held, target>>
    BY DEF ReplayStep, targetVars
  <1>8. CASE serving' \in Replay
    <2>1. Before(serving') = c
      BY <1>8 DEF ReplayStep, Replay, After, Before, Size
    <2>2. Replaying(p)'
      BY <1>0, <1>2, <1>3, <1>4, <1>6, <1>7, <2>1 DEF Replaying
    <2> QED  BY <1>5, <1>7, <1>8, <2>2 DEF Cut, Replay, Piped
  <1>9. CASE serving' = "flush"
    <2>1. c = ReplayEnd
      BY <1>9 DEF ReplayStep, Replay, After, Before, Size, ReplayEnd
    <2>2. ReplayEnd <= ReplayEnd /\ held' = Bytes(ReplayEnd, ReplayEnd) /\ ReplayEnd \in Nat
      BY <1>6, <1>7, BytesEmpty DEF ReplayEnd
    <2>3. Piping(p)'
      BY <1>2, <1>3, <1>4, <1>6, <1>9, <2>1, <2>2 DEF Piping
    <2> QED  BY <1>5, <1>7, <1>9, <2>3 DEF Cut, Replay, Piped
  <1>10. CASE serving' = "ended"
    BY <1>5, <1>6, <1>7, <1>10 DEF Cut, Replay, Piped
  <1> QED  BY <1>8, <1>9, <1>10 DEF ReplayStep, Replay, After

LEMMA FlushStep ==
  ASSUME RelayTypes, NEW p \in Nat, Cut(p), Flush
  PROVE  \E t \in Nat : Cut(t)'
  <1>0. Piping(p) /\ serving = "flush"
    BY DEF Cut, Flush, Piped
  <1>1. PICK r \in Nat :
          p <= r /\ held = Bytes(p, p) /\ buf = Bytes(p, r) /\ Waiting(r)
    BY <1>0 DEF Piping
  <1>2. Waiting(r)' /\ UNCHANGED <<rewriting, said, ends, disabled, rewritten>>
    BY <1>1, WaitingKept DEF Flush, streamVars
  <1>3. buf' = Bytes(r, r)
    <2>1. r <= r
      OBVIOUS
    <2> QED  BY <2>1, BytesEmpty DEF Flush
  <1>4. ReplayEnd <= p /\ target = Bytes(ReplayEnd, p) /\ AtBoundary(p) /\ p <= p
    BY DEF Cut
  <1>5. CASE buf = <<>>
    <2>1. r = p
      BY <1>1, <1>5, BytesEmpty
    <2>2. serving' = "pipe" /\ UNCHANGED <<held, target>>
      BY <1>5 DEF Flush
    <2>3. AtBoundary(p)'
      BY <1>2, <1>4, <2>2, BoundaryKept
    <2>4. Piping(p)'
      BY <1>1, <1>2, <1>3, <1>4, <2>1, <2>2 DEF Piping
    <2> QED  BY <1>4, <2>2, <2>3, <2>4 DEF Cut, Replay, Piped
  <1>6. CASE buf # <<>>
    <2>1. Forward(Bytes(p, r))
      BY <1>1, <1>6 DEF Flush
    <2>2. PICK t \in Nat : /\ ReplayEnd <= t /\ t <= r
                           /\ target' = Bytes(ReplayEnd, t) /\ held' = Bytes(t, r)
                           /\ AtBoundary(t)' /\ serving' \in {"pushing", "pipe"}
      BY <1>1, <1>2, <1>4, <2>1, Forwards DEF RelayTypes
    <2>3. Piping(t)'
      BY <1>2, <1>3, <2>2 DEF Piping
    <2> QED  BY <2>2, <2>3 DEF Cut, Replay, Piped
  <1> QED  BY <1>5, <1>6

LEMMA TakeFrameStep ==
  ASSUME RelayTypes, NEW p \in Nat, Cut(p), TakeFrame
  PROVE  \E t \in Nat : Cut(t)'
  <1>0. Piping(p) /\ serving = "pipe" /\ framed \in Nat /\ frames \in Seq(Seq(Nat))
    BY DEF Cut, TakeFrame, Piped, RelayTypes
  <1>1. PICK r \in Nat :
          p <= r /\ held = Bytes(p, r) /\ buf = Bytes(r, r) /\ Waiting(r)
    BY <1>0 DEF Piping
  <1>2. PICK s \in Nat : r < s /\ Head(frames) = Bytes(r, s) /\ Waiting(s)'
    BY <1>0, <1>1, WaitingHead DEF TakeFrame, streamVars
  <1>3. buf' = Bytes(s, s)
    <2>1. r <= r /\ s <= s
      OBVIOUS
    <2>2. buf = <<>>
      BY <1>1, <2>1, BytesEmpty
    <2>3. Bytes(s, s) = <<>>
      BY <2>1, BytesEmpty
    <2> QED  BY <2>2, <2>3 DEF TakeFrame
  <1>4. ReplayEnd <= p /\ target = Bytes(ReplayEnd, p) /\ AtBoundary(p) /\ r <= s
    BY <1>2 DEF Cut
  <1>5. Forward(Bytes(r, s)) /\ UNCHANGED <<rewriting, said, ends, disabled, rewritten>>
    BY <1>2 DEF TakeFrame, streamVars
  <1>6. PICK t \in Nat : /\ ReplayEnd <= t /\ t <= s
                         /\ target' = Bytes(ReplayEnd, t) /\ held' = Bytes(t, s)
                         /\ AtBoundary(t)' /\ serving' \in {"pushing", "pipe"}
    BY <1>1, <1>4, <1>5, Forwards DEF RelayTypes
  <1>7. Piping(t)'
    BY <1>2, <1>3, <1>6 DEF Piping
  <1> QED  BY <1>6, <1>7 DEF Cut, Replay, Piped

(* The rewriter, holding bytes, is at the beginning of the message that    *)
(* takeMessage looks at.                                                   *)
LEMMA AtFirstHeld ==
  ASSUME RelayTypes, NEW p \in Nat, Cut(p), serving = "pushing", held # <<>>
  PROVE  \E q \in Nat :
           /\ p < q /\ held = Bytes(p, q) /\ buf = Bytes(q, q) /\ Waiting(q)
           /\ rewriting /\ ~disabled /\ FirstHeld \in Messages
           /\ p = End(FirstHeld - 1) /\ Parsed(FirstHeld)
  <1>0. framed \in Nat /\ framed <= End(MaxMessages) /\ frames \in Seq(Seq(Nat))
    BY DEF RelayTypes
  <1>1. PICK q \in Nat :
          p <= q /\ held = Bytes(p, q) /\ buf = Bytes(q, q) /\ Waiting(q)
    <2>1. Piping(p)
      BY DEF Cut, Piped
    <2> QED  BY <2>1 DEF Piping
  <1>2. p < q /\ q <= framed
    BY <1>0, <1>1, BytesEmpty, WaitingEnd
  <1>3. rewriting /\ ~disabled
    BY DEF Cut, AtBoundary, RelayTypes
  <1>4. PICK u \in 1 .. MaxMessages + 1 : p = End(u - 1) /\ Parsed(u)
    BY <1>3 DEF Cut, AtBoundary
  <1>5. /\ \A m \in 0 .. MaxMessages : End(m) \in Nat
        /\ \A l, m \in 0 .. MaxMessages : l < m => End(l) < End(m)
    BY EndsGrow DEF RelayTypes
  <1>6. u \in Messages
    <2>1. u # MaxMessages + 1
      <3>1. SUFFICES ASSUME u = MaxMessages + 1 PROVE FALSE
        OBVIOUS
      <3>2. u - 1 = MaxMessages /\ MaxMessages \in 0 .. MaxMessages
        BY <3>1, BoundsAssumption
      <3>3. p = End(MaxMessages) /\ End(MaxMessages) \in Nat
        BY <1>4, <1>5, <3>2
      <3> QED  BY <1>0, <1>2, <3>3
    <2> QED  BY <2>1, BoundsAssumption DEF Messages
  <1>7. held[1] = p + 1
    <2>1. 1 \in 1 .. q - p
      BY <1>2
    <2> QED  BY <1>1, <2>1, BytesProperties
  <1>8. held[1] \in End(u - 1) + 1 .. End(u)
    <2>1. u - 1 \in 0 .. MaxMessages /\ u \in 0 .. MaxMessages /\ u - 1 < u
      BY <1>6, BoundsAssumption DEF Messages
    <2>2. End(u - 1) < End(u) /\ End(u) \in Nat
      BY <1>5, <2>1
    <2> QED  BY <1>4, <1>7, <2>2
  <1>9. ASSUME NEW m \in Messages, held[1] \in End(m - 1) + 1 .. End(m) PROVE m = u
    <2>1. /\ u - 1 \in 0 .. MaxMessages /\ u \in 0 .. MaxMessages
          /\ m - 1 \in 0 .. MaxMessages /\ m \in 0 .. MaxMessages
      BY <1>6, BoundsAssumption DEF Messages
    <2>2. /\ End(m - 1) \in Nat /\ End(m) \in Nat
          /\ End(m - 1) <= p /\ p < End(m)
      BY <1>5, <1>7, <1>9, <2>1
    <2>3. ~(m <= u - 1)
      <3>1. SUFFICES ASSUME m <= u - 1 PROVE FALSE
        OBVIOUS
      <3>2. End(m) <= End(u - 1)
        BY <1>5, <2>1, <3>1
      <3> QED  BY <1>4, <2>2, <3>2
    <2>4. ~(u <= m - 1)
      <3>1. SUFFICES ASSUME u <= m - 1 PROVE FALSE
        OBVIOUS
      <3>2. End(u) <= End(m - 1) /\ End(u) \in Nat
        BY <1>5, <2>1, <3>1
      <3>3. p < End(u)
        BY <1>7, <1>8, <3>2
      <3> QED  BY <2>2, <3>2, <3>3
    <2> QED  BY <2>1, <2>3, <2>4
  <1>10. FirstHeld = u
    BY <1>6, <1>8, <1>9 DEF FirstHeld
  <1> QED  BY <1>1, <1>2, <1>3, <1>4, <1>6, <1>10

LEMMA TakeMessageStep ==
  ASSUME RelayTypes, NEW p \in Nat, Cut(p), TakeMessage
  PROVE  \E t \in Nat : Cut(t)'
  <1>1. PICK q \in Nat, u \in Messages :
           /\ p < q /\ held = Bytes(p, q) /\ buf = Bytes(q, q) /\ Waiting(q)
           /\ rewriting /\ ~disabled /\ u = FirstHeld
           /\ p = End(u - 1) /\ Parsed(u)
    BY AtFirstHeld DEF TakeMessage, Whole
  <1>2. /\ u - 1 \in 0 .. MaxMessages /\ u \in 0 .. MaxMessages
        /\ u + 1 \in 1 .. MaxMessages + 1 /\ (u + 1) - 1 = u
    BY <1>1, BoundsAssumption DEF Messages
  <1>3. PICK t \in Nat : t = End(u) /\ p < t /\ ReplayEnd <= t
    BY <1>1, <1>2, EndsGrow DEF RelayTypes
  <1>4. Length = t - p /\ t <= q
    <2>1. Length = t - p
      BY <1>1, <1>3 DEF Length
    <2>2. Len(held) = q - p
      <3>1. p <= q
        BY <1>1
      <3> QED  BY <1>1, <3>1, BytesProperties
    <2>3. Len(held) >= Length
      BY DEF TakeMessage, Whole
    <2> QED  BY <1>3, <2>1, <2>2, <2>3
  <1>5. SubSeq(held, 1, Length) = MessageBytes(u) /\ MessageBytes(u) = Bytes(p, t)
    <2>1. p <= t /\ MessageBytes(u) = Bytes(p, t)
      BY <1>1, <1>3 DEF MessageBytes
    <2>2. SubSeq(Bytes(p, q), 1, t - p) = Bytes(p, t)
      BY <1>3, <1>4, <2>1, BytesSplit
    <2> QED  BY <1>1, <1>4, <2>1, <2>2
  <1>6. held' = Bytes(t, q)
    <2>1. p <= t
      BY <1>3
    <2>2. SubSeq(Bytes(p, q), (t - p) + 1, Len(Bytes(p, q))) = Bytes(t, q)
      BY <1>3, <1>4, <2>1, BytesSplit
    <2> QED  BY <1>1, <1>4, <2>2 DEF TakeMessage
  <1>7. target' = Bytes(ReplayEnd, t)
    <2>1. ReplayEnd \in Nat /\ ReplayEnd <= p /\ p <= t
      BY <1>3 DEF Cut, ReplayEnd
    <2>2. Bytes(ReplayEnd, p) \o Bytes(p, t) = Bytes(ReplayEnd, t)
      BY <1>3, <2>1, BytesJoin
    <2>3. target' = target \o MessageBytes(u)
      BY <1>5 DEF TakeMessage, Write
    <2> QED  BY <1>5, <2>2, <2>3 DEF Cut
  <1>8. /\ UNCHANGED <<rewriting, said, ends, disabled, serving, buf>> /\ Waiting(q)'
        /\ serving = "pushing" /\ said[u] \in {"setEncodings", "other"}
        /\ rewritten' = IF said[u] = "setEncodings" THEN rewritten \cup {MessageBytes(u)}
                        ELSE rewritten
    BY <1>1, <1>5, WaitingKept DEF TakeMessage, streamVars, Whole, Type
  <1>9. Parsed(u + 1)'
    <2>1. \A m \in Messages : m < u + 1 <=> m < u \/ m = u
      BY <1>1 DEF Messages
    <2>2. \A m \in Messages : m < u + 1 => said'[m] # "unknown"
      BY <1>1, <1>8, <2>1 DEF Parsed
    <2>3. \A m : MessageBytes(m)' = MessageBytes(m)
      BY <1>8 DEF MessageBytes, End
    <2>4. rewritten' = {MessageBytes(l) : l \in {m \in Messages :
                                                   m < u + 1 /\ said[m] = "setEncodings"}}
      BY <1>1, <1>8, <2>1 DEF Parsed
    <2> QED  BY <1>8, <2>2, <2>3, <2>4 DEF Parsed
  <1>10. AtBoundary(t)'
    <2>1. t = End((u + 1) - 1)'
      BY <1>2, <1>3, <1>8 DEF End
    <2> QED  BY <1>1, <1>2, <1>8, <1>9, <2>1 DEF AtBoundary
  <1>11. Piping(t)'
    BY <1>1, <1>3, <1>4, <1>6, <1>8 DEF Piping
  <1> QED  BY <1>3, <1>7, <1>8, <1>10, <1>11 DEF Cut, Replay, Piped

LEMMA DisableStep ==
  ASSUME RelayTypes, NEW p \in Nat, Cut(p), Disable
  PROVE  \E t \in Nat : Cut(t)'
  <1>1. PICK q \in Nat :
           /\ p < q /\ held = Bytes(p, q) /\ buf = Bytes(q, q) /\ Waiting(q)
           /\ rewriting /\ ~disabled /\ FirstHeld \in Messages
           /\ p = End(FirstHeld - 1) /\ Parsed(FirstHeld)
    BY AtFirstHeld DEF Disable, Unknown
  <1>2. ReplayEnd \in Nat /\ ReplayEnd <= p /\ p <= q /\ ReplayEnd <= q /\ q <= q
    BY <1>1 DEF Cut, ReplayEnd
  <1>3. target' = Bytes(ReplayEnd, q)
    <2>1. Bytes(ReplayEnd, p) \o Bytes(p, q) = Bytes(ReplayEnd, q)
      BY <1>2, BytesJoin
    <2> QED  BY <1>1, <2>1 DEF Cut, Disable, Write
  <1>4. /\ UNCHANGED <<rewriting, said, ends, serving, buf, rewritten>> /\ Waiting(q)'
        /\ serving = "pushing" /\ said[FirstHeld] = "unknown" /\ disabled' /\ held' = <<>>
    BY <1>1, WaitingKept DEF Disable, streamVars, Unknown, Type
  <1>5. AtBoundary(q)'
    BY <1>1, <1>4 DEF AtBoundary, Parsed, MessageBytes, End
  <1>6. held' = Bytes(q, q)
    BY <1>2, <1>4, BytesEmpty
  <1>7. Piping(q)'
    BY <1>1, <1>2, <1>4, <1>6 DEF Piping
  <1> QED  BY <1>2, <1>3, <1>4, <1>5, <1>7 DEF Cut, Replay, Piped

LEMMA PushEndsStep ==
  ASSUME RelayTypes, NEW p \in Nat, Cut(p), PushEnds
  PROVE  Cut(p)'
  <1>1. Piping(p) /\ UNCHANGED <<held, buf, target, frames, framed>>
    BY DEF Cut, PushEnds, Piped, streamVars, targetVars
  <1>2. \A r \in Nat : Waiting(r) => Waiting(r)'
    BY <1>1, WaitingKept
  <1>3. Piping(p)'
    BY <1>1, <1>2 DEF Piping, PushEnds
  <1>4. AtBoundary(p)'
    BY BoundaryKept DEF Cut, PushEnds, streamVars, targetVars
  <1> QED  BY <1>1, <1>3, <1>4 DEF Cut, PushEnds, Replay, Piped

LEMMA ServeEndsStep ==
  ASSUME RelayTypes, NEW p \in Nat, Cut(p), ServeEnds
  PROVE  Cut(p)'
  <1>1. p = ReplayEnd \/ p <= framed
    <2>1. CASE serving \in Replay
      BY <2>1 DEF Cut, Replaying
    <2>2. CASE serving \in Piped
      <3>1. PICK q, r \in Nat : p <= q /\ q <= r /\ Waiting(r)
        BY <2>2 DEF Cut, Piping
      <3>2. framed \in Nat /\ r <= framed
        BY <3>1, WaitingEnd DEF RelayTypes
      <3> QED  BY <3>1, <3>2
    <2> QED  BY <2>1, <2>2 DEF ServeEnds, RelayTypes
  <1>2. AtBoundary(p)'
    BY BoundaryKept DEF Cut, ServeEnds, streamVars, targetVars
  <1> QED  BY <1>1, <1>2 DEF Cut, ServeEnds, Replay, Piped, streamVars, targetVars

LEMMA RelayInvariance == RelaySpec => []RelayInv
  <1>1. ASSUME RelayInv, [RelayNext]_relayVars PROVE RelayInv'
    <2>0. RelayTypes /\ RelayTypes'
      BY <1>1, RelayTypesKept DEF RelayInv
    <2>1. PICK p \in Nat : Cut(p)
      BY <1>1 DEF RelayInv
    <2>2. CASE ClientSends
      <3>1. Cut(p)'
        BY <2>0, <2>1, <2>2, StillStep DEF ClientSends, targetVars
      <3> QED  BY <2>0, <3>1 DEF RelayInv
    <2>3. CASE StreamEnds \/ ConnectionDrops \/ UNCHANGED relayVars
      <3>1. Cut(p)'
        BY <2>0, <2>1, <2>3, StillStep
          DEF StreamEnds, ConnectionDrops, relayVars, streamVars, targetVars
      <3> QED  BY <2>0, <3>1 DEF RelayInv
    <2>4. CASE Fill
      BY <2>0, <2>1, <2>4, FillStep DEF RelayInv
    <2>5. CASE ReplayStep
      BY <2>0, <2>1, <2>5, ReplayStepStep DEF RelayInv
    <2>6. CASE Flush
      BY <2>0, <2>1, <2>6, FlushStep DEF RelayInv
    <2>7. CASE TakeFrame
      BY <2>0, <2>1, <2>7, TakeFrameStep DEF RelayInv
    <2>8. CASE TakeMessage
      BY <2>0, <2>1, <2>8, TakeMessageStep DEF RelayInv
    <2>9. CASE Disable
      BY <2>0, <2>1, <2>9, DisableStep DEF RelayInv
    <2>10. CASE PushEnds
      BY <2>0, <2>1, <2>10, PushEndsStep DEF RelayInv
    <2>11. CASE ServeEnds
      BY <2>0, <2>1, <2>11, ServeEndsStep DEF RelayInv
    <2> QED  BY <1>1, <2>2, <2>3, <2>4, <2>5, <2>6, <2>7, <2>8, <2>9, <2>10, <2>11
             DEF RelayNext, Relay
  <1> QED  BY <1>1, RelayInit_Inv, PTL DEF RelaySpec

(* BridgeRelay.StreamIntact: for messages of any number and any lengths,   *)
(* the relay loses, repeats and reorders no byte.  The reached bytes are   *)
(* those where the frames were cut.                                        *)
THEOREM RelayStreamIntact == RelaySpec => []StreamIntact
  <1>1. RelayInv => StreamIntact
    <2> SUFFICES ASSUME RelayInv PROVE StreamIntact
      OBVIOUS
    <2>1. framed \in Nat /\ frames \in Seq(Seq(Nat)) /\ ReplayEnd \in Nat
      BY DEF RelayInv, RelayTypes, ReplayEnd
    <2>2. PICK p \in Nat : Cut(p)
      BY DEF RelayInv
    <2>3. /\ ReplayEnd <= p /\ target = Bytes(ReplayEnd, p)
          /\ Len(target) = p - ReplayEnd /\ ReplayEnd + Len(target) = p
      <3>1. ReplayEnd <= p /\ target = Bytes(ReplayEnd, p)
        BY <2>2 DEF Cut
      <3>2. Len(target) = p - ReplayEnd
        BY <2>1, <3>1, BytesProperties
      <3> QED  BY <2>1, <3>1, <3>2
    <2>4. ASSUME serving \in Piped
          PROVE  /\ target \o held \o buf = Bytes(ReplayEnd, Relayed)
                 /\ \A i \in DOMAIN frames : frames[i] = Bytes(Reached(i - 1), Reached(i))
                 /\ Reached(Len(frames)) = framed
      <3>1. PICK q, r \in Nat : /\ p <= q /\ q <= r /\ held = Bytes(p, q)
                                /\ buf = Bytes(q, r) /\ Waiting(r)
        BY <2>2, <2>4 DEF Cut, Piping
      <3>2. /\ ReplayEnd <= q /\ ReplayEnd <= r
        BY <2>1, <2>3, <3>1
      <3>3. target \o held \o buf = Bytes(ReplayEnd, r)
        <4>1. Bytes(ReplayEnd, p) \o Bytes(p, q) = Bytes(ReplayEnd, q)
          BY <2>1, <2>3, <3>1, BytesJoin
        <4>2. Bytes(ReplayEnd, q) \o Bytes(q, r) = Bytes(ReplayEnd, r)
          BY <2>1, <3>1, <3>2, BytesJoin
        <4> QED  BY <2>3, <3>1, <4>1, <4>2
      <3>4. Relayed = r
        <4>1. Len(Bytes(ReplayEnd, r)) = r - ReplayEnd
          BY <2>1, <3>2, BytesProperties
        <4> QED  BY <2>1, <3>3, <4>1 DEF Relayed
      <3>5. PICK cut \in [0 .. Len(frames) -> Nat] :
              /\ cut[0] = r /\ cut[Len(frames)] = framed
              /\ \A i, j \in 0 .. Len(frames) : i < j => cut[i] < cut[j]
              /\ \A i \in 1 .. Len(frames) : frames[i] = Bytes(cut[i - 1], cut[i])
        BY <3>1 DEF Waiting
      <3> DEFINE n == Len(frames)
      <3>6. n \in Nat /\ DOMAIN frames = 1 .. n /\ n \in 0 .. n
        BY <2>1, LenProperties
      <3>7. ASSUME NEW i \in 0 .. n PROVE Reached(i) = cut[i]
        <4>1. CASE i = 0
          BY <3>4, <3>5, <4>1 DEF Reached
        <4>2. CASE i # 0
          <5> HIDE DEF n
          <5>1. /\ i \in 1 .. n /\ i \in 0 .. n /\ i - 1 \in 0 .. n /\ i - 1 < i
            BY <3>6, <3>7, <4>2
          <5>2. cut \in [0 .. n -> Nat] /\ \A k, l \in 0 .. n : k < l => cut[k] < cut[l]
            BY <3>5 DEF n
          <5>3. PICK a, b \in Nat : a = cut[i - 1] /\ b = cut[i] /\ a < b
            BY <5>1, <5>2
          <5>4. frames[i] = Bytes(a, b)
            BY <3>5, <5>1, <5>3 DEF n
          <5>5. Len(frames[i]) = b - a /\ b - a \in 1 .. b - a /\ frames[i][b - a] = a + (b - a)
            <6>1. a <= b /\ b - a \in 1 .. b - a
              BY <5>3
            <6> QED  BY <5>4, <6>1, BytesProperties
          <5> QED  BY <4>2, <5>3, <5>5 DEF Reached
        <4> QED  BY <4>1, <4>2
      <3>8. ASSUME NEW i \in 1 .. n
            PROVE  frames[i] = Bytes(Reached(i - 1), Reached(i))
        <4>1. i \in 0 .. n /\ i - 1 \in 0 .. n
          BY <3>6
        <4>2. Reached(i) = cut[i] /\ Reached(i - 1) = cut[i - 1]
          BY <3>7, <4>1
        <4> QED  BY <3>5, <4>2
      <3> QED  BY <3>3, <3>4, <3>5, <3>6, <3>7, <3>8
    <2>5. ASSUME serving = "ended", target # <<>>
          PROVE  ReplayEnd + Len(target) <= framed
      <3>1. p # ReplayEnd
        BY <2>1, <2>3, <2>5, BytesEmpty
      <3> QED  BY <2>2, <2>3, <2>5, <3>1 DEF Cut
    <2> QED  BY <2>3, <2>4, <2>5 DEF StreamIntact
  <1> QED  BY <1>1, RelayInvariance, PTL

(* BridgeRelay.RewrittenWhole: every SetEncodings ahead of the first       *)
(* unknown message is rewritten whole before a byte of it passes, and      *)
(* nothing else is, however the stream is cut.                             *)
THEOREM RelayRewrittenWhole == RelaySpec => []RewrittenWhole
  <1>1. RelayInv => RewrittenWhole
    <2> SUFFICES ASSUME RelayInv PROVE RewrittenWhole
      OBVIOUS
    <2>1. /\ rewriting \in BOOLEAN /\ disabled \in BOOLEAN /\ MaxMessages \in Nat
          /\ ReplayEnd \in Nat
      BY BoundsAssumption DEF RelayInv, RelayTypes, ReplayEnd
    <2>2. PICK p \in Nat : Cut(p)
      BY DEF RelayInv
    <2>3. /\ \A m \in 0 .. MaxMessages : End(m) \in Nat /\ End(m) >= ReplayEnd
          /\ \A l, m \in 0 .. MaxMessages : l < m => End(l) < End(m)
      BY EndsGrow DEF RelayInv, RelayTypes
    <2>4. ReplayEnd <= p /\ target = Bytes(ReplayEnd, p) /\ AtBoundary(p)
      BY <2>2 DEF Cut
    <2>5. ASSUME NEW m \in Messages
          PROVE  m \in 0 .. MaxMessages /\ m - 1 \in 0 .. MaxMessages /\ m - 1 < m
      BY <2>1 DEF Messages
    <2>6. ASSUME NEW l \in Messages, NEW m \in Messages, MessageBytes(l) = MessageBytes(m)
          PROVE  l = m
      <3>1. PICK a, b, c, d \in Nat : /\ a = End(l - 1) /\ b = End(l) /\ a < b
                                      /\ c = End(m - 1) /\ d = End(m) /\ c < d
        BY <2>3, <2>5
      <3>2. b = d
        BY <2>6, <3>1, BytesInjective DEF MessageBytes
      <3>3. ~(End(l) < End(m)) /\ ~(End(m) < End(l))
        BY <3>1, <3>2
      <3>4. l \in 0 .. MaxMessages /\ m \in 0 .. MaxMessages
        BY <2>5
      <3>5. ~(l < m) /\ ~(m < l)
        BY <2>3, <3>3, <3>4
      <3> QED  BY <3>5 DEF Messages
    <2>7. ASSUME NEW m \in Messages, Passing(m) PROVE End(m - 1) < p
      <3>1. PICK i \in DOMAIN target : target[i] \in End(m - 1) + 1 .. End(m)
        BY <2>7 DEF Passing
      <3>2. PICK a, b \in Nat : a = End(m - 1) /\ b = End(m)
        BY <2>3, <2>5
      <3>3. DOMAIN target = 1 .. p - ReplayEnd /\ \A j \in 1 .. p - ReplayEnd :
                                                    target[j] = ReplayEnd + j
        BY <2>1, <2>4, BytesProperties, LenProperties
      <3>4. target[i] <= p /\ target[i] \in Nat
        BY <2>1, <2>4, <3>1, <3>3
      <3> QED  BY <3>1, <3>2, <3>4
    <2>8. \A u : Parsed(u) => \A w \in rewritten :
            \E m \in Messages : said[m] = "setEncodings" /\ w = MessageBytes(m)
      BY DEF Parsed
    <2>9. ASSUME NEW u \in Nat, Parsed(u), NEW m \in Messages, said[m] = "setEncodings"
          PROVE  MessageBytes(m) \in rewritten <=> m < u
      BY <2>6, <2>9 DEF Parsed
    <2>10. CASE ~rewriting
      <3>1. rewritten = {}
        BY <2>4, <2>10 DEF AtBoundary
      <3> QED  BY <2>10, <3>1 DEF RewrittenWhole
    <2>11. CASE rewriting /\ ~disabled
      <3>1. PICK u \in 1 .. MaxMessages + 1 : p = End(u - 1) /\ Parsed(u)
        BY <2>4, <2>11 DEF AtBoundary
      <3>2. u \in Nat /\ u - 1 \in 0 .. MaxMessages
        BY <2>1, <3>1
      <3>3. ASSUME NEW m \in Messages, said[m] = "setEncodings", Passing(m)
            PROVE  m < u
        <4>1. End(m - 1) < End(u - 1)
          BY <2>7, <3>1, <3>3
        <4>2. ~(u - 1 < m - 1) /\ u - 1 # m - 1
          BY <2>3, <2>5, <3>2, <4>1
        <4> QED  BY <2>5, <3>2, <4>2
      <3>4. ASSUME NEW m \in Messages, m < u PROVE ParsedBefore(m)
        BY <3>1, <3>2, <3>4 DEF ParsedBefore, Parsed, Messages
      <3> QED  BY <2>8, <2>9, <2>11, <3>1, <3>2, <3>3, <3>4 DEF RewrittenWhole
    <2>12. CASE disabled
      <3>1. PICK u \in Messages : said[u] = "unknown" /\ Parsed(u)
        BY <2>4, <2>12 DEF AtBoundary
      <3>2. u \in Nat /\ rewriting
        BY <2>4, <2>12 DEF AtBoundary, Messages
      <3>3. ASSUME NEW m \in Messages, said[m] = "setEncodings"
            PROVE  m < u <=> ParsedBefore(m)
        <4>1. m \in Nat /\ m # u
          BY <3>1, <3>3 DEF Messages
        <4>2. m < u => ParsedBefore(m)
          BY <3>1, <3>2, <4>1 DEF ParsedBefore, Parsed, Messages
        <4>3. u < m => ~ParsedBefore(m)
          BY <3>1 DEF ParsedBefore
        <4> QED  BY <3>2, <4>1, <4>2, <4>3
      <3> QED  BY <2>8, <2>9, <3>1, <3>2, <3>3 DEF RewrittenWhole
    <2> QED  BY <2>1, <2>10, <2>11, <2>12
  <1> QED  BY <1>1, RelayInvariance, PTL

-----------------------------------------------------------------------------
(* A piece of a sequence has the elements of the sequence.                 *)
LEMMA PieceTyped ==
  ASSUME NEW S, NEW s \in Seq(S), NEW m \in Int, NEW n \in Int, 1 <= m, n <= Len(s)
  PROVE  SubSeq(s, m, n) \in Seq(S)
<1>1. \A i \in m .. n : s[i] \in S
  OBVIOUS
<1> QED
  BY <1>1, SubSeqProperties

(* More bytes are sent, and what was sent stays so.                        *)
LEMMA SentGrows ==
  ASSUME framed \in Nat, framed' \in Nat, framed <= framed'
  PROVE  Seq(1 .. framed) \subseteq Seq((1 .. framed)')
<1>1. 1 .. framed \subseteq 1 .. framed'
  OBVIOUS
<1> QED
  BY <1>1

(* The bytes that the relay has: only such as the client has sent.         *)
BytesTyped ==
  /\ frames \in Seq(Seq(1 .. framed) \ {<<>>})
  /\ buf \in Seq(1 .. framed) /\ held \in Seq(1 .. framed)
  /\ target \in Seq(1 .. framed)
  /\ \A w \in rewritten : w \in Seq(1 .. framed)

(* Forwarding a chunk moves it on, or into the rewriter.                   *)
LEMMA ForwardTyped ==
  ASSUME BytesTyped, NEW chunk \in Seq(1 .. framed), Forward(chunk)
  PROVE  held' \in Seq(1 .. framed) /\ target' \in Seq(1 .. framed)
  BY ConcatProperties DEF BytesTyped, Forward, Write

(* RelayInv is there for the length of the message that is taken off.      *)
LEMMA BytesTypedKept ==
  ASSUME RelayInv, BytesTyped, [RelayNext]_relayVars PROVE BytesTyped'
<1> DEFINE S == Seq(1 .. framed)
<1>0. framed \in Nat /\ End(MaxMessages) \in Nat /\ MaxMessages \in Nat
  <2>1. MaxMessages \in 0 .. MaxMessages /\ MaxMessages \in Nat
    BY BoundsAssumption
  <2> QED
    BY <2>1, EndsGrow DEF RelayInv, RelayTypes
<1>1. CASE ClientSends
  <2>1. PICK n \in framed + 1 .. End(MaxMessages) :
          /\ frames' = Append(frames, Bytes(framed, n)) /\ framed' = n
          /\ UNCHANGED <<buf, held, target, rewritten>>
    BY <1>1 DEF ClientSends, targetVars
  <2>2. n \in Nat /\ framed < n
    BY <1>0
  <2>3. S \subseteq S'
    BY <1>0, <2>1, <2>2, SentGrows
  <2>4. Bytes(framed, n) \in S' \ {<<>>}
    <3>1. framed <= n
      BY <1>0, <2>2
    <3>2. Bytes(framed, n) # <<>>
      BY <1>0, <2>2, <3>1, BytesEmpty
    <3>3. \A i \in 1 .. n - framed : framed + i \in 1 .. n
      BY <1>0, <2>2
    <3>4. n - framed \in Nat
      BY <1>0, <2>2
    <3>5. Bytes(framed, n) \in Seq(1 .. n)
      BY <3>3, <3>4 DEF Bytes
    <3> QED
      BY <2>1, <3>2, <3>5
  <2>5. frames \in Seq(S' \ {<<>>})
    <3>1. S \ {<<>>} \subseteq S' \ {<<>>}
      BY <2>3
    <3> HIDE DEF S
    <3>2. frames \in Seq(S \ {<<>>})
      BY DEF BytesTyped, S
    <3> QED
      BY <3>1, <3>2
  <2>6. frames' \in Seq(S' \ {<<>>})
    <3> HIDE DEF S
    <3> QED
      BY <2>1, <2>4, <2>5, AppendProperties
  <2> QED
    BY <2>1, <2>3, <2>6 DEF BytesTyped
<1>2. ASSUME frames # <<>>, frames' = Tail(frames)
      PROVE  frames' \in Seq(S \ {<<>>}) /\ Head(frames) \in S
  <2> HIDE DEF S
  <2>1. frames \in Seq(S \ {<<>>})
    BY DEF BytesTyped, S
  <2>2. Head(frames) \in S \ {<<>>} /\ Tail(frames) \in Seq(S \ {<<>>})
    BY <1>2, <2>1, HeadTailProperties
  <2> QED
    BY <1>2, <2>2
<1>3. CASE Fill
  <2>1. frames' \in Seq(S \ {<<>>}) /\ Head(frames) \in S
    BY <1>2, <1>3 DEF Fill
  <2>2. buf \o Head(frames) \in S
    BY <2>1, ConcatProperties DEF BytesTyped
  <2> QED
    BY <1>3, <2>1, <2>2 DEF Fill, BytesTyped, streamVars, targetVars
<1>4. CASE ReplayStep
  <2>1. SubSeq(buf, Size(serving) + 1, Len(buf)) \in S
    <3>1. buf \in S /\ Len(buf) \in Nat
      BY DEF BytesTyped
    <3>2. PICK k \in Int : k = Size(serving) + 1 /\ 1 <= k
      BY DEF Size
    <3>3. Len(buf) \in Int /\ Len(buf) <= Len(buf)
      BY <3>1
    <3>4. SubSeq(buf, k, Len(buf)) \in S
      BY <3>1, <3>2, <3>3, PieceTyped
    <3> QED
      BY <3>2, <3>4
  <2> QED
    BY <1>4, <2>1 DEF ReplayStep, BytesTyped, streamVars, targetVars
<1>5. CASE Flush
  <2>1. held' \in S /\ target' \in S
    <3>1. CASE buf = <<>>
      BY <1>5, <3>1 DEF Flush, BytesTyped
    <3>2. CASE buf # <<>>
      BY <1>5, <3>2, ForwardTyped DEF Flush, BytesTyped
    <3> QED
      BY <3>1, <3>2
  <2>2. buf' \in S
    BY <1>5, EmptySeq DEF Flush
  <2> QED
    BY <1>5, <2>1, <2>2 DEF Flush, BytesTyped, streamVars
<1>6. CASE TakeFrame
  <2>1. frames' \in Seq(S \ {<<>>}) /\ Head(frames) \in S
    BY <1>2, <1>6 DEF TakeFrame
  <2>2. held' \in S /\ target' \in S
    BY <1>6, <2>1, ForwardTyped DEF TakeFrame
  <2> QED
    BY <1>6, <2>1, <2>2 DEF TakeFrame, BytesTyped, streamVars
<1>7. CASE TakeMessage
  <2>1. Length \in Nat
    <3>1. PICK p \in Nat : Cut(p)
      BY DEF RelayInv
    <3>2. PICK u \in Messages : u = FirstHeld /\ u \in Nat
      BY <1>7, <3>1, AtFirstHeld DEF TakeMessage, Whole, RelayInv, Messages
    <3>3. u - 1 \in 0 .. MaxMessages /\ u \in 0 .. MaxMessages /\ u - 1 < u
      BY <1>0, <3>2 DEF Messages
    <3>4. End(u - 1) \in Nat /\ End(u) \in Nat /\ End(u - 1) < End(u)
      BY <3>3, EndsGrow DEF RelayInv, RelayTypes
    <3> QED
      BY <3>2, <3>4 DEF Length
  <2>2. held \in S /\ Len(held) \in Nat /\ Len(held) >= Length
    BY <1>7 DEF BytesTyped, TakeMessage, Whole
  <2>3. /\ 1 \in Int /\ Length \in Int /\ Length + 1 \in Int /\ Len(held) \in Int
        /\ 1 <= 1 /\ 1 <= Length + 1 /\ Length <= Len(held) /\ Len(held) <= Len(held)
    BY <2>1, <2>2
  <2>4. SubSeq(held, 1, Length) \in S /\ SubSeq(held, Length + 1, Len(held)) \in S
    BY <2>2, <2>3, PieceTyped
  <2>5. target \o SubSeq(held, 1, Length) \in S
    BY <2>4, ConcatProperties DEF BytesTyped
  <2>6. /\ target' \in S /\ held' \in S /\ UNCHANGED <<framed, frames, buf>>
        /\ rewritten' \in {rewritten, rewritten \cup {SubSeq(held, 1, Length)}}
    BY <1>7, <2>4, <2>5 DEF TakeMessage, Write, streamVars
  <2> QED
    BY <2>4, <2>6 DEF BytesTyped
<1>8. CASE Disable
  <2>1. target \o held \in S /\ <<>> \in S
    BY ConcatProperties, EmptySeq DEF BytesTyped
  <2> QED
    BY <1>8, <2>1 DEF Disable, Write, BytesTyped, streamVars
<1>9. CASE StreamEnds \/ ConnectionDrops \/ PushEnds \/ ServeEnds \/ UNCHANGED relayVars
  BY <1>9 DEF StreamEnds, ConnectionDrops, PushEnds, ServeEnds, relayVars, streamVars,
              targetVars, BytesTyped
<1> QED
  BY <1>1, <1>3, <1>4, <1>5, <1>6, <1>7, <1>8, <1>9 DEF RelayNext, Relay

(* Every variable of the relay has its type: in particular, no byte is in  *)
(* it that was not sent.                                                   *)
THEOREM RelayTyped == RelaySpec => []RelayTypeOK
<1> DEFINE Rest == /\ wrong \in {"nothing", "banner", "select"} /\ left \in BOOLEAN
                   /\ targetConn \in {"open", "dropped"}
<1>1. RelayInit => BytesTyped /\ Rest
  BY EmptySeq DEF RelayInit, BytesTyped
<1>2. RelayInv /\ BytesTyped /\ Rest /\ [RelayNext]_relayVars => (BytesTyped /\ Rest)'
  <2>1. Rest /\ [RelayNext]_relayVars => Rest'
    BY DEF RelayNext, Relay, ClientSends, StreamEnds, ConnectionDrops, Fill, ReplayStep,
           Flush, TakeFrame, TakeMessage, Disable, PushEnds, ServeEnds, relayVars,
           streamVars
  <2> QED
    BY <2>1, BytesTypedKept
<1>3. RelayInv /\ BytesTyped /\ Rest => RelayTypeOK
  <2>1. MaxMessages \in 0 .. MaxMessages
    BY BoundsAssumption
  <2> QED
    BY <2>1, EndsGrow DEF RelayInv, RelayTypes, BytesTyped, RelayTypeOK
<1> QED
  BY <1>1, <1>2, <1>3, RelayInvariance, RelayInit_Inv, PTL DEF RelaySpec

=============================================================================
