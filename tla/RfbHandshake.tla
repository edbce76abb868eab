---------------------------- MODULE RfbHandshake ----------------------------
(***************************************************************************)
(* internal/rfb: PerformHandshake, the client side of the RFB handshake,   *)
(* with a VNC server that follows the protocol at the other end.           *)
(*                                                                         *)
(* Two processes and a stream of messages in each direction.  A read waits *)
(* for one message of the server, under one deadline for the whole         *)
(* handshake.  The server may also stop answering or close the connection  *)
(* at any time.  What a message says is kept as far as the client looks at *)
(* it: the keys, challenges and geometry are left out.                     *)
(***************************************************************************)
EXTENDS Naturals, Sequences

CONSTANT
  Servers  \* the servers met: [minor, offers, valid]

(* minor is the version announced, 0 if the banner is none of RFB 3;       *)
(* offers the security types, before 3.7 the one demanded, none if the     *)
(* server refuses; valid whether its Apple DH parameters are.              *)
Types == {"none", "vncAuth", "appleDH", "other"}

ASSUME ServersAssumption ==
  /\ Servers \subseteq [minor : Nat, offers : SUBSET Types, valid : BOOLEAN]
  /\ \A s \in Servers : s.minor < 7 => \A t, u \in s.offers : t = u

VARIABLES
  server,       \* the server of this connection
  password,     \* HandshakeOptions: "" or "given", or too long for Apple DH
  stage,        \* where performHandshake is, which read comes next
  version,      \* the version negotiated, 0 before
  secType,      \* the security type selected
  outcome,      \* what PerformHandshake returned: "ok" or a kind of error
  deadline,     \* the deadline is set on the connection
  conn,         \* "open", "closed" by the client or "dropped" by the server
  toClient,     \* messages under way, oldest first
  toServer,
  at,           \* where the server is, which message it waits for
  accepted      \* it has accepted the client

clientVars == <<password, stage, version, secType, outcome, deadline>>
serverVars == <<server, at, accepted>>
vars == <<clientVars, serverVars, conn, toClient, toServer>>

Init ==
  /\ server \in Servers
  /\ password \in {"", "given", "tooLong"}
  /\ stage = "banner"
  /\ version = 0
  /\ secType = "none"
  /\ outcome = "pending"
  /\ deadline = TRUE
  /\ conn = "open"
  /\ toClient = <<>>
  /\ toServer = <<>>
  /\ at = "banner"
  /\ accepted = FALSE

-----------------------------------------------------------------------------
(* The client.  A read takes the next message; every step may end the      *)
(* handshake or write a message and go on to the next read.                *)
Message == Head(toClient)

Read(s) ==
  /\ stage = s
  /\ toClient # <<>>
  /\ toClient' = Tail(toClient)

GoesOn(next) == stage' = next /\ UNCHANGED <<outcome, deadline, conn, toServer>>

Writes(message, next) ==
  /\ stage' = next
  /\ toServer' = Append(toServer, message)
  /\ UNCHANGED <<outcome, deadline, conn>>

(* An error that is no timeout leaves the connection, and the deadline on  *)
(* it, to the caller.                                                      *)
Fails(kind) ==
  /\ stage' = "ended"
  /\ outcome' = kind
  /\ UNCHANGED <<deadline, conn, toServer>>

(* negotiateVersion: 3.4 to 3.6 are spoken as 3.3, all above 3.8 as 3.8.   *)
Negotiated(minor) == CASE minor < 7 -> 3 [] minor > 8 -> 8 [] OTHER -> minor

ReadBanner ==
  /\ Read("banner")
  /\ IF Message.minor >= 3
     THEN /\ version' = Negotiated(Message.minor)
          /\ Writes([is |-> "version", minor |-> version'], "types")
     ELSE Fails("protocol") /\ UNCHANGED version
  /\ UNCHANGED <<password, secType, serverVars>>

(* selectSecurityType, and validateV33Type where the server dictates.      *)
Selected(offers) ==
  IF version = 3
  THEN IF offers \subseteq {"none", "vncAuth"}
       THEN CHOOSE t \in offers : TRUE ELSE "unsupported"
  ELSE IF password # "" /\ "appleDH" \in offers THEN "appleDH"
  ELSE IF password # "" /\ "vncAuth" \in offers THEN "vncAuth"
  ELSE IF "none" \in offers THEN "none"
  ELSE IF offers \cap {"appleDH", "vncAuth"} # {} THEN "needsPassword"
  ELSE "unsupported"

(* What is read once the type is selected; None has no exchange, and in    *)
(* 3.3 no result either, so that ClientInit follows at once.               *)
FirstRead(t) == CASE t = "vncAuth" -> "challenge"
                  [] t = "appleDH" -> "parameters"
                  [] t = "none" -> "result"

(* Mutant: in 3.3 a result is waited for after None too.                   *)
MutReadTypes ==
  /\ Read("types")
  /\ LET t == Selected(Message.offers)
     IN IF Message.offers = {} THEN GoesOn("refusal") /\ UNCHANGED secType
        ELSE CASE t = "unsupported" -> Fails("protocol") /\ UNCHANGED secType
               [] t = "needsPassword" -> Fails("auth") /\ UNCHANGED secType
               [] OTHER ->
             /\ secType' = t
             /\ IF version # 3 THEN Writes([is |-> "selection", type |-> t], FirstRead(t))
                ELSE GoesOn(FirstRead(t))
  /\ UNCHANGED <<password, version, serverVars>>

(* readSecurityTypes up to the first step of performAuth.  No types (or    *)
(* type 0) mean that the server refuses, and says why.                     *)
ReadTypes ==
  /\ Read("types")
  /\ LET t == Selected(Message.offers)
     IN IF Message.offers = {} THEN GoesOn("refusal") /\ UNCHANGED secType
        ELSE CASE t = "unsupported" -> Fails("protocol") /\ UNCHANGED secType
               [] t = "needsPassword" -> Fails("auth") /\ UNCHANGED secType
               [] OTHER ->
             /\ secType' = t
             /\ IF version # 3 THEN Writes([is |-> "selection", type |-> t], FirstRead(t))
                ELSE IF t = "none" THEN Writes([is |-> "clientInit"], "serverInit")
                ELSE GoesOn(FirstRead(t))
  /\ UNCHANGED <<password, version, serverVars>>

(* Mutant: a refusal counts as failed authentication.                      *)
MutReadRefusal ==
  /\ Read("refusal")
  /\ Fails("auth")
  /\ UNCHANGED <<password, version, secType, serverVars>>

ReadRefusal ==
  /\ Read("refusal")
  /\ Fails("protocol")
  /\ UNCHANGED <<password, version, secType, serverVars>>

ReadChallenge ==
  /\ Read("challenge")
  /\ Writes([is |-> "response"], "result")
  /\ UNCHANGED <<password, version, secType, serverVars>>

(* performAppleDHAuth: bad parameters, or credentials that do not fit the  *)
(* block, end it before anything is sent.                                  *)
ReadParameters ==
  /\ Read("parameters")
  /\ IF ~Message.valid THEN Fails("protocol")
     ELSE IF password = "tooLong" THEN Fails("auth")
     ELSE Writes([is |-> "response"], "result")
  /\ UNCHANGED <<password, version, secType, serverVars>>

(* Mutant: the status of the result is not looked at.                      *)
MutReadResult ==
  /\ Read("result")
  /\ Writes([is |-> "clientInit"], "serverInit")
  /\ UNCHANGED <<password, version, secType, serverVars>>

(* The SecurityResult.  Only 3.8 sends a reason with a failure.            *)
ReadResult ==
  /\ Read("result")
  /\ IF Message.ok THEN Writes([is |-> "clientInit"], "serverInit")
     ELSE IF version >= 8 THEN GoesOn("reason")
     ELSE Fails("auth")
  /\ UNCHANGED <<password, version, secType, serverVars>>

ReadReason ==
  /\ Read("reason")
  /\ Fails("auth")
  /\ UNCHANGED <<password, version, secType, serverVars>>

(* Mutant: the deadline stays on the connection handed over.               *)
MutReadServerInit ==
  /\ Read("serverInit")
  /\ stage' = "ended"
  /\ outcome' = "ok"
  /\ UNCHANGED <<password, version, secType, deadline, serverVars, conn, toServer>>

(* Success: the deadline is lifted and the connection stays open.          *)
ReadServerInit ==
  /\ Read("serverInit")
  /\ stage' = "ended"
  /\ outcome' = "ok"
  /\ deadline' = FALSE
  /\ UNCHANGED <<password, version, secType, serverVars, conn, toServer>>

(* Mutant: the last read has no deadline.                                  *)
MutTimeOut ==
  /\ stage \notin {"ended", "serverInit"}
  /\ deadline
  /\ stage' = "ended"
  /\ outcome' = "timeout"
  /\ conn' = "closed"
  /\ UNCHANGED <<password, version, secType, deadline, serverVars, toClient,
                 toServer>>

(* The deadline passes, however far the handshake is.                      *)
TimeOut ==
  /\ stage # "ended"
  /\ deadline
  /\ stage' = "ended"
  /\ outcome' = "timeout"
  /\ conn' = "closed"
  /\ UNCHANGED <<password, version, secType, deadline, serverVars, toClient,
                 toServer>>

(* A read or a write fails on the connection the server has closed; what   *)
(* it sent before may be lost with it.                                     *)
ConnectionFails ==
  /\ stage # "ended"
  /\ conn = "dropped"
  /\ Fails("connection")
  /\ UNCHANGED <<password, version, secType, serverVars, toClient>>

Client == \/ ReadBanner \/ ReadTypes \/ ReadRefusal \/ ReadChallenge
          \/ ReadParameters \/ ReadResult \/ ReadReason \/ ReadServerInit
          \/ TimeOut \/ ConnectionFails

-----------------------------------------------------------------------------
(* The server, as RFC 6143 has it: a process of its own, not in this       *)
(* repository.                                                             *)
Request == Head(toServer)

Receives(place) ==
  /\ conn = "open"
  /\ at = place
  /\ toServer # <<>>
  /\ toServer' = Tail(toServer)

Sends(messages) == toClient' = toClient \o messages

SendBanner ==
  /\ conn = "open"
  /\ at = "banner"
  /\ at' = "version"
  /\ Sends(<<[is |-> "banner", minor |-> server.minor]>>)
  /\ UNCHANGED <<clientVars, server, accepted, conn, toServer>>

(* What the server sends once the type is settled, in the version the      *)
(* client replied with.  A result after None is new in 3.8.                *)
Opening(t) ==
  CASE t = "vncAuth" -> <<[is |-> "challenge"]>>
    [] t = "appleDH" -> <<[is |-> "parameters", valid |-> server.valid]>>
    [] t = "none" /\ version = 8 -> <<[is |-> "result", ok |-> TRUE]>>
    [] OTHER -> <<>>

Runs(t, before) ==
  /\ at' = IF t \in {"vncAuth", "appleDH"} THEN "response" ELSE "clientInit"
  /\ accepted' = (t = "none")
  /\ Sends(before \o Opening(t))

Offer == <<[is |-> "types", offers |-> server.offers]>>
Reason == <<[is |-> "reason"]>>

ReceiveVersion ==
  /\ Receives("version")
  /\ CASE server.offers = {} ->
            at' = "refused" /\ Sends(Offer \o Reason) /\ UNCHANGED accepted
       [] server.offers # {} /\ version # 3 ->
            at' = "selection" /\ Sends(Offer) /\ UNCHANGED accepted
       [] OTHER -> \E t \in server.offers : Runs(t, Offer)
  /\ UNCHANGED <<clientVars, server, conn>>

ReceiveSelection ==
  /\ Receives("selection")
  /\ Runs(Request.type, <<>>)
  /\ UNCHANGED <<clientVars, server, conn>>

ReceiveResponse ==
  /\ Receives("response")
  /\ \E ok \in BOOLEAN :
       /\ at' = IF ok THEN "clientInit" ELSE "refused"
       /\ accepted' = ok
       /\ Sends(<<[is |-> "result", ok |-> ok]>> \o
                IF ok \/ version < 8 THEN <<>> ELSE Reason)
  /\ UNCHANGED <<clientVars, server, conn>>

ReceiveClientInit ==
  /\ Receives("clientInit")
  /\ at' = "running"
  /\ Sends(<<[is |-> "serverInit"]>>)
  /\ UNCHANGED <<clientVars, server, accepted, conn>>

ServerStalls ==
  /\ at \notin {"running", "refused", "stalled"}
  /\ at' = "stalled"
  /\ UNCHANGED <<clientVars, server, accepted, conn, toClient, toServer>>

ServerDrops ==
  /\ conn = "open"
  /\ conn' = "dropped"
  /\ UNCHANGED <<clientVars, serverVars, toClient, toServer>>

Server == \/ SendBanner \/ ReceiveVersion \/ ReceiveSelection
          \/ ReceiveResponse \/ ReceiveClientInit \/ ServerStalls \/ ServerDrops

Next == Client \/ Server

Spec == Init /\ [][Next]_vars

(* Only the clock is relied on: the deadline passes.                       *)
FairSpec == Spec /\ WF_vars(TimeOut)

-----------------------------------------------------------------------------
Reads == {"banner", "types", "refusal", "challenge", "parameters", "result",
          "reason", "serverInit"}

(* What the two send one another.                                          *)
FromServer ==
  [is : {"banner"}, minor : Nat] \cup [is : {"types"}, offers : SUBSET Types]
    \cup [is : {"parameters"}, valid : BOOLEAN] \cup [is : {"result"}, ok : BOOLEAN]
    \cup [is : {"challenge", "reason", "serverInit"}]
FromClient ==
  [is : {"version"}, minor : {3, 7, 8}] \cup [is : {"selection"}, type : Types]
    \cup [is : {"response", "clientInit"}]

(* Every variable has its type, and the client reads only while pending.   *)
TypeOK ==
  /\ server \in Servers
  /\ password \in {"", "given", "tooLong"}
  /\ stage \in Reads \cup {"ended"}
  /\ version \in {0, 3, 7, 8}
  /\ secType \in Types
  /\ outcome \in {"pending", "ok", "protocol", "auth", "timeout", "connection"}
  /\ (outcome = "pending") <=> (stage # "ended")
  /\ deadline \in BOOLEAN
  /\ conn \in {"open", "closed", "dropped"}
  /\ toClient \in Seq(FromServer) /\ toServer \in Seq(FromClient)
  /\ at \in {"banner", "version", "selection", "response", "clientInit",
              "running", "refused", "stalled"}
  /\ accepted \in BOOLEAN

(* The client reads what the server sends, message by message, in every    *)
(* version: it never takes one part of the handshake for another.          *)
InStep ==
  stage # "ended" /\ toClient # <<>> =>
    Message.is = IF stage = "refusal" THEN "reason" ELSE stage

(* No handshake hangs: client and server never both wait with nothing      *)
(* under way between them, which only the deadline would end.              *)
NoMutualWait ==
  ~ /\ stage # "ended"
    /\ at \notin {"banner", "stalled"}
    /\ conn = "open"
    /\ toClient = <<>> /\ toServer = <<>>

(* Success is agreed on: the server has accepted this client and runs its  *)
(* session, every byte of the handshake is consumed, and the connection    *)
(* handed over is not going to be cut by the handshake's deadline.         *)
SuccessIsMutual ==
  outcome = "ok" =>
    /\ accepted /\ at = "running" /\ secType \in server.offers
    /\ toClient = <<>> /\ toServer = <<>>
    /\ ~deadline /\ conn # "closed"

(* An authentication error is about the credentials: the server judged     *)
(* them and said no, or they were missing or did not fit.                  *)
AuthErrorIsDeserved ==
  outcome = "auth" =>
    /\ ~accepted /\ server.offers # {}
    /\ password = "given" => at = "refused"

(* PerformHandshake returns, whatever the server does.                     *)
HandshakeEnds == <>(stage = "ended")

=============================================================================
