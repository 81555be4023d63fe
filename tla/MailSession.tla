---------------------------- MODULE MailSession ----------------------------
(***************************************************************************)
(* One submission of one message to a mail server                          *)
(* (notify/smtpTransport.ts): the conversation of SmtpSession.send, stage  *)
(* by stage, and the verdict with which SmtpTransport.send ends.           *)
(*                                                                         *)
(* The server is external.  It answers a command with success, with a      *)
(* temporary or with a lasting refusal, may announce that it shuts down in *)
(* the same segment, and the connection may break at any moment, also      *)
(* between the server's acceptance of the message and the arrival of its   *)
(* answer.  Message texts are left out.                                    *)
(***************************************************************************)
EXTENDS Naturals, Sequences

VARIABLES
    config,      \* SmtpConfig: secure, requireTls, user; and the address asked for
    exchange,    \* the exchange send is in, "over" after it returned or threw
    extensions,  \* what the server offered in its last answer to EHLO
    encrypted,   \* the socket in use is a TLS socket
    wire,        \* segments the server sent and the client has not received
    buffer,      \* replies received in a segment behind the one that was awaited
    taken,       \* the server accepted the message
    refused,     \* stages at which the server gave a lasting refusal
    inClear,     \* user and password were sent over a plain socket
    verdict      \* how send ended, and at which stage: sent, or a TransportError

mailVars == <<config, exchange, extensions, encrypted, wire, buffer, taken,
              refused, inClear, verdict>>

SmtpStage == {"address", "connect", "greeting", "ehlo", "starttls", "auth",
              "mail_from", "rcpt_to", "data", "body", "quit"}

\* The exchanges of a conversation; those of one stage differ in the reply
\* they expect.  upgradeToTls is no exchange: nothing is read in it.
ExpectedCode ==
    [greeting |-> 220, ehlo |-> 250, starttls |-> 220, ehloAgain |-> 250,
     authPlain |-> 235, authLogin |-> 334, authUser |-> 334, authPass |-> 235,
     mail_from |-> 250, rcpt_to |-> 250, data |-> 354, body |-> 250, quit |-> 221]
Exchanges == DOMAIN ExpectedCode

Extensions == [starttls : BOOLEAN, auth : {"PLAIN", "LOGIN", "neither"}]
NoReply == 0     \* socket fault: TransportError.code is undefined
Codes == {ExpectedCode[x] : x \in Exchanges} \cup {421, 451, 550}

StageOf(x) ==
    IF x = "ehloAgain" THEN "ehlo"
    ELSE IF x \in {"authPlain", "authLogin", "authUser", "authPass"} THEN "auth"
    ELSE x

Verdicts == [kind : {"none", "sent", "permanent", "transient"}, stage : SmtpStage]

SmtpConfig == [secure : BOOLEAN, requireTls : BOOLEAN, credentials : BOOLEAN,
               deliverable : BOOLEAN]

MailInit ==
    /\ config \in SmtpConfig
    /\ exchange = "address"
    /\ extensions = [starttls |-> FALSE, auth |-> "neither"]
    /\ encrypted = FALSE
    /\ wire = <<>>
    /\ buffer = <<>>
    /\ taken = FALSE
    /\ refused = {}
    /\ inClear = FALSE
    /\ verdict = [kind |-> "none", stage |-> "address"]
-----------------------------------------------------------------------------
(* The classification of failures *)

\* A mistake to compare with: every lasting refusal counts as a bounce.
AnyLastingRefusal(stage, code) ==
    IF stage = "address" \/ code >= 500 THEN "permanent" ELSE "transient"

\* Only what the server says for good about the recipient or the message is
\* permanent; a wrong password or a refused sender is the shop's own fault.
classifySmtpFailure(stage, code) ==
    IF \/ stage = "address"
       \/ code >= 500 /\ stage \in {"rcpt_to", "data", "body"}
    THEN "permanent" ELSE "transient"

End(kind, stage) == exchange' = "over" /\ verdict' = [kind |-> kind, stage |-> stage]

Throw(stage, code) == End(classifySmtpFailure(stage, code), stage)

Go(x) == exchange' = x /\ UNCHANGED verdict
-----------------------------------------------------------------------------
(* The client *)

\* SmtpTransport.send: an impossible address is a bounce without a connection.
CheckAddress ==
    /\ exchange = "address"
    /\ IF config.deliverable THEN Go("connect") ELSE Throw("address", NoReply)
    /\ UNCHANGED <<config, extensions, encrypted, wire, buffer, taken, refused, inClear>>

Connect ==
    /\ exchange = "connect"
    /\ Go("greeting")
    /\ encrypted' = config.secure
    /\ UNCHANGED <<config, extensions, wire, buffer, taken, refused, inClear>>

ConnectFails ==
    /\ exchange = "connect"
    /\ Throw("connect", NoReply)
    /\ UNCHANGED <<config, extensions, encrypted, wire, buffer, taken, refused, inClear>>

\* authenticate: the mechanism depends on what the server offered last.
Authenticate ==
    IF ~config.credentials THEN Go("mail_from")
    ELSE CASE extensions.auth = "PLAIN" -> Go("authPlain")
           [] extensions.auth = "LOGIN" -> Go("authLogin")
           [] OTHER -> Throw("auth", NoReply)

\* What follows the greeting's EHLO on a plain socket.
Secure ==
    IF config.secure THEN Authenticate
    ELSE IF extensions.starttls THEN Go("starttls")
    ELSE IF config.requireTls THEN Throw("starttls", NoReply)
    ELSE Authenticate

Following == [greeting |-> "ehlo", starttls |-> "handshake", authPlain |-> "mail_from",
              authLogin |-> "authUser", authUser |-> "authPass", authPass |-> "mail_from",
              mail_from |-> "rcpt_to", rcpt_to |-> "data", data |-> "body", body |-> "quit"]

\* The awaited reply is the first one that is complete; what the segment holds
\* behind it stays in the buffer until another segment arrives.
Proceed(code) ==
    IF exchange = "quit" THEN End("sent", "quit")
    ELSE IF code # ExpectedCode[exchange] THEN Throw(StageOf(exchange), code)
    ELSE CASE exchange = "ehlo" -> Secure
           [] exchange = "ehloAgain" -> Authenticate
           [] OTHER -> Go(Following[exchange])

Hear ==
    /\ exchange \in Exchanges
    /\ wire # <<>>
    /\ LET replies == buffer \o Head(wire) IN
          /\ Proceed(Head(replies))
          /\ buffer' = Tail(replies)
    /\ wire' = Tail(wire)
    /\ inClear' = (inClear \/ (~encrypted /\ exchange' \in {"authPlain", "authUser"}))
    /\ UNCHANGED <<config, extensions, encrypted, taken, refused>>

\* upgradeToTls: the socket changes, and its buffer is emptied.
Upgrade ==
    /\ exchange = "handshake"
    /\ Go("ehloAgain")
    /\ encrypted' = TRUE
    /\ wire' = <<>>
    /\ buffer' = <<>>
    /\ UNCHANGED <<config, extensions, taken, refused, inClear>>

UpgradeFails ==
    /\ exchange = "handshake"
    /\ Throw("connect", NoReply)
    /\ UNCHANGED <<config, extensions, encrypted, wire, buffer, taken, refused, inClear>>

\* onFatal: the socket failed, was closed, or was idle for timeoutMs.  After
\* the message was accepted the failure of QUIT is ignored.
Fatal ==
    /\ exchange \in Exchanges
    /\ IF exchange = "quit" THEN End("sent", "quit") ELSE Throw("connect", NoReply)
    /\ wire' = <<>>
    /\ UNCHANGED <<config, extensions, encrypted, buffer, taken, refused, inClear>>
-----------------------------------------------------------------------------
(* The server *)

Answer(code, closing, offer) ==
    /\ exchange \in Exchanges
    /\ wire = <<>>
    /\ offer # extensions => exchange \in {"ehlo", "ehloAgain"}
    /\ closing => buffer = <<>>
    /\ wire' = << IF closing THEN <<code, 421>> ELSE <<code>> >>
    /\ extensions' = offer
    /\ taken' = (taken \/ (exchange = "body" /\ code = 250))
    /\ refused' = IF code >= 500 THEN refused \cup {StageOf(exchange)} ELSE refused
    /\ UNCHANGED <<config, exchange, encrypted, buffer, inClear, verdict>>

AnswerAny ==
    \E code \in {ExpectedCode[x] : x \in {exchange} \cap Exchanges} \cup {451, 550} :
        \E closing \in BOOLEAN, offer \in Extensions : Answer(code, closing, offer)

MailNext ==
    \/ CheckAddress \/ Connect \/ ConnectFails \/ Hear \/ Upgrade \/ UpgradeFails
    \/ Fatal \/ AnswerAny

MailSpec == MailInit /\ [][MailNext]_mailVars
-----------------------------------------------------------------------------
(* Properties *)

\* Every variable stays in its type.
MailTypeOK ==
    /\ config \in SmtpConfig
    /\ exchange \in Exchanges \cup {"address", "connect", "handshake", "over"}
    /\ extensions \in Extensions
    /\ encrypted \in BOOLEAN
    /\ wire \in Seq(Seq(Codes))
    /\ buffer \in Seq(Codes)
    /\ taken \in BOOLEAN
    /\ refused \subseteq SmtpStage
    /\ inClear \in BOOLEAN
    /\ verdict \in Verdicts
    /\ exchange = "over" <=> verdict.kind # "none"

\* The verdict never says more than is known.  A message reported as sent was
\* accepted by the server.  A bounce means that nothing was accepted and that
\* the address is impossible or the server refused, for good, this recipient or
\* this message: never that the shop's own sender, password or encryption was
\* refused.  User and password cross a plain socket only if that was allowed.
VerdictTruthful ==
    /\ verdict.kind = "sent" => taken
    /\ verdict.kind = "permanent" =>
          /\ ~taken
          /\ ~config.deliverable \/ refused \cap {"rcpt_to", "data", "body"} # {}
    /\ inClear => ~config.secure /\ ~config.requireTls
=============================================================================
