----------------------------- MODULE Krb5Relay -----------------------------
(***************************************************************************)
(* The Kerberos relay, api/krb5_relay.js: one request over TCP, framed and *)
(* read until one whole message is there, or over UDP, where a datagram is *)
(* the message.  Reply bytes are abstracted to what a chunk makes of the   *)
(* buffer: still incomplete, a whole message, over the cap, or no frame.   *)
(***************************************************************************)
EXTENDS ApiCall

Krb5 == kind \in {"krb5tcp", "krb5udp"}

(* Both timers of a TCP exchange start together, before the connection.    *)
KrbDial ==
  /\ Krb5
  /\ phase = "resolved"
  /\ phase' = "talking"
  /\ IF kind = "krb5tcp"
       THEN /\ sock' = "connecting"
            /\ timer' = [timer EXCEPT !["connect"] = ConnectTimeout,
                                      !["call"] = CallTimeout]
       ELSE /\ sock' = "open"
            /\ timer' = [timer EXCEPT !["call"] = CallTimeout]
  /\ UNCHANGED <<kind, address, lookup, answer, elapsed, reached>>

(* Variant for checking BlameTrue: the connect budget goes on running.     *)
KrbConnectedArmed ==
  /\ Krb5
  /\ sock = "connecting"
  /\ sock' = "open"
  /\ reached' = "connection"
  /\ UNCHANGED <<kind, phase, address, lookup, timer, answer, elapsed>>

(* 'connect' disarms the connect budget only, and sends the request.       *)
KrbConnected ==
  /\ Krb5
  /\ sock = "connecting"
  /\ sock' = "open"
  /\ timer' = [timer EXCEPT !["connect"] = Off]
  /\ reached' = "connection"
  /\ UNCHANGED <<kind, phase, address, lookup, answer, elapsed>>

(* A whole reply, one over maxReplyBytes, or a length no frame can have.   *)
KrbReply ==
  /\ Krb5
  /\ sock = "open"
  /\ \/ Finish("Reply") /\ reached' = "reply"
     \/ Finish("ReplyTooBig") /\ UNCHANGED reached
     \/ kind = "krb5tcp" /\ Finish("BadFrame") /\ UNCHANGED reached
  /\ UNCHANGED <<kind, address, lookup, elapsed>>

KrbEnd ==
  /\ kind = "krb5tcp"
  /\ sock = "open"
  /\ Finish("ShortReply")
  /\ UNCHANGED <<kind, address, lookup, elapsed, reached>>

(* 'error', or a datagram that could not be sent.                          *)
KrbError ==
  /\ Krb5
  /\ sock \in {"connecting", "open"}
  /\ Finish("SocketError")
  /\ UNCHANGED <<kind, address, lookup, elapsed, reached>>

KrbConnectDeadline ==
  /\ Krb5
  /\ Due("connect")
  /\ Finish("ConnectTimeout")
  /\ UNCHANGED <<kind, address, lookup, elapsed, reached>>

KrbCallDeadline ==
  /\ Krb5
  /\ Due("call")
  /\ Finish("CallTimeout")
  /\ UNCHANGED <<kind, address, lookup, elapsed, reached>>

KrbNext ==
  \/ KrbDial
  \/ KrbConnected
  \/ KrbReply
  \/ KrbEnd
  \/ KrbError
  \/ KrbConnectDeadline
  \/ KrbCallDeadline

=============================================================================
