------------------------------ MODULE TlsProbe ------------------------------
(***************************************************************************)
(* The TLS probe, api/tls_probe.js: a handshake that is reported whether   *)
(* or not it succeeds, the wait after it in which a TLS 1.3 server may     *)
(* still refuse the client certificate, and the second handshake without   *)
(* the certificate from which mutual authentication is inferred.           *)
(*                                                                         *)
(* The far end is modelled by its policy on client certificates.  What it  *)
(* does for a reason of its own is recorded in `unrelated', and a refusal  *)
(* that no report saw in `missed', because it came after the grace or      *)
(* showed only in a request that could not be written: the verdict cannot  *)
(* see either.                                                             *)
(***************************************************************************)
EXTENDS ApiCall

CONSTANTS
  Grace,            (* POST_HANDSHAKE_GRACE_MS                             *)
  HttpGrace         (* HTTP_RESPONSE_GRACE_MS                              *)

ASSUME GraceAssumption == Grace \in Nat /\ HttpGrace \in Nat

VARIABLE probe

Tls == kind = "tls"

(* How one handshake is reported; "none" until there is a report.          *)
Reports == {"none", "usable", "hungup", "alert", "unreachable"}

(* cert: a client certificate is offered in this handshake; mutual: the    *)
(* caller asked for the second handshake; http: a request is sent on the   *)
(* connection; demands and accepts: the server's policy; tls13: a refusal  *)
(* comes after the handshake; spoke: bytes were received; first: the       *)
(* report of the handshake with the certificate, once there is a second.   *)
Probes ==
  [cert: BOOLEAN, mutual: BOOLEAN, http: BOOLEAN, tls13: BOOLEAN,
   demands: {"never", "optional", "always"}, accepts: BOOLEAN,
   spoke: BOOLEAN, first: Reports, unrelated: BOOLEAN, missed: BOOLEAN]

NewProbes ==
  {p \in Probes : /\ p.mutual => p.cert
                 /\ ~p.spoke /\ ~p.unrelated /\ ~p.missed
                 /\ p.first = "none"}

NoProbe ==
  [cert |-> FALSE, mutual |-> FALSE, http |-> FALSE, tls13 |-> FALSE,
   demands |-> "never", accepts |-> FALSE, spoke |-> FALSE, first |-> "none",
   unrelated |-> FALSE, missed |-> FALSE]

Verdicts == {"required", "not-required", "certificate-rejected",
             "required-and-rejected", "unknown"}

(* The server will not go on with this handshake.                          *)
Refuses ==
  IF probe.cert THEN probe.demands # "never" /\ ~probe.accepts
                ELSE probe.demands = "always"

(* describeMutualAuth() with handshakeUsable() and reachedTls().           *)
Verdict(with, without) ==
  IF with = "usable"
    THEN IF without = "usable" THEN "not-required" ELSE "required"
  ELSE IF without = "usable" THEN "certificate-rejected"
  ELSE IF with = "unreachable" THEN "unknown"
  ELSE "required-and-rejected"

(* Both deadlines start with the handshake, and so does the socket's own   *)
(* timeout, which says the same as the connect deadline.                   *)
TlsDial ==
  /\ Tls
  /\ phase = "resolved"
  /\ \/ Finish("NotStarted")
     \/ /\ phase' = "connecting"
        /\ sock' = "connecting"
        /\ timer' = [timer EXCEPT !["connect"] = ConnectTimeout,
                                  !["call"] = CallTimeout]
        /\ UNCHANGED answer
  /\ UNCHANGED <<kind, address, lookup, elapsed, reached, probe>>

(* finish(resolve, report), p being what is known of the far end by then:  *)
(* the mutual probe goes on with the handshake without the certificate,    *)
(* and any other call is answered.                                         *)
Report(r, p) ==
  IF p.mutual /\ p.cert
    THEN /\ probe' = [p EXCEPT !.first = r, !.cert = FALSE, !.spoke = FALSE]
         /\ phase' = "resolved"
         /\ timer' = NoTimers
         /\ sock' = "closed"
         /\ reached' = "address"
         /\ UNCHANGED answer
    ELSE /\ probe' = p
         /\ Finish(IF p.mutual THEN Verdict(p.first, r) ELSE r)
         /\ UNCHANGED reached

Unrelated == [probe EXCEPT !.unrelated = TRUE]

TlsConnected ==
  /\ Tls
  /\ phase = "connecting"
  /\ phase' = "handshaking"
  /\ sock' = "open"
  /\ timer' = [timer EXCEPT !["connect"] = Off]
  /\ reached' = "connection"
  /\ UNCHANGED <<kind, address, lookup, answer, elapsed, probe>>

(* Variant for checking VerdictSound: reported at 'secureConnect'.         *)
TlsSecuredAtOnce ==
  /\ Tls
  /\ phase = "handshaking"
  /\ Refuses => probe.tls13
  /\ Report("usable", probe)
  /\ UNCHANGED <<kind, address, lookup, elapsed>>

(* Variant for checking AnsweredInTime: the call budget starts afresh.     *)
TlsSecuredRearmed ==
  /\ Tls
  /\ phase = "handshaking"
  /\ Refuses => probe.tls13
  /\ phase' = "settling"
  /\ timer' = [timer EXCEPT !["grace"] = HttpGrace, !["call"] = CallTimeout]
  /\ reached' = "secure"
  /\ UNCHANGED <<kind, address, lookup, sock, answer, elapsed, probe>>

(* 'secureConnect': the grace begins, or the request is written and the    *)
(* wait for an answer begins in its place.  Under TLS 1.2 a server that    *)
(* refuses never gets here.                                                *)
TlsSecured ==
  /\ Tls
  /\ phase = "handshaking"
  /\ Refuses => probe.tls13
  /\ phase' = "settling"
  /\ timer' = [timer EXCEPT !["grace"] = IF probe.http THEN HttpGrace
                                                       ELSE Grace]
  /\ reached' = "secure"
  /\ UNCHANGED <<kind, address, lookup, sock, answer, elapsed, probe>>

(* The request could not be written: the handshake is reported as it is,   *)
(* with no error and no hang-up on the report, which then reads as usable. *)
TlsWriteFailed ==
  /\ Tls
  /\ phase = "handshaking"
  /\ probe.http
  /\ Refuses => probe.tls13
  /\ Report("usable", [probe EXCEPT !.missed = @ \/ Refuses])
  /\ UNCHANGED <<kind, address, lookup, elapsed>>

(* The refusal: in the handshake an alert or a connection reset, of which  *)
(* only the first is an error that tells of TLS; after it an alert, or a   *)
(* hang-up, which is reported as one when no byte was received.            *)
TlsRefused ==
  /\ Tls
  /\ Refuses
  /\ \/ /\ phase = "handshaking" /\ ~probe.tls13
        /\ \E r \in {"alert", "unreachable"} : Report(r, probe)
     \/ phase = "settling" /\ \E r \in {"alert", "hungup"} : Report(r, probe)
  /\ UNCHANGED <<kind, address, lookup, elapsed>>

(* Bytes end the grace; a response is read until the server closes or the  *)
(* cap is passed, and each chunk starts the wait for the next one.         *)
TlsSpoke ==
  /\ Tls
  /\ phase = "settling"
  /\ ~Refuses
  /\ \/ /\ probe.http
        /\ probe' = [probe EXCEPT !.spoke = TRUE]
        /\ timer' = [timer EXCEPT !["grace"] = HttpGrace]
        /\ UNCHANGED <<phase, sock, answer, reached>>
     \/ Report("usable", [probe EXCEPT !.spoke = TRUE])
  /\ UNCHANGED <<kind, address, lookup, elapsed>>

TlsClosed ==
  /\ Tls
  /\ phase = "settling"
  /\ ~Refuses
  /\ IF probe.spoke THEN Report("usable", probe)
                    ELSE Report("hungup", Unrelated)
  /\ UNCHANGED <<kind, address, lookup, elapsed>>

(* 'error' for any reason but a refusal: before the handshake completed it *)
(* is a report of its own, after that it is put on the handshake's report. *)
TlsError ==
  /\ Tls
  /\ \/ /\ phase \in {"connecting", "handshaking"}
        /\ \E r \in {"unreachable", "alert"} : Report(r, Unrelated)
     \/ phase = "settling" /\ Report("alert", Unrelated)
  /\ UNCHANGED <<kind, address, lookup, elapsed>>

(* Nothing more was heard: the connection is taken to be accepted.         *)
TlsGraceOver ==
  /\ Tls
  /\ phase = "settling"
  /\ Due("grace")
  /\ Report("usable", [probe EXCEPT !.missed = @ \/ Refuses])
  /\ UNCHANGED <<kind, address, lookup, elapsed>>

(* finish(reject): there is no report, the first handshake's included.     *)
TlsConnectDeadline ==
  /\ Tls
  /\ Due("connect")
  /\ Finish("ConnectTimeout")
  /\ UNCHANGED <<kind, address, lookup, elapsed, reached, probe>>

TlsCallDeadline ==
  /\ Tls
  /\ Due("call")
  /\ Finish("HandshakeTimeout")
  /\ UNCHANGED <<kind, address, lookup, elapsed, reached, probe>>

TlsNext ==
  \/ TlsDial
  \/ TlsConnected
  \/ TlsSecured
  \/ TlsWriteFailed
  \/ TlsRefused
  \/ TlsSpoke
  \/ TlsClosed
  \/ TlsError
  \/ TlsGraceOver
  \/ TlsConnectDeadline
  \/ TlsCallDeadline

=============================================================================
