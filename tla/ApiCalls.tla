------------------------------ MODULE ApiCalls ------------------------------
(***************************************************************************)
(* The outbound calls of the api: a call is made to one of the four        *)
(* clients, resolves the host, and goes on as that client does.  The       *)
(* properties are about all of them; the network may do anything at any    *)
(* time, and only timers and the endpoint's own continuations are fair.    *)
(***************************************************************************)
EXTENDS Krb5Relay, LdapClient, TlsProbe, SpiffeClient

vars == <<call, outcome, probe, rpc>>

Init ==
  /\ CallInit
  /\ outcome = None
  /\ IF kind = "tls" THEN probe \in NewProbes ELSE probe = NoProbe
  /\ IF kind = "spiffe" THEN rpc \in NewRpcs ELSE rpc = NoRpc

(* Refusals of the input and the name lookup are the same for everyone,    *)
(* except that a SPIFFE socket path is not resolved.                       *)
Begin ==
  /\ \/ Refuse
     \/ ~rpc.unix /\ Resolve
  /\ UNCHANGED <<outcome, probe, rpc>>

Continue ==
  \/ KrbNext /\ UNCHANGED <<outcome, probe, rpc>>
  \/ LdapNext /\ UNCHANGED <<probe, rpc>>
  \/ TlsNext /\ UNCHANGED <<outcome, rpc>>
  \/ RpcNext /\ UNCHANGED <<outcome, probe>>

Pass == Tick /\ UNCHANGED <<outcome, probe, rpc>>

Next == Begin \/ Continue \/ Pass

(* The callbacks of timers.                                                *)
Deadline ==
  \/ DnsDeadline /\ UNCHANGED <<outcome, probe, rpc>>
  \/ /\ KrbConnectDeadline \/ KrbCallDeadline
     /\ UNCHANGED <<outcome, probe, rpc>>
  \/ /\ \/ LdapConnectDeadline
        \/ Due("call") /\ (LdapBindLost \/ LdapOperation)
        \/ LdapUnbindDeadline
     /\ UNCHANGED <<probe, rpc>>
  \/ /\ TlsGraceOver \/ TlsConnectDeadline \/ TlsCallDeadline
     /\ UNCHANGED <<outcome, rpc>>
  \/ RpcDeadline /\ UNCHANGED <<outcome, probe>>

(* Node runs what is ready, a timer that is due, and lets time pass.       *)
Spec ==
  /\ Init
  /\ [][Next]_vars
  /\ WF_vars(Running /\ Next)
  /\ WF_vars(Deadline)
  /\ WF_vars(Pass)

-----------------------------------------------------------------------------

(* The phases of each client.                                              *)
PhasesOf(k) ==
  {"asked", "resolving", "resolved", "done"} \union
    CASE k \in {"krb5tcp", "krb5udp", "spiffe"} -> {"talking"}
      [] k = "ldap" -> {"connecting", "binding", "operating", "unbinding"}
      [] k = "tls" -> {"connecting", "handshaking", "settling"}

(* What each timer of the call is given when it is armed.                  *)
Given(t) ==
  CASE t \in {"dns", "connect"} -> ConnectTimeout
    [] t = "call" -> IF kind = "spiffe" THEN RpcBudget ELSE CallTimeout
    [] t = "grace" -> IF probe.http THEN HttpGrace ELSE Grace
    [] t = "unbind" -> UnbindWait

(* The state is one that the clients' code can be in: a phase belongs to   *)
(* its client, and no timer is armed for longer than it is ever given.     *)
TypeOK ==
  /\ kind \in Kinds /\ phase \in PhasesOf(kind) /\ host \in Hosts
  /\ guarded \in BOOLEAN
  /\ lookup \in {"none", "pending", "over"}
  /\ dialled \in Addresses \union {None}
  /\ sock \in {"none", "connecting", "open", "closed"}
  /\ timer \in [Timers -> Int]
  /\ \A t \in Timers : timer[t] \in Off..Given(t)
  /\ answer \in AnswerCodes \union {None}
  /\ elapsed \in 0..Horizon
  /\ reached \in Stages
  /\ outcome \in Outcomes
  /\ probe \in Probes
  /\ rpc \in Rpcs

(* Whatever finish() was called by - an event, a timer, an error in the    *)
(* middle of another wait - a caller who has been answered has left no     *)
(* timer armed and no socket open behind.                                  *)
NothingLeftOver == Answered => ~Holding

(* The time each endpoint may take: the lookup is on the connect budget,   *)
(* the relay's two timers overlap, an LDAP operation follows a bind, and   *)
(* the probe may shake hands twice.                                        *)
Budget ==
  CASE kind \in {"krb5tcp", "krb5udp"} -> ConnectTimeout + CallTimeout
    [] kind = "ldap" -> 2 * ConnectTimeout + 2 * CallTimeout + UnbindWait
    [] kind = "tls" -> ConnectTimeout + 2 * CallTimeout
    [] kind = "spiffe" -> ConnectTimeout + RpcBudget

(* The api's own deadlines bound every call, whatever the resolver and the *)
(* far end do or do not do.                                                *)
AnsweredInTime == elapsed <= Budget

(* The party that is blamed is the one that failed: a timeout is blamed on *)
(* the resolver, on a host that never accepted or on one that accepted and *)
(* fell silent according to how far the connection had got, and no socket  *)
(* is opened to an address the policy refuses.  Of the probe's handshake   *)
(* deadline this says that the far end had accepted, and no more: whether  *)
(* the handshake had finished that answer does not tell truly.             *)
BlameTrue ==
  /\ guarded => dialled # "private"
  /\ answer \in {"DnsTimeout", "DnsFailed", "BlockedAddress"} => sock = "none"
  /\ answer = "ConnectTimeout" => reached = "address"
  /\ answer \in {"ShortReply", "BindTimeout", "BindBroken"} =>
       reached = "connection"
  /\ answer = "CallTimeout" /\ kind = "krb5tcp" => reached = "connection"
  /\ answer = "HandshakeTimeout" => reached \notin {"nothing", "address"}
  /\ answer \in {"Reply", "BindRefused", "OperationTimeout"} =>
       reached = "reply"

(* The verdict on mutual authentication is the server's policy, provided   *)
(* nothing but that policy ended a handshake and every refusal was there   *)
(* to be seen when the handshake was reported.  Nothing is concluded only  *)
(* when both handshakes were refused and the first by a reset, which is    *)
(* not told apart from a host that is not there.                           *)
VerdictSound ==
  Answered /\ probe.mutual /\ answer \in Verdicts
    /\ ~probe.unrelated /\ ~probe.missed =>
      CASE answer = "required" -> probe.demands = "always" /\ probe.accepts
        [] answer = "not-required" ->
             \/ probe.demands = "never"
             \/ probe.demands = "optional" /\ probe.accepts
        [] answer = "certificate-rejected" ->
             probe.demands = "optional" /\ ~probe.accepts
        [] answer = "required-and-rejected" ->
             probe.demands = "always" /\ ~probe.accepts
        [] answer = "unknown" ->
             /\ probe.demands = "always" /\ ~probe.accepts
             /\ probe.first = "unreachable"

(* What a stream is said to have been stopped by is what stopped it: the   *)
(* messages wanted are never passed, "messages" means they all came, the   *)
(* timer is a success exactly when something had come.                     *)
StoppedTruthfully ==
  kind = "spiffe" =>
    /\ rpc.got <= rpc.wanted
    /\ rpc.stopped = "messages" => rpc.got = rpc.wanted
    /\ rpc.stopped = "timeout" => (answer = "OK" <=> rpc.got > 0)
    /\ Answered /\ rpc.streaming /\ rpc.stopped = "" => rpc.got < rpc.wanted

(* Every call is answered, although nobody but the api's own timers is     *)
(* relied on.                                                              *)
EveryCallAnswered == <>Answered

(* Each client keeps the promise of OutboundCall.                          *)
Longest ==
  LET other == ConnectTimeout + StreamTimeout
      ldap == 2 * ConnectTimeout + 2 * CallTimeout + UnbindWait
  IN IF ldap > other THEN ldap ELSE other

Promise == INSTANCE OutboundCall
  WITH Bound <- Longest, answered <- Answered, holding <- Holding

ImplementsOutboundCall == Promise!Spec
=============================================================================
