------------------------------ MODULE ApiCall ------------------------------
(***************************************************************************)
(* What the clients of the api share: one outbound call, the timers and    *)
(* the socket it holds, and the name lookup that comes before any socket.  *)
(* Krb5Relay, LdapClient, TlsProbe and SpiffeClient extend this module     *)
(* with what each does on the connection; ApiCalls puts them together.     *)
(*                                                                         *)
(* A timer counts down in ticks and is urgent when it reaches zero: no     *)
(* tick passes before its callback has run, while callbacks of the network *)
(* that are due at the same instant may run before it.  Calls share no     *)
(* state, so one call is modelled.                                         *)
(***************************************************************************)
EXTENDS Integers, Sequences

CONSTANTS
  ConnectTimeout,   (* connectionTimeout of the configuration              *)
  CallTimeout,      (* callTimeout                                         *)
  Horizon,          (* bound on the clock, past every deadline             *)
  None              (* no answer yet                                       *)

(* "Keep it BELOW callTimeout", api/env/docker-tests.js.                   *)
ASSUME BudgetAssumption ==
  /\ ConnectTimeout \in Nat \ {0}
  /\ CallTimeout \in Nat
  /\ ConnectTimeout < CallTimeout
  /\ Horizon \in Nat

(* The refusal codes and results an endpoint answers with.                 *)
AnswerCodes ==
  {"Refused", "BlockedAddress", "DnsFailed", "DnsTimeout", "ConnectTimeout",
   "CallTimeout", "SocketError", "ShortReply", "BadFrame", "ReplyTooBig",
   "Reply", "ClientError", "ConnectFailed", "BindRefused", "BindTimeout",
   "BindBroken", "Success", "Result", "OperationTimeout", "OperationBroken",
   "OK", "Status", "IdentityMismatch", "Unavailable", "DeadlineStatus",
   "NotStarted", "HandshakeTimeout", "usable", "hungup", "alert",
   "unreachable", "required", "not-required", "certificate-rejected",
   "required-and-rejected", "unknown"}

VARIABLES
  kind,      (* which client was asked, and over which transport           *)
  phase,     (* where the call is                                          *)
  host,      (* what the caller named: a name, or an address literal       *)
  guarded,   (* the address policy is on (guard.enabled)                   *)
  lookup,    (* dns.lookup, which cannot be cancelled                      *)
  dialled,   (* the address the socket was opened to                       *)
  sock,      (* the socket or client object of this call                   *)
  timer,     (* ticks left on each timer, Off when it is not armed         *)
  answer,    (* how the caller's promise was settled                       *)
  elapsed,   (* ticks since the call was accepted                          *)
  reached    (* history: how far the present connection got                *)

address == <<host, guarded, dialled>>
call == <<kind, phase, address, lookup, sock, timer, answer, elapsed, reached>>

Kinds == {"krb5tcp", "krb5udp", "ldap", "tls", "spiffe"}
Timers == {"dns", "connect", "call", "grace", "unbind"}
Off == -1
NoTimers == [t \in Timers |-> Off]
Addresses == {"public", "private"}
Hosts == Addresses \union {"name"}

ASSUME NoneAssumption == None \notin AnswerCodes \union Addresses

Stages == {"nothing", "address", "connection", "secure", "reply"}
Phases == {"asked", "resolving", "resolved", "connecting", "handshaking",
           "settling", "talking", "binding", "operating", "unbinding", "done"}

Answered == answer # None
Armed == {t \in Timers : timer[t] # Off}
Holding == Armed # {} \/ sock \in {"connecting", "open"}
Due(t) == timer[t] = 0

(* A phase in which the next step is the endpoint's own continuation and   *)
(* waits for nothing.                                                      *)
Running == phase \in {"asked", "resolved"}

(* Variant for checking NothingLeftOver: the timers are not cleared.       *)
FinishKeeping(a) ==
  /\ answer' = a
  /\ phase' = "done"
  /\ timer' = [t \in Timers |-> IF Due(t) THEN Off ELSE timer[t]]
  /\ sock' = IF sock = "none" THEN "none" ELSE "closed"

(* What an endpoint's finish() does: the caller is answered, every         *)
(* timer is cleared and the socket is destroyed.                           *)
Finish(a) ==
  /\ answer' = a
  /\ phase' = "done"
  /\ timer' = NoTimers
  /\ sock' = IF sock = "none" THEN "none" ELSE "closed"

(* Validation before any socket: host, port, payload, version, scope.      *)
Refuse ==
  /\ phase = "asked"
  /\ Finish("Refused")
  /\ UNCHANGED <<kind, address, lookup, elapsed, reached>>

(* A literal is judged as it stands; a name is looked up on a deadline of  *)
(* its own.                                                                *)
ResolveLiteral ==
  /\ phase = "asked"
  /\ host \in Addresses
  /\ IF guarded /\ host = "private"
       THEN Finish("BlockedAddress") /\ UNCHANGED <<dialled, reached>>
       ELSE /\ dialled' = host
            /\ phase' = "resolved"
            /\ reached' = "address"
            /\ UNCHANGED <<answer, timer, sock>>
  /\ UNCHANGED <<kind, host, guarded, lookup, elapsed>>

(* Variant for checking EveryCallAnswered: the lookup has no deadline.     *)
ResolveNameUntimed ==
  /\ phase = "asked"
  /\ host = "name"
  /\ lookup' = "pending"
  /\ phase' = "resolving"
  /\ UNCHANGED <<kind, address, sock, timer, answer, elapsed, reached>>

ResolveName ==
  /\ phase = "asked"
  /\ host = "name"
  /\ lookup' = "pending"
  /\ phase' = "resolving"
  /\ timer' = [timer EXCEPT !["dns"] = ConnectTimeout]
  /\ UNCHANGED <<kind, address, sock, answer, elapsed, reached>>

(* A lookup that comes back after the deadline settled is dropped.  Every  *)
(* address of the list is judged, and the first of them is dialled.        *)
LookupReturns(list) ==
  /\ lookup = "pending"
  /\ lookup' = "over"
  /\ IF phase # "resolving"
       THEN UNCHANGED <<dialled, phase, reached, answer, timer, sock>>
       ELSE IF \E i \in DOMAIN list : guarded /\ list[i] = "private"
         THEN Finish("BlockedAddress") /\ UNCHANGED <<dialled, reached>>
         ELSE /\ dialled' = list[1]
              /\ phase' = "resolved"
              /\ reached' = "address"
              /\ timer' = [timer EXCEPT !["dns"] = Off]
              /\ UNCHANGED <<answer, sock>>
  /\ UNCHANGED <<kind, host, guarded, elapsed>>

LookupFails ==
  /\ lookup = "pending"
  /\ lookup' = "over"
  /\ IF phase = "resolving"
       THEN Finish("DnsFailed")
       ELSE UNCHANGED <<phase, answer, timer, sock>>
  /\ UNCHANGED <<kind, address, elapsed, reached>>

DnsDeadline ==
  /\ Due("dns")
  /\ Finish("DnsTimeout")
  /\ UNCHANGED <<kind, address, lookup, elapsed, reached>>

(* The lookup of getaddrinfo gives one address or several; the TLS probe   *)
(* asks for one.                                                           *)
Lists == IF kind = "tls" THEN [{1} -> Addresses]
                         ELSE UNION {[1..n -> Addresses] : n \in {1, 2}}

Resolve ==
  \/ ResolveLiteral
  \/ ResolveName
  \/ \E list \in Lists : LookupReturns(list)
  \/ LookupFails
  \/ DnsDeadline

(* A tick: not while a continuation is ready or a timer is due.            *)
Tick ==
  /\ ~Answered
  /\ ~Running
  /\ \A t \in Timers : ~Due(t)
  /\ timer' = [t \in Timers |-> IF timer[t] = Off THEN Off ELSE timer[t] - 1]
  /\ elapsed' = IF elapsed < Horizon THEN elapsed + 1 ELSE elapsed
  /\ UNCHANGED <<kind, phase, address, lookup, sock, answer, reached>>

CallInit ==
  /\ kind \in Kinds
  /\ phase = "asked"
  /\ host \in Hosts
  /\ guarded \in BOOLEAN
  /\ lookup = "none"
  /\ dialled = None
  /\ sock = "none"
  /\ timer = NoTimers
  /\ answer = None
  /\ elapsed = 0
  /\ reached = "nothing"

=============================================================================
