----------------------------- MODULE LdapClient -----------------------------
(***************************************************************************)
(* The LDAP client, api/ldap_client.js: connect, bind, run one operation,  *)
(* unbind, answer.  ldapjs is outside the source: it is modelled by the    *)
(* events the client subscribes to and by the two timeouts it is given     *)
(* (connectTimeout for the socket, timeout for each operation).  Entries   *)
(* of a search are data and left out; how the search ends is not.          *)
(***************************************************************************)
EXTENDS ApiCall

CONSTANT UnbindWait       (* the second an unbind is waited for            *)

ASSUME UnbindAssumption == UnbindWait \in Nat

VARIABLE outcome          (* the `outcome' withConnection answers with     *)

Ldap == kind = "ldap"

Outcomes == {None, "BindRefused", "BindTimeout", "BindBroken",
             "Success", "Result", "OperationTimeout", "OperationBroken"}

(* From here the answer waits only for the unbind, in the `finally'.       *)
Unbind(o) ==
  /\ outcome' = o
  /\ phase' = "unbinding"
  /\ timer' = [timer EXCEPT !["call"] = Off, !["unbind"] = UnbindWait]

(* createClient may throw on what it was given; otherwise ldapjs dials.    *)
LdapDial ==
  /\ Ldap
  /\ phase = "resolved"
  /\ \/ Finish("ClientError")
     \/ /\ phase' = "connecting"
        /\ sock' = "connecting"
        /\ timer' = [timer EXCEPT !["connect"] = ConnectTimeout]
        /\ UNCHANGED answer
  /\ UNCHANGED <<kind, address, lookup, elapsed, reached, outcome>>

(* The bind is issued from inside 'connect': nothing is ever queued.       *)
LdapConnected ==
  /\ Ldap
  /\ phase = "connecting"
  /\ phase' = "binding"
  /\ sock' = "open"
  /\ timer' = [timer EXCEPT !["connect"] = Off, !["call"] = CallTimeout]
  /\ reached' = "connection"
  /\ UNCHANGED <<kind, address, lookup, answer, elapsed, outcome>>

(* connectAndBind's finish(err): the client is destroyed.                  *)
LdapConnectDeadline ==
  /\ Ldap
  /\ phase = "connecting"
  /\ Due("connect")
  /\ Finish("ConnectTimeout")
  /\ UNCHANGED <<kind, address, lookup, elapsed, reached, outcome>>

LdapError ==
  /\ Ldap
  /\ phase \in {"connecting", "binding"}
  /\ Finish("ConnectFailed")
  /\ UNCHANGED <<kind, address, lookup, elapsed, reached, outcome>>

(* A refused bind is carried out as a value, and so is every other way the *)
(* bind callback can be given an error; doBind's operation is empty.       *)
LdapBound ==
  /\ Ldap
  /\ phase = "binding"
  /\ \/ /\ phase' = "operating"
        /\ timer' = [timer EXCEPT !["call"] = CallTimeout]
        /\ UNCHANGED outcome
     \/ Unbind("Success")
     \/ Unbind("BindRefused")
  /\ reached' = "reply"
  /\ UNCHANGED <<kind, address, lookup, sock, answer, elapsed>>

LdapBindLost ==
  /\ Ldap
  /\ phase = "binding"
  /\ \/ Due("call") /\ Unbind("BindTimeout")
     \/ Unbind("BindBroken")
  /\ UNCHANGED <<kind, address, lookup, sock, answer, elapsed, reached>>

(* Search, add, delete, modify, modifyDN, compare: the callback carries a  *)
(* result code, the library's timeout, or the loss of the connection.      *)
LdapOperation ==
  /\ Ldap
  /\ phase = "operating"
  /\ \/ \E o \in {"Success", "Result", "OperationBroken"} : Unbind(o)
     \/ Due("call") /\ Unbind("OperationTimeout")
  /\ UNCHANGED <<kind, address, lookup, sock, answer, elapsed, reached>>

(* Variant for checking ImplementsOutboundCall: the client is left open.   *)
LdapUnboundOpen ==
  /\ Ldap
  /\ phase = "unbinding"
  /\ answer' = outcome
  /\ phase' = "done"
  /\ timer' = NoTimers
  /\ UNCHANGED <<kind, address, lookup, sock, elapsed, reached, outcome>>

(* The unbind's callback or its timer: the client is destroyed either way. *)
LdapUnbound ==
  /\ Ldap
  /\ phase = "unbinding"
  /\ Finish(outcome)
  /\ UNCHANGED <<kind, address, lookup, elapsed, reached, outcome>>

(* The part of LdapUnbound that does not depend on the server.             *)
LdapUnbindDeadline ==
  /\ Due("unbind")
  /\ LdapUnbound

LdapNext ==
  \/ LdapDial
  \/ LdapConnected
  \/ LdapConnectDeadline
  \/ LdapError
  \/ LdapBound
  \/ LdapBindLost
  \/ LdapOperation
  \/ LdapUnbound

=============================================================================
