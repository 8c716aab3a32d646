---------------------------- MODULE SpiffeClient ----------------------------
(***************************************************************************)
(* The SPIFFE client, api/spiffe_client.js: one gRPC call, unary or        *)
(* streaming, stopped by what comes first of its end, an error, the number *)
(* of messages wanted, the size cap and the service's own timer.  gRPC is  *)
(* outside the source; the call is given a deadline that falls on the same *)
(* instant as the timer, and reports it as an error.                       *)
(***************************************************************************)
EXTENDS ApiCall

CONSTANTS
  StreamTimeout,    (* the budget of a stream                              *)
  MaxMessages       (* maxStreamMessages                                   *)

ASSUME StreamAssumption == StreamTimeout \in Nat /\ MaxMessages \in Nat \ {0}

VARIABLE rpc

Spiffe == kind = "spiffe"

(* streaming: either side streams; unix: a socket path, which is not       *)
(* resolved; wanted: messages asked for; got: messages kept; stopped: what *)
(* the answer says ended the call.                                         *)
Rpcs ==
  [streaming: BOOLEAN, unix: BOOLEAN, wanted: 1..MaxMessages,
   got: 0..MaxMessages,
   stopped: {"", "messages", "size", "timeout"}]

NewRpcs ==
  {r \in Rpcs : r.got = 0 /\ r.stopped = ""}

NoRpc ==
  [streaming |-> FALSE, unix |-> FALSE, wanted |-> 1, got |-> 0,
   stopped |-> ""]

RpcBudget == IF rpc.streaming THEN StreamTimeout ELSE CallTimeout

(* A socket path is checked against a list and dialled as it is.           *)
RpcSocketPath ==
  /\ Spiffe
  /\ phase = "asked"
  /\ rpc.unix
  /\ phase' = "resolved"
  /\ reached' = "address"
  /\ UNCHANGED <<kind, address, lookup, sock, timer, answer, elapsed, rpc>>

(* The identity to expect, the bundle and the client's certificate are     *)
(* judged only now, and may be refused; otherwise the call is made.        *)
RpcInvoke ==
  /\ Spiffe
  /\ phase = "resolved"
  /\ \/ Finish("Refused")
     \/ /\ phase' = "talking"
        /\ sock' = "open"
        /\ timer' = [timer EXCEPT !["call"] = RpcBudget]
        /\ UNCHANGED answer
  /\ UNCHANGED <<kind, address, lookup, elapsed, reached, rpc>>

(* Variant for checking StoppedTruthfully: off by one on the messages.     *)
RpcMessageOver ==
  /\ Spiffe
  /\ phase = "talking"
  /\ rpc.got < MaxMessages
  /\ reached' = "reply"
  /\ LET got == rpc.got + 1
         stopped == IF got > rpc.wanted THEN "messages" ELSE ""
     IN /\ rpc' = [rpc EXCEPT !.got = got, !.stopped = stopped]
        /\ IF stopped # ""
             THEN Finish("OK")
             ELSE UNCHANGED <<phase, sock, timer, answer>>
  /\ UNCHANGED <<kind, address, lookup, elapsed>>

(* Variant for checking TypeOK: a stream is read on and on.                *)
RpcMessageEndless ==
  /\ Spiffe
  /\ phase = "talking"
  /\ reached' = "reply"
  /\ rpc' = [rpc EXCEPT !.got = @ + 1]
  /\ UNCHANGED <<kind, phase, address, lookup, sock, timer, answer, elapsed>>

(* keep(): the message is added before either cap is looked at.  A unary   *)
(* reply ends the call whatever keep() says.                               *)
RpcMessage ==
  /\ Spiffe
  /\ phase = "talking"
  /\ reached' = "reply"
  /\ \E full \in BOOLEAN :
       LET got == rpc.got + 1
           stopped == IF full THEN "size"
                      ELSE IF got >= rpc.wanted THEN "messages" ELSE ""
       IN /\ rpc' = [rpc EXCEPT !.got = got, !.stopped = stopped]
          /\ IF ~rpc.streaming \/ stopped # ""
               THEN Finish("OK")
               ELSE UNCHANGED <<phase, sock, timer, answer>>
  /\ UNCHANGED <<kind, address, lookup, elapsed>>

(* 'error' or a status that is not OK.  Silence until gRPC's own deadline  *)
(* and an unreachable far end are failures of the transport.               *)
RpcError ==
  /\ Spiffe
  /\ phase = "talking"
  /\ \/ Finish("Status")
     \/ Finish("IdentityMismatch")
     \/ Finish("Unavailable")
  /\ UNCHANGED <<kind, address, lookup, elapsed, reached, rpc>>

RpcLibraryDeadline ==
  /\ Spiffe
  /\ phase = "talking"
  /\ Due("call")
  /\ Finish(IF rpc.got = 0 THEN "Unavailable" ELSE "DeadlineStatus")
  /\ UNCHANGED <<kind, address, lookup, elapsed, reached, rpc>>

RpcEnd ==
  /\ Spiffe
  /\ phase = "talking"
  /\ rpc.streaming
  /\ Finish("OK")
  /\ UNCHANGED <<kind, address, lookup, elapsed, reached, rpc>>

(* The timer: what a stream delivered so far is a success with a note.     *)
RpcDeadline ==
  /\ Spiffe
  /\ phase = "talking"
  /\ Due("call")
  /\ rpc' = [rpc EXCEPT !.stopped = "timeout"]
  /\ Finish(IF rpc.got = 0 THEN "Unavailable" ELSE "OK")
  /\ UNCHANGED <<kind, address, lookup, elapsed, reached>>

RpcNext ==
  \/ RpcSocketPath
  \/ RpcInvoke
  \/ RpcMessage
  \/ RpcError
  \/ RpcLibraryDeadline
  \/ RpcEnd
  \/ RpcDeadline

=============================================================================
