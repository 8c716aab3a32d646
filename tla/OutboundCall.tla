---------------------------- MODULE OutboundCall ----------------------------
(***************************************************************************)
(* What every endpoint of the api that opens a connection for a caller     *)
(* promises: the caller is answered once, within a bound the endpoint      *)
(* states, and nothing the call opened or armed outlives the answer.       *)
(* ApiCalls.tla shows that the Kerberos relay, the LDAP client, the TLS    *)
(* probe and the SPIFFE client each keep this promise.                     *)
(***************************************************************************)
EXTENDS Naturals

CONSTANT Bound         (* ticks within which the answer is due             *)

VARIABLES
  answered,            (* the caller's promise has been settled            *)
  holding,             (* a timer is armed or a socket is open             *)
  elapsed              (* ticks since the call was accepted                *)

vars == <<answered, holding, elapsed>>

Init ==
  /\ answered = FALSE
  /\ holding = FALSE
  /\ elapsed = 0

(* The endpoint looks a name up, dials, waits: what it holds may change.   *)
Work ==
  /\ ~answered
  /\ holding' \in BOOLEAN
  /\ UNCHANGED <<answered, elapsed>>

(* Time passes only as far as the bound while a caller waits.              *)
Pass ==
  /\ ~answered
  /\ elapsed < Bound
  /\ elapsed' = elapsed + 1
  /\ UNCHANGED <<answered, holding>>

Answer ==
  /\ ~answered
  /\ answered' = TRUE
  /\ holding' = FALSE
  /\ UNCHANGED elapsed

Next == Work \/ Pass \/ Answer

Spec == Init /\ [][Next]_vars /\ WF_vars(Answer)

=============================================================================
