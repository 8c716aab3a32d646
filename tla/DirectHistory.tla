--------------------------- MODULE DirectHistory ---------------------------
(***************************************************************************)
(* How the pages that get their answers themselves use the Operations      *)
(* History: LDAP, SPIFFE, SCIM, Shared Signals and PKI.  A call records    *)
(* its row and keeps the row's number until its answer comes; calls of one *)
(* page may overlap.                                                       *)
(***************************************************************************)
EXTENDS OpHistory

DirectCall(w) ==
  /\ \E operation \in Operations : Record(operation, "Sent", rows)
  /\ running' = [running EXCEPT ![w] = @ \union {Row}]
  /\ UNCHANGED excused

(* The peer answers, refuses, or the fetch fails.                          *)
DirectAnswer(w, r, outcome) ==
  /\ r \in running[w]
  /\ running' = [running EXCEPT ![w] = @ \ {r}]
  /\ Update(r, outcome)

DirectClear == Clear /\ UNCHANGED <<running, excused>>

DirectLeave(p) ==
  /\ running' = Elsewhere(p, {})
  /\ excused' = excused \union Waiting(p)
  /\ UNCHANGED store

DirectNext ==
  \/ \E w \in Places :
       \/ DirectCall(w)
       \/ \E r \in running[w], outcome \in Outcomes :
            DirectAnswer(w, r, outcome)
  \/ DirectClear
  \/ \E p \in Pages : DirectLeave(p)
=============================================================================
