------------------------------ MODULE CallLog ------------------------------
(***************************************************************************)
(* What an Operations History promises: a log of calls in the order they   *)
(* were made, of which the oldest may be dropped.  A call is Sent until    *)
(* its outcome is known, and an outcome, once written, stands.             *)
(***************************************************************************)
EXTENDS Naturals, Sequences

VARIABLES
  rows,   (* the result of every call ever recorded, by its number          *)
  kept    (* the calls the log still holds                                  *)

Outcomes == {"Success", "Failure"}
Results == {"Sent"} \union Outcomes

Init == rows = <<>> /\ kept = {}

(* The new row may be refused by the storage; older ones go first.         *)
Record ==
  /\ \E result \in Results : rows' = Append(rows, result)
  /\ kept' \subseteq kept \union {Len(rows')}
  /\ \A r \in kept \ kept', s \in kept' : r < s

Learn ==
  /\ \E r \in kept, outcome \in Outcomes :
       rows[r] = "Sent" /\ rows' = [rows EXCEPT ![r] = outcome]
  /\ kept' = kept

Clear == kept' = {} /\ rows' = rows

Next == Record \/ Learn \/ Clear

Spec == Init /\ [][Next]_<<rows, kept>>
=============================================================================
