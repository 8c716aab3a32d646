----------------------------- MODULE OpHistory -----------------------------
(***************************************************************************)
(* The Operations History store of client/src/op_history.js: one log in    *)
(* localStorage, shared by every tab and page of a workflow.  A row is the *)
(* number of its call; its columns are left out but for the operation.     *)
(*                                                                         *)
(* Each operation reads the log and writes it back without a pause in      *)
(* between.  localStorage may refuse the write, and nobody is told.        *)
(***************************************************************************)
EXTENDS Naturals, Sequences, FiniteSets

CONSTANTS
  Limit,      (* LIMIT, the most rows the log keeps                         *)
  Operations, (* the labels of the first column                             *)
  Pages,      (* pages of the workflow, open at the same time               *)
  Lines,      (* the status lines of a page                                 *)
  MaxRows     (* bound on the calls recorded                                *)

ASSUME OpHistoryAssumption == Limit \in Nat /\ MaxRows \in Nat

VARIABLES
  workflow,   (* which way the pages use the store, see OpHistories         *)
  rows,       (* the result of every call ever recorded, by its number      *)
  op,         (* its operation                                              *)
  kept,       (* the calls the log holds                                    *)
  running,    (* per page and status line: the calls it has under way       *)
  excused     (* history: rows whose outcome the code has given up          *)

store == <<rows, op, kept>>

Places == Pages \X Lines

Outcomes == {"Success", "Failure"}
Results == {"Sent"} \union Outcomes

Row == Len(rows) + 1

(* Variant for checking TypeOK: no cap.                                    *)
Uncapped(S) == S

(* write(): the most recent ones, once the cap is reached.                 *)
Newest(S) == {r \in S : Cardinality({s \in S : r <= s}) <= Limit}

(* record(): the caller gets a number whether the row was stored or not.   *)
Record(operation, result, before) ==
  /\ Len(rows) < MaxRows
  /\ rows' = Append(before, result)
  /\ op' = Append(op, operation)
  /\ kept' \in {Newest(kept \union {Row}), kept}

(* update(): a row that is gone is not updated.                            *)
Update(id, result) ==
  IF id \notin kept THEN UNCHANGED <<store, excused>>
  ELSE \/ /\ rows' = [rows EXCEPT ![id] = result]
          /\ UNCHANGED <<op, kept, excused>>
       \/ /\ UNCHANGED store
          /\ excused' = excused \union {id}

(* Variant for checking ImplementsCallLog: closed rows are found too.      *)
PendingOrNot(wanted) == {r \in kept : op[r] \in wanted}

Pending(wanted) == {r \in kept : rows[r] = "Sent" /\ op[r] \in wanted}

(* resolvePending(): the newest row that is Sent, of the operations wanted.*)
ResolvePending(result, wanted) ==
  LET S == Pending(wanted) IN
  IF S = {} THEN UNCHANGED <<store, excused>>
  ELSE LET r == CHOOSE r \in S : \A s \in S : s <= r
       IN Update(r, result)

Clear == kept' = {} /\ UNCHANGED <<rows, op>>

(* What is under way anywhere on page p, and what is left of it when the   *)
(* page is left or loaded again: nothing more is heard of it.              *)
Waiting(p) == UNION {running[w] : w \in {p} \X Lines}

Elsewhere(p, none) ==
  [w \in Places |-> IF w[1] = p THEN none ELSE running[w]]
=============================================================================
