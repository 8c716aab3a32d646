------------------------------ MODULE Rfc9700 ------------------------------
(* What the compliance mode remembers in one browser tab, and the checks    *)
(* that read it (client/src/rfc9700.js): the switch, the transaction record *)
(* the answer to an authorization request is judged against, and the list   *)
(* of values that must not be sent again.                                   *)
(*                                                                          *)
(* A request's state and nonce are drawn together and never twice, so one   *)
(* number, its pair, stands for both; 0 is a value that is missing.         *)
EXTENDS Integers, Sequences, SequencesExt

CONSTANTS
  SpentCap,      (* how many spent values the list keeps *)
  NoTxn          (* no transaction record in this tab *)

ASSUME SpentCapAssumption == SpentCap \in Nat \ {0}
ASSUME NoTxnAssumption == NoTxn \notin [pair : Nat, consumed : BOOLEAN]

VARIABLES
  mode,          (* the switch, in localStorage: every tab sees it *)
  txn,           (* the transaction record, in sessionStorage *)
  spent          (* the spent list, in sessionStorage, oldest first *)

rfcVars == <<mode, txn, spent>>

Key(kind, value) == [kind |-> kind, value |-> value]

Txn(pair) == [pair |-> pair, consumed |-> FALSE]

Consumed(t) == [t EXCEPT !.consumed = TRUE]

IsSpent(kind, value) == Key(kind, value) \in Range(spent)

(* Variant for checking TypeOK: the list is shortened before the value is   *)
(* added.                                                                   *)
MarkedLate(list, k) ==
  IF k \in Range(list) THEN list
  ELSE IF Len(list) <= SpentCap THEN Append(list, k) ELSE Append(Tail(list), k)

(* The list after a value is marked: a value it holds is not moved, and the *)
(* oldest makes room for a new one.                                         *)
Marked(list, k) ==
  IF k \in Range(list) THEN list
  ELSE IF Len(list) < SpentCap THEN Append(list, k) ELSE Append(Tail(list), k)

(* The list after a token answer: the old refresh token is marked only when *)
(* the answer brought another one.                                          *)
Rotated(list, previous, current) ==
  IF previous # 0 /\ current # 0 /\ previous # current
    THEN Marked(list, Key("refresh", previous)) ELSE list

(* Check 2: an authorization answer is accepted once, for the request the   *)
(* record is of, and from the server it was sent to.                        *)
ResponseOk(a) ==
  /\ txn # NoTxn
  /\ a.state # 0
  /\ ~txn.consumed
  /\ a.state = txn.pair
  /\ a.iss

(* Check 3: a code is there and was not presented before.                   *)
CodeOk(code) == code # 0 /\ ~IsSpent("code", code)

(* Check 4: an ID token that is there can be read, and carries the nonce    *)
(* and the issuer the record holds; a refresh answer may leave the nonce    *)
(* out.  Without a record nothing is compared.                              *)
IdTokenOk(id, refreshing) ==
  id.present =>
    /\ id.readable
    /\ txn # NoTxn => /\ id.nonce = txn.pair \/ (refreshing /\ id.nonce = 0)
                      /\ id.iss
=============================================================================
