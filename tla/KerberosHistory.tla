-------------------------- MODULE KerberosHistory --------------------------
(***************************************************************************)
(* How the Kerberos and SPNEGO pages use the Operations History            *)
(* (client/src/kerberos_history.js).  A handler opens a row before its own *)
(* guards run and names the status line that will report on it; a closing  *)
(* status written on that line, by whatever code, closes the row.          *)
(*                                                                         *)
(* Buttons are not disabled while a handler waits, so handlers that report *)
(* on one line may overlap.  `open' belongs to one load of a page, the     *)
(* rows to all pages of the browser.                                       *)
(***************************************************************************)
EXTENDS OpHistory

CONSTANTS
  Quiet,      (* lines where a handler may end on a pending status:         *)
              (* krb_ap_status                                              *)
  Early,      (* lines where a handler reports before it is through:        *)
              (* krb_as_status, krb_spnego_status                           *)
  Chained,    (* lines where a handler goes on as another operation:        *)
              (* krb_spnego_status                                          *)
  Described   (* lines on which the choice of a ticket is reported too      *)

ASSUME KerberosAssumption ==
  Quiet \union Early \union Chained \union Described \subseteq Lines

VARIABLE
  open        (* per page and line: the row the line will close, or 0       *)

NothingOpen == [w \in Places |-> 0]

(* Variant for checking SentIsWatched: any status ends the watch.          *)
SettleAtOnce(w, status) ==
  IF open[w] = 0 THEN UNCHANGED <<store, open, excused>>
  ELSE /\ open' = [open EXCEPT ![w] = 0]
       /\ IF status = "Sent" THEN UNCHANGED <<store, excused>>
                             ELSE Update(open[w], status)

(* Variant for checking WatchedIsSent: the row is closed and watched on.   *)
SettleAgain(w, status) ==
  IF open[w] = 0 \/ status = "Sent" THEN UNCHANGED <<store, open, excused>>
  ELSE open' = open /\ Update(open[w], status)

(* settle(): what a status written on a line does to the row open there.   *)
(* "Sent" stands for a status that is pending, or no more than a remark.   *)
Settle(w, status) ==
  IF open[w] = 0 \/ status = "Sent" THEN UNCHANGED <<store, open, excused>>
  ELSE /\ open' = [open EXCEPT ![w] = 0]
       /\ Update(open[w], status)

(* begin(), first half: the row open on the line stays Sent and says why.  *)
Superseded(w) ==
  IF open[w] \in kept THEN [rows EXCEPT ![open[w]] = "Sent"] ELSE rows

(* begin(); `before' is the call the handler was about, if it goes on.     *)
Begin(w, before) ==
  /\ \E operation \in Operations : Record(operation, "Sent", Superseded(w))
  /\ open' = [open EXCEPT ![w] = Row]
  /\ running' = [running EXCEPT ![w] = (@ \ before) \union {Row}]
  /\ excused' = excused \union ({open[w]} \ {0})

(* A button is pressed.                                                    *)
KrbPress(w) == Begin(w, {})

(* sendMicContinuation() opens a row of its own on the line of the         *)
(* handshake that waits for it, and says nothing about that one.           *)
KrbContinue(w, r) ==
  /\ w[2] \in Chained
  /\ r \in running[w]
  /\ Begin(w, {r})

(* A handler reports: while it is busy, or on its way out.                 *)
KrbReport(w, r, status, over) ==
  /\ r \in running[w]
  /\ over => status # "Sent"
  /\ ~over /\ status # "Sent" => w[2] \in Early
  /\ Settle(w, status)
  /\ running' = IF over THEN [running EXCEPT ![w] = @ \ {r}] ELSE running

(* onPresent() ends on a pending status: its row, if still open, stays so  *)
(* with nobody left to report on it.                                       *)
KrbEndQuietly(w, r) ==
  /\ r \in running[w]
  /\ w[2] \in Quiet
  /\ excused' = excused \union ({open[w]} \intersect {r})
  /\ running' = [running EXCEPT ![w] = @ \ {r}]
  /\ UNCHANGED <<store, open>>

(* Another ticket is chosen, or made active, and it cannot be used.        *)
KrbDescribe(w) ==
  /\ w[2] \in Described
  /\ Settle(w, "Failure")
  /\ UNCHANGED running

(* note(): something that is over by the time it is recorded.              *)
KrbNote ==
  /\ \E operation \in Operations : Record(operation, "Success", rows)
  /\ UNCHANGED <<open, running, excused>>

(* The Clear button of one page: its own lines forget what they watched.   *)
KrbClear(p) ==
  /\ Clear
  /\ open' = [w \in Places |-> IF w[1] = p THEN 0 ELSE open[w]]
  /\ UNCHANGED <<running, excused>>

(* A page is left or loaded again, and nothing it waited for is heard of.  *)
KrbLeave(p) ==
  /\ running' = Elsewhere(p, {})
  /\ open' = [w \in Places |-> IF w[1] = p THEN 0 ELSE open[w]]
  /\ excused' = excused \union ({open[w] : w \in {p} \X Lines} \ {0})
  /\ UNCHANGED store

KrbNext ==
  \/ \E w \in Places :
       \/ KrbPress(w)
       \/ KrbDescribe(w)
       \/ \E r \in running[w] :
            \/ KrbContinue(w, r)
            \/ KrbEndQuietly(w, r)
            \/ \E status \in Results, over \in BOOLEAN :
                 KrbReport(w, r, status, over)
  \/ \E p \in Pages : KrbClear(p) \/ KrbLeave(p)
  \/ KrbNote
=============================================================================
