---------------------------- MODULE OpHistories ----------------------------
(***************************************************************************)
(* The Operations History under each of the ways the pages use it.  A      *)
(* workflow has a log of its own, so a behaviour is about one of them.     *)
(***************************************************************************)
EXTENDS KerberosHistory, DirectHistory, RedirectHistory

Workflows == {"kerberos", "direct", "saml", "wsfed", "wstrust"}

pageVars == <<running, open, at, about, exchange>>
vars == <<workflow, store, excused, pageVars>>

TypeOK ==
  /\ workflow \in Workflows
  /\ rows \in Seq(Results)
  /\ op \in Seq(Operations) /\ Len(op) = Len(rows)
  /\ kept \subseteq DOMAIN rows /\ Cardinality(kept) <= Limit
  /\ excused \subseteq DOMAIN rows
  /\ running \in [Places -> SUBSET (DOMAIN rows)]
  /\ open \in [Places -> {0} \union DOMAIN rows]
  /\ at \in [Pages -> Stops]
  /\ about \in [Pages -> Operations]
  /\ exchange \in [row: {0} \union DOMAIN rows, outcome: Outcomes]

Init ==
  /\ workflow \in Workflows
  /\ rows = <<>>
  /\ op = <<>>
  /\ kept = {}
  /\ excused = {}
  /\ running = [w \in Places |-> {}]
  /\ open = NothingOpen
  /\ at = [p \in Pages |-> "request"]
  /\ about = [p \in Pages |-> SignIn]
  /\ exchange = NoExchange

Next ==
  /\ workflow' = workflow
  /\ \/ /\ workflow = "kerberos"
        /\ KrbNext
        /\ UNCHANGED <<at, about, exchange>>
     \/ /\ workflow = "direct"
        /\ DirectNext
        /\ UNCHANGED <<open, at, about, exchange>>
     \/ /\ workflow \in {"saml", "wsfed"}
        /\ RedNext
        /\ UNCHANGED <<running, open, exchange>>
     \/ /\ workflow = "wstrust"
        /\ WstNext
        /\ UNCHANGED <<running, open, at, about>>

Spec == Init /\ [][Next]_vars

---------------------------------------------------------------------------
(* What the code has in hand to close row r with: a line that waits for it *)
(* and the handler that will report there, or what recorded it.            *)
Watched(r) ==
  \/ \E w \in Places : open[w] = r /\ r \in running[w]
  \/ workflow = "direct" /\ \E w \in Places : r \in running[w]
  \/ exchange.row = r

(* A row that says Sent has somebody still at work who will close it,      *)
(* unless it was superseded on its line, left with its page, refused by    *)
(* the storage, or its handler ended on a pending status: a status written *)
(* on the way, or by another handler of the line, leaves no other row      *)
(* behind.  (kerberos_history.js: "A row nobody closes stays Sent for      *)
(* ever")                                                                  *)
SentIsWatched ==
  workflow \in {"kerberos", "direct", "wstrust"} =>
    \A r \in kept : rows[r] = "Sent" => r \in excused \/ Watched(r)

(* What a line waits to close is Sent, if the log still has it, and no     *)
(* other line, of this page or another, waits to close it too.             *)
(* (kerberos_history.js: "only a status on THAT line closes it")           *)
WatchedIsSent ==
  \A w \in Places :
    open[w] # 0 =>
      /\ open[w] \in kept => rows[open[w]] = "Sent"
      /\ \A v \in Places : open[v] = open[w] => v = w

(* An outcome, once written, stands, whatever is answered, pasted, cleared *)
(* or loaded again, by whichever page; rows go oldest first.  (op_history  *)
(* .js: three results, of which "Sent" alone is open)                      *)
Log == INSTANCE CallLog
ImplementsCallLog == Log!Spec
=============================================================================
