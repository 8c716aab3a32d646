-------------------------- MODULE RedirectHistory --------------------------
(***************************************************************************)
(* How the SAML, WS-Federation and WS-Trust pages use the Operations       *)
(* History.  The page that makes a call is not the page that learns how it *)
(* went: the first two hand the browser to the peer and resolve, on the    *)
(* response page, the newest row of the operation that is Sent; WS-Trust   *)
(* passes the row's number with the answer, through localStorage.          *)
(***************************************************************************)
EXTENDS OpHistory

CONSTANT
  SignIn      (* the operation an unreadable WS-Federation answer is taken  *)
              (* to be about                                                *)

ASSUME RedirectAssumption == SignIn \in Operations

VARIABLES
  at,         (* per page: "request", "away", "loading" or "response"       *)
  about,      (* per page: the operation its response says it answers       *)
  exchange    (* localStorage, WS-Trust: the row the stored answer is for,  *)
              (* or 0, and its outcome                                      *)

Stops == {"request", "away", "loading", "response"}
NoExchange == [row |-> 0, outcome |-> "Failure"]

---------------------------------------------------------------------------
(* SAML and WS-Federation.                                                 *)

(* Recorded before the browser leaves.  If the hand-over throws, the row   *)
(* is corrected in place, and the browser stays; so it does for what needs *)
(* no peer.                                                                *)
RedSend(p, operation) ==
  /\ at[p] = "request"
  /\ \E result \in Results, next \in {"request", "away"} :
       /\ result # "Sent" => next = "request"
       /\ Record(operation, result, rows)
       /\ at' = [at EXCEPT ![p] = next]
  /\ UNCHANGED <<about, excused>>

(* The peer sends the browser back, asked or not.                          *)
RedLand(p, operation) ==
  /\ at' = [at EXCEPT ![p] = "loading"]
  /\ about' = [about EXCEPT ![p] = operation]
  /\ UNCHANGED <<store, excused>>

(* An unreadable SAML answer resolves whatever is newest.                  *)
Unreadable == IF workflow = "saml" THEN Operations ELSE {SignIn}

(* What was fetched is read, cannot be read, or (SAML) is gone and the     *)
(* response shown last is shown again, which resolves nothing.             *)
RedResolve(p) ==
  /\ at[p] = "loading"
  /\ at' = [at EXCEPT ![p] = "response"]
  /\ \/ \E outcome \in Outcomes : ResolvePending(outcome, {about[p]})
     \/ ResolvePending("Failure", Unreadable)
     \/ workflow = "saml" /\ UNCHANGED <<store, excused>>
  /\ UNCHANGED about

(* The address still names the answer, and the api still has it.           *)
RedReload(p) ==
  /\ at[p] = "response"
  /\ at' = [at EXCEPT ![p] = "loading"]
  /\ UNCHANGED <<about, store, excused>>

(* WS-Federation: a wresult is pasted into the page.                       *)
RedPaste(p) ==
  /\ workflow = "wsfed"
  /\ at[p] = "response"
  /\ \E outcome \in Outcomes : ResolvePending(outcome, {SignIn})
  /\ UNCHANGED <<at, about>>

(* The tab goes back to the request page.                                  *)
RedReturn(p) ==
  /\ at' = [at EXCEPT ![p] = "request"]
  /\ UNCHANGED <<about, store, excused>>

RedNext ==
  \/ \E p \in Pages :
       \/ \E operation \in Operations :
            RedSend(p, operation) \/ RedLand(p, operation)
       \/ RedResolve(p)
       \/ RedReload(p)
       \/ RedPaste(p)
       \/ RedReturn(p)
  \/ Clear /\ UNCHANGED <<at, about, excused>>

---------------------------------------------------------------------------
(* WS-Trust.                                                               *)

(* The STS answered: the row is recorded, and stored with the answer for   *)
(* the response page, over whatever another tab stored there.              *)
WstAnswer(operation, outcome) ==
  /\ Record(operation, "Sent", rows)
  /\ \/ /\ exchange' = [row |-> Row, outcome |-> outcome]
        /\ excused' = excused \union ({exchange.row} \ {0})
     \/ /\ exchange' = exchange
        /\ excused' = excused \union {Row}

(* Nothing came back, or nothing was sent.                                 *)
WstFailure(operation) ==
  Record(operation, "Failure", rows) /\ UNCHANGED <<exchange, excused>>

(* The response page is opened, by whichever tab, for the first time or    *)
(* again: one answer resolves one call, and the number is forgotten unless *)
(* the storage refuses that.                                               *)
WstOpen ==
  /\ exchange.row # 0
  /\ Update(exchange.row, exchange.outcome)
  /\ exchange' \in {[exchange EXCEPT !.row = 0], exchange}

WstNext ==
  \/ \E operation \in Operations :
       \/ \E outcome \in Outcomes : WstAnswer(operation, outcome)
       \/ WstFailure(operation)
  \/ WstOpen
  \/ Clear /\ UNCHANGED <<exchange, excused>>
=============================================================================
