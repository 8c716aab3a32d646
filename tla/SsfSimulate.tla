---------------------------- MODULE SsfSimulate ----------------------------
(***************************************************************************)
(* The CAEP and the RISC pane of the Shared Signals page                   *)
(* (client/src/ssf.js): a press of one of their buttons changes the model  *)
(* of the session or of the account, signs the event and pushes it to the  *)
(* receiver endpoint of the Transmit pane, and is counted when the push has*)
(* come to an end.  Nothing keeps a reader from pressing again, seeding or *)
(* resetting a model, or leaving the page before that.                     *)
(*                                                                         *)
(* The models are objects: a press holds on to the one it changed, while   *)
(* seeding puts another in its place.  The last of each sequence is the one*)
(* the pane shows.                                                         *)
(***************************************************************************)
EXTENDS CaepSession, RiscAccount, Sequences, FiniteSets

CONSTANTS
  MaxPresses,  (* bound: presses that are not refused                       *)
  MaxTurns     (* bound: seeds and resets of the models                     *)

ASSUME SimulateAssumption ==
  MaxPresses \in Nat /\ MaxTurns \in Nat

VARIABLES
  sessions,   (* the sessions so far; the last is caepModel                 *)
  accounts,   (* the accounts so far; the last is riscModel                 *)
  log         (* the presses so far, each with its push                     *)

vars == <<sessions, accounts, log>>

caepModel == sessions[Len(sessions)]
riscModel == accounts[Len(accounts)]

(* model and era: which object a press is about and how many resets that   *)
(* one had seen; counted: how many when the press was counted.  A push is  *)
(* "pending" from the signature to the receiver's answer; it is "unsent" if*)
(* nothing was signed or there was no endpoint, "suppressed" if the gate   *)
(* held it back, "gone" with the page.                                     *)
NotCounted == -1
Pushes == [model: Nat \ {0}, era: Nat, counted: Nat \union {NotCounted},
           state: {"pending", "sent", "unsent", "suppressed", "gone"}]

(* honour: the box, where gate() looks at it.                              *)
RiscEvents == [kind: RiscKinds, honour: BOOLEAN]

Presses == [pane: {"caep"}, event: CaepEvents, push: Pushes]
             \union [pane: {"risc"}, event: RiscEvents, push: Pushes]

TypeOK ==
  /\ sessions \in Seq(Sessions) /\ sessions # <<>>
  /\ accounts \in Seq(Accounts) /\ accounts # <<>>
  /\ log \in Seq(Presses)
  /\ \A i \in 1..Len(log) :
       log[i].push.model <= Len(IF log[i].pane = "caep" THEN sessions
                                                        ELSE accounts)

Init ==
  /\ sessions = <<NewSession>>
  /\ accounts = <<NewAccount>>
  /\ log = <<>>

(* caepFromFields() and riscFromFields() are left out with the fields they *)
(* read.                                                                   *)
Put(models, m, model) == [models EXCEPT ![m] = model]

---------------------------------------------------------------------------
(* A button is pressed.                                                    *)

(* A press with nothing to sign with ends before anything else can happen, *)
(* and is counted all the same.                                            *)
Pressed(pane, models, event, state) ==
  LET resets == models[Len(models)].resets
  IN log' = Append(log,
              [pane |-> pane, event |-> event,
               push |-> [model |-> Len(models), era |-> resets,
                         counted |-> IF state = "unsent" THEN resets
                                                         ELSE NotCounted,
                         state |-> state]])

(* caepSimulate()                                                          *)
CaepSimulate(event) ==
  LET session == AfterCaep(caepModel, event)
  IN /\ Len(log) < MaxPresses
     /\ event \in Suggested(caepModel)
     /\ ~SessionRefuses(caepModel, event)
     /\ \/ /\ sessions' = Put(sessions, Len(sessions), session)
           /\ Pressed("caep", sessions, event, "pending")
        \/ /\ sessions' = Put(sessions, Len(sessions),
                              SessionCounted(session))
           /\ Pressed("caep", sessions, event, "unsent")
     /\ UNCHANGED accounts

(* riscSimulate(): refuse, then gate, then apply, then push, then count.   *)
RiscSuppressed(kind) ==
  /\ Len(log) < MaxPresses
  /\ ~AccountRefuses(riscModel, kind)
  /\ ~Gate(riscModel, kind, TRUE)
  /\ accounts' = Put(accounts, Len(accounts), AccountSuppressed(riscModel))
  /\ Pressed("risc", accounts, [kind |-> kind, honour |-> TRUE], "suppressed")
  /\ UNCHANGED sessions

RiscSimulate(kind, honour) ==
  LET account == AfterRisc(riscModel, kind)
      event == [kind |-> kind, honour |-> honour]
  IN /\ Len(log) < MaxPresses
     /\ ~AccountRefuses(riscModel, kind)
     /\ Gate(riscModel, kind, honour)
     /\ \/ /\ accounts' = Put(accounts, Len(accounts), account)
           /\ Pressed("risc", accounts, event, "pending")
        \/ /\ accounts' = Put(accounts, Len(accounts), AccountCounted(account))
           /\ Pressed("risc", accounts, event, "unsent")
     /\ UNCHANGED sessions

(* A press does nothing if the payload, which the reader fills in, is not  *)
(* valid, or if the model refuses the event.                               *)
PressRefused == UNCHANGED vars

---------------------------------------------------------------------------
(* A push comes to an end, whichever way: it could not be signed, there is *)
(* no endpoint, or the receiver answered or could not be reached.  record()*)
(* acts on the object the press was about.                                 *)

Endings == {"sent", "unsent"}

Ended(i, ending, models) ==
  /\ log[i].push.state = "pending"
  /\ log' = [log EXCEPT ![i].push.state = ending,
                        ![i].push.counted = models[log[i].push.model].resets]

(* Variant for checking CountsAddUp: record() on the model the pane shows. *)
CaepEndedOnShown(i, ending) ==
  /\ log[i].pane = "caep"
  /\ Ended(i, ending, sessions)
  /\ sessions' = Put(sessions, Len(sessions), SessionCounted(caepModel))
  /\ UNCHANGED accounts

CaepEnded(i, ending) ==
  LET m == log[i].push.model
  IN /\ log[i].pane = "caep"
     /\ Ended(i, ending, sessions)
     /\ sessions' = Put(sessions, m, SessionCounted(sessions[m]))
     /\ UNCHANGED accounts

RiscEnded(i, ending) ==
  LET m == log[i].push.model
  IN /\ log[i].pane = "risc"
     /\ Ended(i, ending, accounts)
     /\ accounts' = Put(accounts, m, AccountCounted(accounts[m]))
     /\ UNCHANGED sessions

---------------------------------------------------------------------------
(* Seeding, resetting and leaving.                                         *)

(* Of the models shown: what was reset and replaced is not counted again.  *)
Turns == Len(sessions) + Len(accounts) - 2 + caepModel.resets
           + riscModel.resets

CaepFillFromToken ==
  /\ Turns < MaxTurns
  /\ sessions' = Append(sessions, NewSession)
  /\ UNCHANGED <<accounts, log>>

RiscFillFromToken ==
  /\ Turns < MaxTurns
  /\ accounts' = Append(accounts, NewAccount)
  /\ UNCHANGED <<sessions, log>>

(* resetCaepSession(), and resetSession(), which leaves the account alone. *)
ResetCaepSession ==
  /\ Turns < MaxTurns
  /\ sessions' = Put(sessions, Len(sessions), SessionReset(caepModel))
  /\ UNCHANGED <<accounts, log>>

ResetRiscAccount ==
  /\ Turns < MaxTurns
  /\ accounts' = Put(accounts, Len(accounts), AccountReset(riscModel))
  /\ UNCHANGED <<sessions, log>>

(* The page is loaded again, possibly with a session handed over that      *)
(* seeds both models.  What was being pushed is no longer waited for.      *)
Reload ==
  /\ Turns < MaxTurns
  /\ sessions' = Append(sessions, NewSession)
  /\ accounts' = Append(accounts, NewAccount)
  /\ log' = [i \in 1..Len(log) |->
               IF log[i].push.state = "pending"
               THEN [log[i] EXCEPT !.push.state = "gone"]
               ELSE log[i]]

(* The box makes no difference to an opt-out event.                        *)
Honour(kind) == IF kind \in OptOutEvents THEN {TRUE} ELSE BOOLEAN

Next ==
  \/ \E event \in Suggested(caepModel) : CaepSimulate(event)
  \/ \E kind \in RiscKinds :
       \/ RiscSuppressed(kind)
       \/ \E honour \in Honour(kind) : RiscSimulate(kind, honour)
  \/ PressRefused
  \/ \E i \in 1..Len(log), ending \in Endings :
       CaepEnded(i, ending) \/ RiscEnded(i, ending)
  \/ CaepFillFromToken \/ RiscFillFromToken
  \/ ResetCaepSession \/ ResetRiscAccount
  \/ Reload

Spec == Init /\ [][Next]_vars

---------------------------------------------------------------------------
(* Properties.                                                             *)

(* The presses of one pane about one object since one of its resets.       *)
Together(i, j) ==
  /\ log[i].pane = log[j].pane
  /\ log[i].push.model = log[j].push.model
  /\ log[i].push.era = log[j].push.era

Built(i) == log[i].push.state # "suppressed"

(* The pushes counted on an object since one of its resets, and those of   *)
(* them that were made.                                                    *)
Counted(pane, m, resets) ==
  {i \in 1..Len(log) :
     /\ log[i].pane = pane /\ log[i].push.model = m
     /\ log[i].push.counted = resets}
Sent(S) == {i \in S : log[i].push.state = "sent"}

HeldBack(m, resets) ==
  {i \in 1..Len(log) :
     /\ log[i].pane = "risc" /\ log[i].push.model = m
     /\ log[i].push.era = resets /\ ~Built(i)}

(* A count has everything that was sent, and if nothing went unsent it has *)
(* no more.                                                                *)
IsCountOf(total, S) ==
  /\ total >= Cardinality(Sent(S))
  /\ Sent(S) = S => total = Cardinality(S)

(* Whatever is pressed, seeded or reset while events are being pushed, an  *)
(* object shows one count for every event about it that was sent and has   *)
(* come to an end since it was last reset, no more of them unless a press  *)
(* about it could not be sent, and one for every event held back.          *)
(* (record(), recordSuppressed(), reset(); "the COUNT is of what was       *)
(* actually sent", which a press that is not sent breaks)                  *)
CountsAddUp ==
  /\ \A m \in 1..Len(sessions) :
       IsCountOf(sessions[m].total, Counted("caep", m, sessions[m].resets))
  /\ \A m \in 1..Len(accounts) :
       /\ IsCountOf(accounts[m].total, Counted("risc", m, accounts[m].resets))
       /\ accounts[m].suppressed = Cardinality(HeldBack(m, accounts[m].resets))

(* What an event says a session was at before is what the event before it  *)
(* said it was at now, so a receiver that finds a gap has missed one, or   *)
(* the reader has begun anew.  (suggest(), apply())                        *)
Changes(i, a) ==
  /\ log[i].pane = "caep"
  /\ log[i].event.kind = "change"
  /\ log[i].event.aspect = a

EachSaysWhatWasHeld ==
  \A a \in Aspects, i, j \in 1..Len(log) :
    /\ i < j /\ Together(i, j) /\ Changes(i, a) /\ Changes(j, a)
    /\ \A k \in i+1..j-1 : ~(Together(i, k) /\ Changes(k, a))
    => log[j].event.previous = log[i].event.current

(* A session said to be revoked is not said to be used before it is        *)
(* established again, and an account said to be purged is never said to be *)
(* enabled, unless the reader resets it.  (apply(), refusals())            *)
NothingContradicted ==
  \A i, j \in 1..Len(log) :
    i < j /\ Together(i, j) /\ Built(i) /\ Built(j) =>
      /\ /\ log[i].event.kind = "session-revoked"
         /\ log[j].event.kind = "session-presented"
         => \E k \in i+1..j-1 :
              /\ Together(i, k)
              /\ log[k].event.kind = "session-established"
      /\ ~(/\ log[i].event.kind = "account-purged"
           /\ log[j].event.kind = "account-enabled")

(* The opt-out events about the account of press i, before it.             *)
OptOutsBefore(i) ==
  {j \in 1..i-1 : Together(i, j) /\ log[j].event.kind \in OptOutEvents}

(* The last of them says that the opt-out has become effective.            *)
Announced(i) ==
  \E j \in OptOutsBefore(i) :
    /\ log[j].event.kind = "opt-out-effective"
    /\ \A k \in OptOutsBefore(i) : k <= j

(* As long as every opt-out event about an account was sent, an event about*)
(* it is held back exactly when the box is ticked and the last of them said*)
(* that the opt-out is effective; one that announces an opt-out never is,  *)
(* sent or not.  (gate(), "opt-out-effective is the event that ANNOUNCES   *)
(* the silence")                                                           *)
SilenceAnnounced ==
  \A i \in 1..Len(log) :
    log[i].pane = "risc" =>
      /\ log[i].event.kind \in OptOutEvents => Built(i)
      /\ Sent(OptOutsBefore(i)) = OptOutsBefore(i) =>
           (~Built(i) <=> /\ log[i].event.honour
                         /\ log[i].event.kind \notin OptOutEvents
                         /\ Announced(i))
=============================================================================
