---------------------------- MODULE SsfPushPage ----------------------------
(***************************************************************************)
(* The Shared Signals page as the reader of a push inbox: client/src/ssf.js*)
(* asks the api for an inbox, collects what a transmitter pushed to it and *)
(* deletes it.  Each of the three is a fetch() whose continuation changes  *)
(* the page's inbox and cursor; nothing stops two of them from being under *)
(* way at once, and a request or its answer can be lost.                   *)
(***************************************************************************)
EXTENDS SsfReceiver

CONSTANTS
  Calls,    (* fetches that may be in flight at once                        *)
  NoInbox   (* the page has no inbox                                        *)

ASSUME PageAssumption == NoInbox \notin Ids

VARIABLES
  inbox,      (* the inbox the page believes the api holds for it           *)
  inboxSeen,  (* how many events of that inbox it believes it collected     *)
  call,       (* the fetches in flight                                      *)
  collected   (* history: <<inbox, token>> pairs drawn by this page         *)

pageVars == <<inbox, inboxSeen, call, collected>>
vars == <<receiverVars, pageVars>>

NoCall == [kind |-> "none"]
Request == [kind: {"create"}]
             \union [kind: {"drain"}, id: Ids, after: Nat]
             \union [kind: {"delete"}, id: Ids]
Answer == [kind: {"created", "drained"}, id: Ids, total: Nat,
           events: Seq(Nat)]
            \union [kind: {"deleted", "refused"}]

TypeOK ==
  /\ ReceiverTypeOK
  /\ inbox \in Ids \union {NoInbox}
  /\ inboxSeen \in Nat
  /\ call \in [Calls -> {NoCall} \union Request \union Answer]
  /\ collected \in SUBSET (Ids \X Nat)

Init ==
  /\ ReceiverInit
  /\ inbox = NoInbox
  /\ inboxSeen = 0
  /\ call = [c \in Calls |-> NoCall]
  /\ collected = {}

Set(c, x) == call' = [call EXCEPT ![c] = x]

---------------------------------------------------------------------------
(* The buttons.                                                            *)

Send(c, request) ==
  /\ call[c] = NoCall
  /\ Set(c, request)
  /\ UNCHANGED <<receiverVars, inbox, inboxSeen, collected>>

CreateReceiver(c) == Send(c, [kind |-> "create"])

(* The id and the cursor go into the URL when the button is pressed.       *)
DrainReceiver(c) ==
  /\ inbox # NoInbox
  /\ Send(c, [kind |-> "drain", id |-> inbox, after |-> inboxSeen])

(* Variant for checking TypeOK: Delete does not ask whether there is one.  *)
DeleteAnyway(c) == Send(c, [kind |-> "delete", id |-> inbox])

DeleteReceiver(c) ==
  /\ inbox # NoInbox
  /\ Send(c, [kind |-> "delete", id |-> inbox])

---------------------------------------------------------------------------
(* The api answers (the routes of api/server.js).                          *)

ServeCreate(c) ==
  /\ call[c].kind = "create"
  /\ \/ \E id \in Ids :
          /\ Create(id)
          /\ Set(c, [kind |-> "created", id |-> id, total |-> 0,
                     events |-> <<>>])
     \/ CreateRefused /\ Set(c, [kind |-> "refused"])
  /\ UNCHANGED <<inbox, inboxSeen, collected>>

ServeDrain(c) ==
  /\ call[c].kind = "drain"
  /\ Touch
  /\ Set(c, IF call[c].id \in Alive
            THEN Drained(call[c].id, call[c].after)
            ELSE [kind |-> "refused"])
  /\ UNCHANGED <<inbox, inboxSeen, collected>>

ServeDelete(c) ==
  /\ call[c].kind = "delete"
  /\ Remove(call[c].id)
  /\ Set(c, [kind |-> "deleted"])
  /\ UNCHANGED <<inbox, inboxSeen, collected>>

Serve(c) == ServeCreate(c) \/ ServeDrain(c) \/ ServeDelete(c)

---------------------------------------------------------------------------
(* The continuations.                                                      *)

TakeCreated(c) ==
  /\ call[c].kind = "created"
  /\ inbox' = call[c].id
  /\ inboxSeen' = 0
  /\ UNCHANGED collected

(* Variant for checking CursorSound: the page counts what it was handed.   *)
TakeDrainedCounting(c) ==
  /\ call[c].kind = "drained"
  /\ inbox' = call[c].id
  /\ inboxSeen' = inboxSeen + Len(call[c].events)
  /\ collected' = collected \union
       {<<call[c].id, call[c].events[i]>> : i \in 1..Len(call[c].events)}

(* The page takes the api's own count for its cursor.                      *)
TakeDrained(c) ==
  /\ call[c].kind = "drained"
  /\ inbox' = call[c].id
  /\ inboxSeen' = call[c].total
  /\ collected' = collected \union
       {<<call[c].id, call[c].events[i]>> : i \in 1..Len(call[c].events)}

(* Whatever the api answered, a 404 included.                              *)
TakeDeleted(c) ==
  /\ call[c].kind = "deleted"
  /\ inbox' = NoInbox
  /\ inboxSeen' = 0
  /\ UNCHANGED collected

TakeRefused(c) ==
  /\ call[c].kind = "refused"
  /\ UNCHANGED <<inbox, inboxSeen, collected>>

Take(c) ==
  /\ TakeCreated(c) \/ TakeDrained(c) \/ TakeDeleted(c) \/ TakeRefused(c)
  /\ Set(c, NoCall)
  /\ UNCHANGED receiverVars

---------------------------------------------------------------------------
(* The network, the transmitter and the browser.                           *)

Lose(c) ==
  /\ call[c] # NoCall
  /\ Set(c, NoCall)
  /\ UNCHANGED <<receiverVars, inbox, inboxSeen, collected>>

(* Module state only: an inbox does not survive a reload, the history of   *)
(* what was drawn does.                                                    *)
Reload ==
  /\ inbox' = NoInbox
  /\ inboxSeen' = 0
  /\ call' = [c \in Calls |-> NoCall]
  /\ UNCHANGED <<receiverVars, collected>>

Push(id) == Deliver(id) /\ UNCHANGED pageVars

Others == (Touch \/ Restart \/ Tick) /\ UNCHANGED pageVars

Next ==
  \/ \E c \in Calls :
       \/ CreateReceiver(c) \/ DrainReceiver(c) \/ DeleteReceiver(c)
       \/ Serve(c) \/ Take(c) \/ Lose(c)
  \/ Reload
  \/ \E id \in Ids : Push(id)
  \/ Others

Spec == Init /\ [][Next]_vars

(* Every fetch settles; a reader goes on pressing Collect, the api serves  *)
(* it and its answers are not lost for ever.                               *)
Fairness ==
  /\ \A c \in Calls : WF_vars(Take(c) \/ Lose(c))
  /\ SF_vars(\E c \in Calls : DrainReceiver(c))
  /\ SF_vars(\E c \in Calls : ServeDrain(c))
  /\ SF_vars(\E c \in Calls : call[c].kind = "drained" /\ Take(c))

FairSpec == Spec /\ Fairness

---------------------------------------------------------------------------
(* Properties.                                                             *)

(* Until a token comes that the ring had to shift for, the cursor means    *)
(* what the page says it means: every token up to it was collected,        *)
(* whatever order answers came in and whichever were lost.  (ssf.js, "How  *)
(* many events this page has already collected from that inbox")           *)
Overfull(id) == \E n \in MaxEvents+1..MaxPushes : <<id, n>> \in collected

CursorSound ==
  \A n \in 1..inboxSeen : <<inbox, n>> \in collected \/ Overfull(inbox)

(* A token that stays in the ring of the inbox a page goes on draining is  *)
(* collected, as long as the ring has not shifted.  (drain(), "the next    *)
(* poll catches up")                                                       *)
Waiting(id, n) ==
  /\ inbox = id
  /\ id \in Alive
  /\ inboxes[id].dropped = 0
  /\ \E i \in 1..Len(inboxes[id].events) : inboxes[id].events[i] = n

NextPollCatchesUp ==
  \A id \in Ids, n \in 1..MaxEvents :
    <>[]Waiting(id, n) => <>(<<id, n>> \in collected)
=============================================================================
