---------------------------- MODULE SsfReceiver ----------------------------
(***************************************************************************)
(* The push inboxes the api hosts (api/ssf_receiver.js): an RFC 8935 end   *)
(* point a transmitter can reach on behalf of a page, which cannot be one. *)
(* An inbox is a bounded ring with a lifetime; both bounds are enforced    *)
(* only when some call touches the module, never by a timer.               *)
(*                                                                         *)
(* A Security Event Token is identified by its position among the tokens   *)
(* accepted by its inbox, so an inbox that holds <<3, 4>> has accepted at  *)
(* least four and holds the third and the fourth.  The feature is enabled. *)
(***************************************************************************)
EXTENDS Integers, Sequences, FiniteSets

CONSTANTS
  Ids,         (* identifiers crypto.randomBytes() can produce              *)
  MaxInboxes,  (* ssfReceiverMaxInboxes                                     *)
  MaxEvents,   (* ssfReceiverMaxEvents                                      *)
  TTL,         (* ssfReceiverTtlMs, in clock units                          *)
  MaxPushes    (* bound: tokens pushed to one inbox                         *)

ASSUME ReceiverAssumption ==
  /\ MaxInboxes \in Nat \ {0}
  /\ MaxEvents \in Nat \ {0}
  /\ TTL \in Nat \ {0}
  /\ MaxPushes \in Nat

VARIABLES
  inboxes,  (* the Map from an id to the inbox it names                     *)
  issued    (* ids handed out so far; randomBytes() never repeats one       *)

receiverVars == <<inboxes, issued>>

(* left: time to live, -1 once it has passed; cleared: how many tokens the *)
(* answers to clear() said were dropped (history).                         *)
Expired == -1

Inbox == [left: Expired..TTL, pushes: Nat, dropped: Nat, cleared: Nat,
          events: Seq(Nat)]

ReceiverTypeOK ==
  /\ DOMAIN inboxes \subseteq issued
  /\ \A id \in DOMAIN inboxes : inboxes[id] \in Inbox
  /\ issued \subseteq Ids

ReceiverInit == inboxes = <<>> /\ issued = {}

(* Variant for checking EveryCallSweeps: nothing is swept.                 *)
AllKept == DOMAIN inboxes

(* sweep(): the inboxes that survive it.                                   *)
Alive == {id \in DOMAIN inboxes : inboxes[id].left # Expired}
Swept == [id \in Alive |-> inboxes[id]]

(* A call that finds nothing to act on: an unknown or expired id, an empty *)
(* or oversized body.  It has swept all the same.                          *)
Touch == inboxes' = Swept /\ UNCHANGED issued

(* Variant for checking InboxesBounded: the limit compared with `>`.       *)
OverLimit == Cardinality(Alive) > MaxInboxes
AtLimit == Cardinality(Alive) >= MaxInboxes

Create(id) ==
  /\ ~AtLimit
  /\ id \in Ids \ issued
  /\ issued' = issued \union {id}
  /\ inboxes' = [i \in Alive \union {id} |->
                   IF i = id
                   THEN [left |-> TTL, pushes |-> 0, dropped |-> 0,
                         cleared |-> 0, events |-> <<>>]
                   ELSE inboxes[i]]

CreateRefused == AtLimit /\ Touch

Update(id, box) ==
  /\ inboxes' = [Swept EXCEPT ![id] = box]
  /\ UNCHANGED issued

(* Variant for checking RingHoldsNewest: the shift is not counted.         *)
DeliverUncounted(id) ==
  /\ id \in Alive
  /\ inboxes[id].pushes < MaxPushes
  /\ LET box == inboxes[id]
         n == box.pushes + 1
         kept == IF Len(box.events) >= MaxEvents THEN Tail(box.events)
                                                 ELSE box.events
     IN Update(id, [box EXCEPT !.pushes = n, !.events = Append(kept, n)])

(* deliver(): a full ring loses its oldest token to the new one.           *)
Deliver(id) ==
  /\ id \in Alive
  /\ inboxes[id].pushes < MaxPushes
  /\ LET box == inboxes[id]
         n == box.pushes + 1
     IN IF Len(box.events) >= MaxEvents
        THEN Update(id, [box EXCEPT !.pushes = n,
                                    !.dropped = box.dropped + 1,
                                    !.events = Append(Tail(box.events), n)])
        ELSE Update(id, [box EXCEPT !.pushes = n,
                                    !.events = Append(box.events, n)])

(* drain(): the answer to a page that says it has seen `after` of them.    *)
Clamp(after, events) == IF after > Len(events) THEN Len(events) ELSE after

(* Variant for checking NextPollCatchesUp: the cursor taken for the index  *)
(* of the last event seen, counting from zero.                             *)
DrainedPast(id, after) ==
  LET events == inboxes[id].events
  IN [kind |-> "drained",
      id |-> id,
      total |-> Len(events),
      events |-> SubSeq(events, Clamp(after, events) + 2, Len(events))]

Drained(id, after) ==
  LET events == inboxes[id].events
  IN [kind |-> "drained",
      id |-> id,
      total |-> Len(events),
      events |-> SubSeq(events, Clamp(after, events) + 1, Len(events))]

Clear(id) ==
  /\ id \in Alive
  /\ LET box == inboxes[id]
     IN Update(id, [box EXCEPT !.events = <<>>,
                               !.cleared = box.cleared + Len(box.events)])

Remove(id) ==
  /\ inboxes' = [i \in Alive \ {id} |-> inboxes[i]]
  /\ UNCHANGED issued

(* The process restarts: what it held was in memory.                       *)
Restart == inboxes' = <<>> /\ UNCHANGED issued

Tick ==
  /\ inboxes' = [id \in DOMAIN inboxes |->
                   [inboxes[id] EXCEPT !.left =
                      IF inboxes[id].left = Expired THEN Expired
                                                    ELSE inboxes[id].left - 1]]
  /\ UNCHANGED issued

ReceiverNext ==
  \/ \E id \in Ids : Create(id) \/ Deliver(id) \/ Clear(id) \/ Remove(id)
  \/ CreateRefused
  \/ Touch
  \/ Restart
  \/ Tick

ReceiverSpec == ReceiverInit /\ [][ReceiverNext]_receiverVars

---------------------------------------------------------------------------
(* Properties.                                                             *)

(* Every ring is within its cap and holds exactly the newest of the tokens *)
(* accepted, in order, and the counts an inbox reports account for every   *)
(* one that is not there.  (deliver(), clear(), describe())                *)
RingHoldsNewest ==
  \A id \in DOMAIN inboxes :
    LET box == inboxes[id]
    IN /\ Len(box.events) <= MaxEvents
       /\ box.pushes = box.dropped + box.cleared + Len(box.events)
       /\ \A i \in 1..Len(box.events) :
            box.events[i] = box.pushes - Len(box.events) + i

(* No more inboxes are held than configured, expired ones included.        *)
(* (create())                                                              *)
InboxesBounded == Cardinality(DOMAIN inboxes) <= MaxInboxes

(* Whatever call touches the module, no expired inbox is left after it,    *)
(* and none was acted on: only the passing of time leaves one behind.      *)
(* (sweep(), "called from every entry point rather than on a timer")       *)
EveryCallSweeps ==
  [][Tick \/ \A id \in DOMAIN inboxes' :
               /\ inboxes'[id].left # Expired
               /\ id \in DOMAIN inboxes => inboxes[id].left # Expired
    ]_receiverVars
=============================================================================
