------------------------ MODULE SsfPushPage_proofs -------------------------
(***************************************************************************)
(* Proofs about the push inboxes and the page that reads one, for any      *)
(* number of fetches and whatever the receiver's caps, lifetime and ids:   *)
(* what the receiver keeps, that it keeps it under the page, and that the  *)
(* cursor means what it says.                                              *)
(***************************************************************************)
EXTENDS SsfPushPage, FiniteSetTheorems, TLAPS

---------------------------------------------------------------------------
(* The receiver by itself.                                                 *)

(* The invariant of one inbox: its type, and what RingHoldsNewest says.    *)
BoxOK(box) ==
  /\ box \in Inbox
  /\ Len(box.events) <= MaxEvents
  /\ box.pushes = box.dropped + box.cleared + Len(box.events)
  /\ \A i \in 1..Len(box.events) :
       box.events[i] = box.pushes - Len(box.events) + i

BoxesOK == \A id \in DOMAIN inboxes : BoxOK(inboxes[id])

(* events is what is left of the first p tokens: the newest, in order.     *)
Newest(events, p) ==
  \A i \in 1..Len(events) : events[i] = p - Len(events) + i

(* A token pushed is the newest.                                           *)
LEMMA NewestAfterAppend ==
  ASSUME NEW e \in Seq(Nat), NEW p \in Nat, Newest(e, p)
  PROVE  Newest(Append(e, p + 1), p + 1)
<1> DEFINE x == Append(e, p + 1)
<1>1. Len(x) = Len(e) + 1 /\ Len(e) \in Nat
      /\ \A i \in 1..Len(x) : x[i] = IF i = Len(e) + 1 THEN p + 1 ELSE e[i]
  OBVIOUS
<1> HIDE DEF x
<1>2. ASSUME NEW i \in 1..Len(x)
      PROVE  x[i] = (p + 1) - Len(x) + i
  <2>1. CASE i = Len(e) + 1
    BY <1>1, <2>1
  <2>2. CASE i # Len(e) + 1
    <3>1. i \in 1..Len(e) /\ x[i] = e[i]
      BY <1>1, <2>2
    <3>2. e[i] = p - Len(e) + i
      BY <3>1 DEF Newest
    <3> QED
      BY <1>1, <3>1, <3>2
  <2> QED
    BY <2>1, <2>2
<1>3. Newest(x, p + 1)
  BY <1>2 DEF Newest
<1> QED
  BY <1>3 DEF x

(* Dropping the oldest leaves the newest.                                  *)
LEMMA NewestAfterShift ==
  ASSUME NEW e \in Seq(Nat), NEW p \in Nat, Newest(e, p), Len(e) > 0
  PROVE  /\ Newest(Tail(e), p)
         /\ Tail(e) \in Seq(Nat)
         /\ Len(Tail(e)) = Len(e) - 1
<1>1. Tail(e) \in Seq(Nat) /\ Len(Tail(e)) = Len(e) - 1
      /\ \A i \in 1..Len(Tail(e)) : Tail(e)[i] = e[i + 1]
  OBVIOUS
<1>2. \A i \in 1..Len(Tail(e)) : i + 1 \in 1..Len(e)
  BY <1>1
<1> QED
  BY <1>1, <1>2 DEF Newest

(* A box given by its members is one that holds the newest of its tokens.  *)
LEMMA BoxOKMembers ==
  ASSUME NEW box, box \in Inbox
  PROVE  BoxOK(box) <=> /\ Len(box.events) <= MaxEvents
                        /\ box.pushes = box.dropped + box.cleared
                                          + Len(box.events)
                        /\ Newest(box.events, box.pushes)
BY DEF BoxOK, Newest

(* The members of a box that is as it should be.                           *)
LEMMA BoxTyped ==
  ASSUME NEW box, BoxOK(box)
  PROVE  /\ box \in Inbox /\ box.left \in Expired..TTL
         /\ box.pushes \in Nat /\ box.dropped \in Nat /\ box.cleared \in Nat
         /\ box.events \in Seq(Nat) /\ Len(box.events) \in Nat
         /\ Len(box.events) <= MaxEvents
         /\ box.pushes = box.dropped + box.cleared + Len(box.events)
         /\ Newest(box.events, box.pushes)
BY DEF BoxOK, Inbox, Newest

(* What deliver() makes of a full ring.                                    *)
LEMMA ShiftedBox ==
  ASSUME NEW box, BoxOK(box), Len(box.events) >= MaxEvents
  PROVE  BoxOK([box EXCEPT !.pushes = box.pushes + 1,
                           !.dropped = box.dropped + 1,
                           !.events = Append(Tail(box.events),
                                             box.pushes + 1)])
<1> DEFINE p == box.pushes + 1
           x == Append(Tail(box.events), p)
           new == [box EXCEPT !.pushes = p, !.dropped = box.dropped + 1,
                              !.events = x]
<1>1. Len(box.events) > 0
  BY BoxTyped, ReceiverAssumption
<1>2. Newest(Tail(box.events), box.pushes) /\ Tail(box.events) \in Seq(Nat)
      /\ Len(Tail(box.events)) = Len(box.events) - 1
  BY <1>1, BoxTyped, NewestAfterShift
<1>3. Newest(x, p)
  BY <1>2, BoxTyped, NewestAfterAppend
<1>4. x \in Seq(Nat) /\ Len(x) = Len(box.events) /\ p \in Nat
  BY <1>2, BoxTyped
<1>5. p = (box.dropped + 1) + box.cleared + Len(box.events)
  BY BoxTyped
<1> HIDE DEF x, p
<1>6. new \in Inbox
  <2>1. box \in Inbox /\ box.dropped + 1 \in Nat
    BY BoxTyped
  <2> QED
    BY <2>1, <1>4 DEF Inbox
<1>7. /\ new.pushes = p /\ new.dropped = box.dropped + 1
      /\ new.cleared = box.cleared /\ new.events = x
  BY BoxTyped DEF Inbox
<1> HIDE DEF new
<1>8. BoxOK(new)
  BY <1>3, <1>4, <1>5, <1>6, <1>7, BoxTyped, BoxOKMembers
<1> QED
  BY <1>8 DEF new, x, p

(* What deliver() makes of a ring with room.                               *)
LEMMA GrownBox ==
  ASSUME NEW box, BoxOK(box), ~(Len(box.events) >= MaxEvents)
  PROVE  BoxOK([box EXCEPT !.pushes = box.pushes + 1,
                           !.events = Append(box.events, box.pushes + 1)])
<1> DEFINE p == box.pushes + 1
           x == Append(box.events, p)
           new == [box EXCEPT !.pushes = p, !.events = x]
<1>1. Newest(x, p)
  BY BoxTyped, NewestAfterAppend
<1>2. x \in Seq(Nat) /\ Len(x) = Len(box.events) + 1 /\ p \in Nat
      /\ Len(x) <= MaxEvents
  BY BoxTyped, ReceiverAssumption
<1> HIDE DEF x
<1>3. p = box.dropped + box.cleared + Len(x)
  <2> DEFINE a == box.pushes  b == box.dropped
             c == box.cleared n == Len(box.events)
  <2>1. a \in Nat /\ b \in Nat /\ c \in Nat /\ n \in Nat /\ a = b + c + n
    BY BoxTyped
  <2> HIDE DEF a, b, c, n
  <2>2. a + 1 = b + c + (n + 1)
    BY <2>1
  <2> QED
    BY <1>2, <2>2 DEF a, b, c, n
<1> HIDE DEF p
<1>4. new \in Inbox
  <2>1. box \in Inbox
    BY BoxTyped
  <2> QED
    BY <2>1, <1>2 DEF Inbox
<1>5. /\ new.pushes = p /\ new.dropped = box.dropped
      /\ new.cleared = box.cleared /\ new.events = x
  BY BoxTyped DEF Inbox
<1> HIDE DEF new
<1>6. BoxOK(new)
  BY <1>1, <1>2, <1>3, <1>4, <1>5, BoxOKMembers
<1> QED
  BY <1>6 DEF new, x, p

(* What clear() makes of an inbox.                                         *)
LEMMA ClearedBox ==
  ASSUME NEW box, BoxOK(box)
  PROVE  BoxOK([box EXCEPT !.events = <<>>,
                           !.cleared = box.cleared + Len(box.events)])
<1> DEFINE c == box.cleared + Len(box.events)
           x == <<>>
           new == [box EXCEPT !.events = x, !.cleared = c]
<1>1. c \in Nat /\ box.pushes = box.dropped + c
  BY BoxTyped
<1>2. x \in Seq(Nat) /\ Len(x) = 0 /\ Newest(x, box.pushes)
  BY DEF Newest
<1> HIDE DEF c, x
<1>3. new \in Inbox
  <2>1. box \in Inbox
    BY BoxTyped
  <2> QED
    BY <2>1, <1>1, <1>2 DEF Inbox
<1>4. /\ new.pushes = box.pushes /\ new.dropped = box.dropped
      /\ new.cleared = c /\ new.events = x
  BY BoxTyped DEF Inbox
<1> HIDE DEF new
<1>5. BoxOK(new)
  BY <1>1, <1>2, <1>3, <1>4, BoxTyped, BoxOKMembers, ReceiverAssumption
<1> QED
  BY <1>5 DEF new, x, c

(* No call spoils an inbox, and time does not.                             *)
LEMMA BoxesStep ==
  ASSUME BoxesOK, [ReceiverNext]_receiverVars
  PROVE  BoxesOK'
<1>1. ASSUME NEW id \in Alive, NEW box, BoxOK(box), Update(id, box)
      PROVE  BoxesOK'
  BY <1>1 DEF BoxesOK, Update, Swept, Alive
<1>2. ASSUME NEW id \in Ids, Create(id)
      PROVE  BoxesOK'
  <2>1. BoxOK([left |-> TTL, pushes |-> 0, dropped |-> 0, cleared |-> 0,
               events |-> <<>>])
    BY ReceiverAssumption DEF BoxOK, Inbox, Expired
  <2> QED
    BY <1>2, <2>1 DEF Create, BoxesOK, Alive
<1>3. ASSUME NEW id \in Ids, Deliver(id)
      PROVE  BoxesOK'
  <2>1. id \in Alive /\ BoxOK(inboxes[id])
    BY <1>3 DEF Deliver, BoxesOK, Alive
  <2>2. PICK new : BoxOK(new) /\ Update(id, new)
    BY <1>3, <2>1, ShiftedBox, GrownBox DEF Deliver
  <2> QED
    BY <1>1, <2>1, <2>2
<1>4. ASSUME NEW id \in Ids, Clear(id)
      PROVE  BoxesOK'
  <2>1. id \in Alive /\ BoxOK(inboxes[id])
    BY <1>4 DEF Clear, BoxesOK, Alive
  <2>2. PICK new : BoxOK(new) /\ Update(id, new)
    BY <1>4, <2>1, ClearedBox DEF Clear
  <2> QED
    BY <1>1, <2>1, <2>2
<1>5. ASSUME NEW id \in Ids, Remove(id)
      PROVE  BoxesOK'
  BY <1>5 DEF Remove, BoxesOK, Alive
<1>6. CASE CreateRefused \/ Touch
  BY <1>6 DEF CreateRefused, Touch, Swept, BoxesOK, Alive
<1>7. CASE Restart
  BY <1>7 DEF Restart, BoxesOK
<1>8. CASE Tick
  <2> DEFINE older(box) == IF box.left = Expired THEN Expired
                                                 ELSE box.left - 1
  <2>1. ASSUME NEW box, BoxOK(box)
        PROVE  BoxOK([box EXCEPT !.left = older(box)])
    <3>1. older(box) \in Expired..TTL
      BY <2>1, BoxTyped, ReceiverAssumption DEF Expired
    <3> HIDE DEF older
    <3> QED
      BY <2>1, <3>1, BoxTyped DEF BoxOK, Inbox
  <2> QED
    BY <1>8, <2>1 DEF Tick, BoxesOK
<1>9. CASE UNCHANGED receiverVars
  BY <1>9 DEF receiverVars, BoxesOK
<1> QED
  BY <1>2, <1>3, <1>4, <1>5, <1>6, <1>7, <1>8, <1>9 DEF ReceiverNext

(* Every inbox is as it should be.                                         *)
LEMMA BoxesStayOK == ReceiverSpec => []BoxesOK
<1>1. ReceiverInit => BoxesOK
  BY DEF ReceiverInit, BoxesOK
<1>2. BoxesOK /\ [ReceiverNext]_receiverVars => BoxesOK'
  BY BoxesStep
<1> QED
  BY <1>1, <1>2, PTL DEF ReceiverSpec

(* Every inbox holds exactly the newest of the tokens it accepted, in      *)
(* order and within its cap, and its counts account for the others.        *)
(* (deliver(), clear(), describe())                                        *)
THEOREM RingCorrect == ReceiverSpec => []RingHoldsNewest
<1>1. BoxesOK => RingHoldsNewest
  BY DEF BoxesOK, BoxOK, RingHoldsNewest
<1> QED
  BY <1>1, BoxesStayOK, PTL

---------------------------------------------------------------------------
(* The number of inboxes and the sweep.                                    *)

Bounded == IsFiniteSet(DOMAIN inboxes) /\ InboxesBounded

(* Every call but create() leaves a part of the inboxes that are alive.    *)
LEMMA FewerInboxes ==
  ASSUME Bounded, DOMAIN inboxes' \subseteq DOMAIN inboxes
  PROVE  Bounded'
<1>1. /\ IsFiniteSet(DOMAIN inboxes')
      /\ Cardinality(DOMAIN inboxes') <= Cardinality(DOMAIN inboxes)
  BY FS_Subset DEF Bounded
<1>2. /\ Cardinality(DOMAIN inboxes') \in Nat
      /\ Cardinality(DOMAIN inboxes) \in Nat
  BY <1>1, FS_CardinalityType DEF Bounded
<1> QED
  BY <1>1, <1>2, ReceiverAssumption DEF Bounded, InboxesBounded

(* What these calls leave was alive, and lives as long as before.          *)
LEMMA CallsKeepAlive ==
  ASSUME BoxesOK, NEW id \in Ids, Deliver(id) \/ Clear(id) \/ Remove(id)
  PROVE  /\ DOMAIN inboxes' \subseteq Alive
         /\ \A i \in DOMAIN inboxes' : inboxes'[i].left = inboxes[i].left
<1>1. ASSUME NEW box, id \in Alive, box.left = inboxes[id].left,
             Update(id, box)
      PROVE  /\ DOMAIN inboxes' \subseteq Alive
             /\ \A i \in DOMAIN inboxes' : inboxes'[i].left = inboxes[i].left
  BY <1>1 DEF Update, Swept
<1>2. CASE Deliver(id)
  <2>1. id \in Alive /\ inboxes[id] \in Inbox
    BY <1>2 DEF Deliver, BoxesOK, BoxOK, Alive
  <2>2. PICK box : box.left = inboxes[id].left /\ Update(id, box)
    BY <1>2, <2>1 DEF Deliver, Inbox
  <2> QED
    BY <1>1, <2>1, <2>2
<1>3. CASE Clear(id)
  <2>1. id \in Alive /\ inboxes[id] \in Inbox
    BY <1>3 DEF Clear, BoxesOK, BoxOK, Alive
  <2>2. PICK box : box.left = inboxes[id].left /\ Update(id, box)
    BY <1>3, <2>1 DEF Clear, Inbox
  <2> QED
    BY <1>1, <2>1, <2>2
<1>4. CASE Remove(id)
  BY <1>4 DEF Remove
<1> QED
  BY <1>2, <1>3, <1>4

(* There are never more inboxes than configured, the expired ones that no  *)
(* call has swept yet included.  (create())                                *)
THEOREM BoundCorrect == ReceiverSpec => []InboxesBounded
<1>1. ReceiverInit => Bounded
  BY FS_EmptySet, ReceiverAssumption
  DEF ReceiverInit, Bounded, InboxesBounded
<1>2. Bounded /\ BoxesOK /\ [ReceiverNext]_receiverVars => Bounded'
  <2> SUFFICES ASSUME Bounded, BoxesOK, [ReceiverNext]_receiverVars
               PROVE  Bounded'
    OBVIOUS
  <2>1. ASSUME NEW id \in Ids, Create(id)
        PROVE  Bounded'
    <3>1. DOMAIN inboxes' = Alive \union {id} /\ ~AtLimit
      BY <2>1 DEF Create
    <3>2. IsFiniteSet(Alive)
      BY FS_Subset DEF Alive, Bounded
    <3>3. Cardinality(Alive) \in Nat
      BY <3>2, FS_CardinalityType
    <3>4. Cardinality(Alive) < MaxInboxes
      BY <3>1, <3>3, ReceiverAssumption DEF AtLimit
    <3>5. /\ IsFiniteSet(Alive \union {id})
          /\ \/ Cardinality(Alive \union {id}) = Cardinality(Alive)
             \/ Cardinality(Alive \union {id}) = Cardinality(Alive) + 1
      BY <3>2, FS_AddElement
    <3> QED
      BY <3>1, <3>3, <3>4, <3>5, ReceiverAssumption
      DEF Bounded, InboxesBounded
  <2>2. ASSUME NEW id \in Ids, Deliver(id) \/ Clear(id) \/ Remove(id)
        PROVE  Bounded'
    BY <2>2, CallsKeepAlive, FewerInboxes DEF Alive
  <2>3. CASE CreateRefused \/ Touch \/ Restart
    <3>1. DOMAIN inboxes' \subseteq DOMAIN inboxes
      BY <2>3 DEF CreateRefused, Touch, Restart, Swept, Alive
    <3> QED
      BY <3>1, FewerInboxes
  <2>4. CASE Tick \/ UNCHANGED receiverVars
    <3>1. DOMAIN inboxes' \subseteq DOMAIN inboxes
      BY <2>4 DEF Tick, receiverVars
    <3> QED
      BY <3>1, FewerInboxes
  <2> QED
    BY <2>1, <2>2, <2>3, <2>4 DEF ReceiverNext
<1>3. Bounded => InboxesBounded
  BY DEF Bounded
<1> QED
  BY <1>1, <1>2, <1>3, BoxesStayOK, PTL DEF ReceiverSpec

(* Only ids that were handed out name an inbox.                            *)
Named == DOMAIN inboxes \subseteq issued /\ issued \subseteq Ids

(* A receiver made has a name of its own, and keeps it.                    *)
LEMMA NamedStep ==
  ASSUME Named, BoxesOK, [ReceiverNext]_receiverVars
  PROVE  Named'
<1>1. ASSUME NEW id \in Ids, Create(id)
      PROVE  Named'
  BY <1>1 DEF Create, Alive, Named
<1>2. ASSUME NEW id \in Ids, Deliver(id) \/ Clear(id) \/ Remove(id)
      PROVE  Named'
  <2>1. issued' = issued
    BY <1>2 DEF Deliver, Clear, Remove, Update
  <2>2. DOMAIN inboxes' \subseteq Alive
    BY <1>2, CallsKeepAlive
  <2> QED
    BY <2>1, <2>2 DEF Alive, Named
<1>3. CASE CreateRefused \/ Touch \/ Restart \/ Tick
  BY <1>3 DEF CreateRefused, Touch, Restart, Tick, Swept, Alive, Named
<1>4. CASE UNCHANGED receiverVars
  BY <1>4 DEF receiverVars, Named
<1> QED
  BY <1>1, <1>2, <1>3, <1>4 DEF ReceiverNext

(* They are always named so.                                               *)
LEMMA IdsNamed == ReceiverSpec => []Named
<1>1. ReceiverInit => Named
  BY DEF ReceiverInit, Named
<1>2. Named /\ BoxesOK /\ [ReceiverNext]_receiverVars => Named'
  BY NamedStep
<1> QED
  BY <1>1, <1>2, BoxesStayOK, PTL DEF ReceiverSpec

(* The state of the receiver stays well typed.  (the module)               *)
THEOREM ReceiverTypeCorrect == ReceiverSpec => []ReceiverTypeOK
<1>1. BoxesOK /\ Named => ReceiverTypeOK
  BY DEF BoxesOK, BoxOK, Named, ReceiverTypeOK
<1> QED
  BY <1>1, BoxesStayOK, IdsNamed, PTL

(* Whatever call touches the module, no inbox that had expired before it is*)
(* left after it or was acted on by it.  (sweep())                         *)
THEOREM SweepCorrect == ReceiverSpec => EveryCallSweeps
<1> DEFINE Clean == \A id \in DOMAIN inboxes' :
                      /\ inboxes'[id].left # Expired
                      /\ id \in DOMAIN inboxes =>
                           inboxes[id].left # Expired
<1>1. BoxesOK /\ Named /\ [ReceiverNext]_receiverVars
        => [Tick \/ Clean]_receiverVars
  <2> SUFFICES ASSUME BoxesOK, Named, ReceiverNext
               PROVE  Tick \/ Clean
    OBVIOUS
  <2>1. ASSUME NEW id \in Ids, Create(id)
        PROVE  Clean
    <3>1. TTL # Expired
      BY ReceiverAssumption DEF Expired
    <3>2. ASSUME NEW i \in DOMAIN inboxes'
          PROVE  /\ inboxes'[i].left # Expired
                 /\ i \in DOMAIN inboxes => inboxes[i].left # Expired
      <4>1. CASE i = id
        <5>1. inboxes'[i].left = TTL /\ i \notin DOMAIN inboxes
          BY <2>1, <3>2, <4>1 DEF Create, Alive, Named
        <5> QED
          BY <3>1, <5>1
      <4>2. CASE i # id
        BY <2>1, <3>2, <4>2 DEF Create, Alive
      <4> QED
        BY <4>1, <4>2
    <3> QED
      BY <3>2
  <2>2. ASSUME NEW id \in Ids, Deliver(id) \/ Clear(id) \/ Remove(id)
        PROVE  Clean
    BY <2>2, CallsKeepAlive DEF Alive
  <2>3. CASE CreateRefused \/ Touch \/ Restart
    BY <2>3 DEF CreateRefused, Touch, Restart, Swept, Alive
  <2> QED
    BY <2>1, <2>2, <2>3 DEF ReceiverNext
<1> QED
  BY <1>1, BoxesStayOK, IdsNamed, PTL DEF ReceiverSpec, EveryCallSweeps

---------------------------------------------------------------------------
(* The page, its fetches and the receiver together.                        *)

Held == {NoCall} \union Request \union Answer

PageTypes ==
  /\ inbox \in Ids \union {NoInbox}
  /\ inboxSeen \in Nat
  /\ call \in [Calls -> Held]
  /\ collected \in SUBSET (Ids \X Nat)

(* What a fetch under way can be, by its kind.                             *)
LEMMA CallMembers ==
  ASSUME NEW x \in Held
  PROVE  /\ x.kind = "drain" => x.id \in Ids /\ x.after \in Nat
         /\ x.kind = "delete" => x.id \in Ids
         /\ x.kind \in {"created", "drained"} =>
              /\ x.id \in Ids /\ x.total \in Nat
              /\ x.events \in Seq(Nat)
BY DEF Held, NoCall, Request, Answer

(* Setting what one call holds touches no other call.                      *)
LEMMA SetTyped ==
  ASSUME PageTypes, NEW c \in Calls, NEW x \in Held, Set(c, x)
  PROVE  /\ call' \in [Calls -> Held]
         /\ call'[c] = x
         /\ \A d \in Calls : d # c => call'[d] = call[d]
BY DEF PageTypes, Set

(* Every step of the page, the network and the transmitter is one of the   *)
(* receiver's, or leaves the receiver alone.                               *)
LEMMA ReceiverStep ==
  ASSUME PageTypes, [Next]_vars
  PROVE  [ReceiverNext]_receiverVars
<1>1. ASSUME NEW c \in Calls, Serve(c)
      PROVE  ReceiverNext
  <2>1. call[c] \in Held
    BY DEF PageTypes
  <2>2. CASE ServeCreate(c)
    BY <2>2 DEF ServeCreate, ReceiverNext
  <2>3. CASE ServeDrain(c)
    BY <2>3 DEF ServeDrain, ReceiverNext
  <2>4. CASE ServeDelete(c)
    <3>1. call[c].id \in Ids /\ Remove(call[c].id)
      BY <2>1, <2>4, CallMembers DEF ServeDelete
    <3> QED
      BY <3>1 DEF ReceiverNext
  <2> QED
    BY <1>1, <2>2, <2>3, <2>4 DEF Serve
<1>2. ASSUME NEW c \in Calls,
             \/ CreateReceiver(c) \/ DrainReceiver(c) \/ DeleteReceiver(c)
             \/ Take(c) \/ Lose(c)
      PROVE  UNCHANGED receiverVars
  BY <1>2 DEF CreateReceiver, DrainReceiver, DeleteReceiver, Send, Take, Lose
<1>3. CASE Reload
  BY <1>3 DEF Reload
<1>4. ASSUME NEW id \in Ids, Push(id)
      PROVE  ReceiverNext
  BY <1>4 DEF Push, ReceiverNext
<1>5. CASE Others
  BY <1>5 DEF Others, ReceiverNext
<1>6. CASE UNCHANGED vars
  BY <1>6 DEF vars
<1> QED
  BY <1>1, <1>2, <1>3, <1>4, <1>5, <1>6 DEF Next

(* What is left of a sequence after its first n elements.                  *)
LEMMA RestOf ==
  ASSUME NEW e \in Seq(Nat), NEW n \in Nat, n <= Len(e)
  PROVE  LET x == SubSeq(e, n + 1, Len(e))
         IN /\ x \in Seq(Nat) /\ Len(x) = Len(e) - n
            /\ \A i \in 1..Len(x) : x[i] = e[i + n]
<1> DEFINE x == SubSeq(e, n + 1, Len(e))
<1>1. Len(e) \in Nat /\ \A i \in 1..Len(e) : e[i] \in Nat
  OBVIOUS
<1>2. x \in Seq(Nat)
  OBVIOUS
<1>3. Len(x) = Len(e) - n
  BY <1>1
<1>4. ASSUME NEW i \in 1..Len(x)
      PROVE  x[i] = e[i + n]
  BY <1>1, <1>3
<1> QED
  BY <1>2, <1>3, <1>4

(* What drain() answers is an answer.                                      *)
LEMMA DrainedTyped ==
  ASSUME BoxesOK, NEW id \in Ids \intersect Alive, NEW after \in Nat
  PROVE  LET e == inboxes[id].events
             n == Clamp(after, e)
             a == Drained(id, after)
         IN /\ e \in Seq(Nat) /\ Len(e) \in Nat
            /\ n \in Nat /\ n <= after /\ n <= Len(e)
            /\ a \in Answer /\ a.kind = "drained" /\ a.id = id
            /\ a.total = Len(e)
            /\ Len(a.events) = Len(e) - n
            /\ \A i \in 1..Len(a.events) : a.events[i] = e[i + n]
<1> DEFINE e == inboxes[id].events
           n == Clamp(after, e)
           x == SubSeq(e, n + 1, Len(e))
<1>1. e \in Seq(Nat) /\ Len(e) \in Nat
  BY BoxTyped DEF BoxesOK, Alive
<1>2. n \in Nat /\ n <= after /\ n <= Len(e)
  BY <1>1 DEF Clamp
<1>3. Drained(id, after) = [kind |-> "drained", id |-> id,
                            total |-> Len(e), events |-> x]
  BY DEF Drained
<1> HIDE DEF e, n
<1>4. /\ x \in Seq(Nat) /\ Len(x) = Len(e) - n
      /\ \A i \in 1..Len(x) : x[i] = e[i + n]
  BY <1>1, <1>2, RestOf
<1> HIDE DEF x
<1>5. [kind |-> "drained", id |-> id, total |-> Len(e), events |-> x] \in Answer
  BY <1>1, <1>4 DEF Answer
<1>6. LET a == Drained(id, after)
      IN /\ a \in Answer /\ a.kind = "drained" /\ a.id = id
         /\ a.total = Len(e) /\ a.events = x
  BY <1>3, <1>5
<1>7. /\ Len(Drained(id, after).events) = Len(e) - n
      /\ \A i \in 1..Len(Drained(id, after).events) :
           Drained(id, after).events[i] = e[i + n]
  BY <1>4, <1>6
<1> QED
  BY <1>1, <1>2, <1>6, <1>7 DEF e, n

(* Every action keeps the types.                                           *)
LEMMA TypesStep ==
  ASSUME PageTypes, BoxesOK, [Next]_vars
  PROVE  PageTypes'
<1>1. ASSUME NEW c \in Calls, NEW x \in Held, Set(c, x),
             UNCHANGED <<inbox, inboxSeen, collected>>
      PROVE  PageTypes'
  BY <1>1, SetTyped DEF PageTypes
<1>2. ASSUME NEW c \in Calls, CreateReceiver(c)
      PROVE  PageTypes'
  <2>1. [kind |-> "create"] \in Held
    BY DEF Held, Request
  <2> QED
    BY <1>1, <1>2, <2>1 DEF CreateReceiver, Send
<1>3. ASSUME NEW c \in Calls, DrainReceiver(c)
      PROVE  PageTypes'
  <2>1. [kind |-> "drain", id |-> inbox, after |-> inboxSeen] \in Held
    BY <1>3 DEF Held, Request, DrainReceiver, PageTypes
  <2> QED
    BY <1>1, <1>3, <2>1 DEF DrainReceiver, Send
<1>4. ASSUME NEW c \in Calls, DeleteReceiver(c)
      PROVE  PageTypes'
  <2>1. [kind |-> "delete", id |-> inbox] \in Held
    BY <1>4 DEF Held, Request, DeleteReceiver, PageTypes
  <2> QED
    BY <1>1, <1>4, <2>1 DEF DeleteReceiver, Send
<1>5. ASSUME NEW c \in Calls, Serve(c)
      PROVE  PageTypes'
  <2>1. [kind |-> "refused"] \in Held /\ [kind |-> "deleted"] \in Held
    BY DEF Held, Answer
  <2>2. CASE ServeCreate(c)
    <3>1. ASSUME NEW id \in Ids
          PROVE  [kind |-> "created", id |-> id, total |-> 0,
                  events |-> <<>>] \in Held
      BY DEF Held, Answer
    <3> QED
      BY <1>1, <2>1, <2>2, <3>1 DEF ServeCreate
  <2>3. CASE ServeDrain(c)
    <3>1. call[c] \in Held /\ call[c].id \in Ids /\ call[c].after \in Nat
      BY <2>3, CallMembers DEF ServeDrain, PageTypes
    <3>2. CASE call[c].id \in Alive
      <4>1. Drained(call[c].id, call[c].after) \in Held
        BY <3>1, <3>2, DrainedTyped DEF Held
      <4> QED
        BY <1>1, <2>3, <3>2, <4>1 DEF ServeDrain
    <3>3. CASE call[c].id \notin Alive
      BY <1>1, <2>1, <2>3, <3>3 DEF ServeDrain
    <3> QED
      BY <3>2, <3>3
  <2>4. CASE ServeDelete(c)
    BY <1>1, <2>1, <2>4 DEF ServeDelete
  <2> QED
    BY <1>5, <2>2, <2>3, <2>4 DEF Serve
<1>6. NoCall \in Held
  BY DEF Held
<1>7. ASSUME NEW c \in Calls, Take(c)
      PROVE  PageTypes'
  <2>1. call[c] \in Held /\ call' \in [Calls -> Held]
    BY <1>6, <1>7, SetTyped DEF Take, PageTypes
  <2>2. CASE TakeCreated(c)
    BY <2>1, <2>2, CallMembers DEF TakeCreated, PageTypes
  <2>3. CASE TakeDrained(c)
    <3>1. /\ call[c].id \in Ids /\ call[c].total \in Nat
          /\ call[c].events \in Seq(Nat)
      BY <2>1, <2>3, CallMembers DEF TakeDrained
    <3>2. \A i \in 1..Len(call[c].events) : call[c].events[i] \in Nat
      BY <3>1
    <3> QED
      BY <2>1, <2>3, <3>1, <3>2 DEF TakeDrained, PageTypes
  <2>4. CASE TakeDeleted(c)
    BY <2>1, <2>4 DEF TakeDeleted, PageTypes
  <2>5. CASE TakeRefused(c)
    BY <2>1, <2>5 DEF TakeRefused, PageTypes
  <2> QED
    BY <1>7, <2>2, <2>3, <2>4, <2>5 DEF Take
<1>8. ASSUME NEW c \in Calls, Lose(c)
      PROVE  PageTypes'
  BY <1>1, <1>6, <1>8 DEF Lose
<1>9. CASE Reload
  BY <1>6, <1>9 DEF Reload, PageTypes
<1>10. CASE Others \/ (\E id \in Ids : Push(id)) \/ UNCHANGED vars
  BY <1>10 DEF Others, Push, vars, pageVars, PageTypes
<1> QED
  BY <1>2, <1>3, <1>4, <1>5, <1>7, <1>8, <1>9, <1>10 DEF Next

Typed == PageTypes /\ BoxesOK /\ Named

(* Both modules' types hold together.                                      *)
LEMMA StaysTyped == Spec => []Typed
<1>1. Init => Typed
  BY DEF Init, ReceiverInit, Typed, PageTypes, BoxesOK, Named, Held
<1>2. Typed /\ [Next]_vars => Typed'
  BY ReceiverStep, BoxesStep, NamedStep, TypesStep DEF Typed
<1> QED
  BY <1>1, <1>2, PTL DEF Spec

(* The page, its fetches and the api stay well typed.                      *)
THEOREM TypeCorrect == Spec => []TypeOK
<1>1. Typed => TypeOK
  BY DEF Typed, PageTypes, Held, TypeOK, BoxesOK, BoxOK, Named,
         ReceiverTypeOK
<1> QED
  BY <1>1, StaysTyped, PTL

(* The api behind the page is the receiver: whatever the page, the network *)
(* and the transmitter do, what is proved of the receiver holds.  (the     *)
(* routes of api/server.js)                                                *)
THEOREM ServesReceiver == Spec => ReceiverSpec
<1>1. Init => ReceiverInit
  BY DEF Init
<1>2. Typed /\ [Next]_vars => [ReceiverNext]_receiverVars
  BY ReceiverStep DEF Typed
<1> QED
  BY <1>1, <1>2, StaysTyped, PTL DEF Spec, ReceiverSpec

(* So its rings hold the newest, its bounds are kept and every call sweeps,*)
(* whoever calls.  (deliver(), create(), sweep())                          *)
THEOREM ReceiverKept ==
  Spec => /\ []RingHoldsNewest /\ []InboxesBounded
          /\ EveryCallSweeps
BY ServesReceiver, RingCorrect, BoundCorrect, SweepCorrect, PTL

---------------------------------------------------------------------------
(* The cursor.                                                             *)

(* No page empties an inbox, so a ring that lost tokens is full, and the   *)
(* newest in it is past the cap.                                           *)
Unspoiled(box) ==
  /\ box.cleared = 0
  /\ box.pushes <= MaxPushes
  /\ box.dropped # 0 => Len(box.events) = MaxEvents

RingsUnspoiled == \A id \in DOMAIN inboxes : Unspoiled(inboxes[id])

(* A push leaves every ring as above.                                      *)
LEMMA PushUnspoiled ==
  ASSUME BoxesOK, RingsUnspoiled, NEW id \in Ids, Deliver(id)
  PROVE  RingsUnspoiled'
<1> DEFINE box == inboxes[id]
<1>1. id \in Alive /\ BoxOK(box) /\ Unspoiled(box) /\ box.pushes < MaxPushes
  BY DEF Deliver, Alive, BoxesOK, RingsUnspoiled
<1>2. ASSUME NEW new, Unspoiled(new), Update(id, new)
      PROVE  RingsUnspoiled'
  BY <1>1, <1>2 DEF Update, Swept, Alive, RingsUnspoiled
<1>3. CASE Len(box.events) >= MaxEvents
  <2> DEFINE x == Append(Tail(box.events), box.pushes + 1)
             new == [box EXCEPT !.pushes = box.pushes + 1,
                                !.dropped = box.dropped + 1, !.events = x]
  <2>1. Len(x) = MaxEvents
    <3>1. Len(box.events) > 0 /\ Len(box.events) = MaxEvents
      BY <1>1, <1>3, BoxTyped, ReceiverAssumption
    <3>2. Tail(box.events) \in Seq(Nat)
          /\ Len(Tail(box.events)) = Len(box.events) - 1
      BY <1>1, <3>1, BoxTyped, NewestAfterShift
    <3> QED
      BY <1>1, <3>1, <3>2, BoxTyped, ReceiverAssumption
  <2>2. Update(id, new)
    BY <1>3 DEF Deliver
  <2> HIDE DEF x
  <2>3. new.cleared = 0 /\ new.pushes = box.pushes + 1 /\ new.events = x
    BY <1>1, BoxTyped DEF Inbox, Unspoiled
  <2>4. Unspoiled(new)
    <3> HIDE DEF new
    <3> QED
      BY <1>1, <2>1, <2>3, BoxTyped, ReceiverAssumption DEF Unspoiled
  <2> QED
    BY <1>2, <2>2, <2>4
<1>4. CASE ~(Len(box.events) >= MaxEvents)
  <2> DEFINE x == Append(box.events, box.pushes + 1)
             new == [box EXCEPT !.pushes = box.pushes + 1, !.events = x]
  <2>1. Update(id, new)
    BY <1>4 DEF Deliver
  <2> HIDE DEF x
  <2>2. /\ new.cleared = 0 /\ new.pushes = box.pushes + 1
        /\ new.dropped = box.dropped
    BY <1>1, BoxTyped DEF Inbox, Unspoiled
  <2>3. box.dropped = 0
    BY <1>1, <1>4, BoxTyped, ReceiverAssumption DEF Unspoiled
  <2>4. Unspoiled(new)
    <3> HIDE DEF new
    <3> QED
      BY <1>1, <2>2, <2>3, BoxTyped, ReceiverAssumption DEF Unspoiled
  <2> QED
    BY <1>2, <2>1, <2>4
<1> QED
  BY <1>3, <1>4

(* So does every other step.                                               *)
LEMMA RingsStep ==
  ASSUME PageTypes, BoxesOK, RingsUnspoiled, [Next]_vars
  PROVE  RingsUnspoiled'
<1>1. CASE Touch \/ CreateRefused
  BY <1>1 DEF Touch, CreateRefused, Swept, Alive, RingsUnspoiled
<1>2. ASSUME NEW id \in Ids, Create(id)
      PROVE  RingsUnspoiled'
  BY <1>2, ReceiverAssumption DEF Create, Alive, RingsUnspoiled, Unspoiled
<1>3. ASSUME NEW id \in Ids, Remove(id)
      PROVE  RingsUnspoiled'
  BY <1>3 DEF Remove, Alive, RingsUnspoiled
<1>4. CASE UNCHANGED receiverVars
  BY <1>4 DEF receiverVars, RingsUnspoiled
<1>5. CASE Restart
  BY <1>5 DEF Restart, RingsUnspoiled
<1>6. CASE Tick
  <2>1. ASSUME NEW box, BoxOK(box), Unspoiled(box), NEW l
        PROVE  Unspoiled([box EXCEPT !.left = l])
    <3>1. box \in Inbox
      BY <2>1 DEF BoxOK
    <3> QED
      BY <2>1, <3>1 DEF Unspoiled, Inbox
  <2> QED
    BY <1>6, <2>1 DEF Tick, BoxesOK, RingsUnspoiled
<1>7. ASSUME NEW c \in Calls, Serve(c)
      PROVE  RingsUnspoiled'
  <2>1. call[c] \in Held
    BY DEF PageTypes
  <2>2. CASE ServeCreate(c) \/ ServeDrain(c)
    BY <1>1, <1>2, <2>2 DEF ServeCreate, ServeDrain
  <2>3. CASE ServeDelete(c)
    BY <1>3, <2>1, <2>3, CallMembers DEF ServeDelete
  <2> QED
    BY <1>7, <2>2, <2>3 DEF Serve
<1>8. ASSUME NEW c \in Calls,
             \/ CreateReceiver(c) \/ DrainReceiver(c) \/ DeleteReceiver(c)
             \/ Take(c) \/ Lose(c)
      PROVE  RingsUnspoiled'
  BY <1>4, <1>8
  DEF CreateReceiver, DrainReceiver, DeleteReceiver, Send, Take, Lose
<1>9. CASE Reload \/ UNCHANGED vars
  BY <1>4, <1>9 DEF Reload, vars
<1>10. CASE Others \/ \E id \in Ids : Push(id)
  BY <1>1, <1>5, <1>6, <1>10, PushUnspoiled DEF Others, Push
<1> QED
  BY <1>7, <1>8, <1>9, <1>10 DEF Next

(* Of an inbox: what was collected of it includes its first t tokens, or   *)
(* one past the cap; and it will once an answer is drawn.                  *)
PastCap == MaxEvents+1..MaxPushes

Known(drawn, id, t) ==
  \A n \in 1..t : <<id, n>> \in drawn \/ \E m \in PastCap : <<id, m>> \in drawn

Drawn(drawn, a) ==
  drawn \union {<<a.id, a.events[i]>> : i \in 1..Len(a.events)}

CallSound(drawn, x) ==
  /\ x.kind = "drain" => Known(drawn, x.id, x.after)
  /\ x.kind = "drained" => Known(Drawn(drawn, x), x.id, x.total)

Sound ==
  /\ Known(collected, inbox, inboxSeen)
  /\ \A c \in Calls : CallSound(collected, call[c])

(* The invariant is what the property asks.                                *)
LEMMA SoundInvariant == Sound => CursorSound
BY DEF Sound, CursorSound, Known, Overfull, PastCap

(* Drawing more makes nothing unsound.                                     *)
LEMMA DrawingMore ==
  ASSUME NEW drawn, NEW more, drawn \subseteq more
  PROVE  /\ \A id, t : Known(drawn, id, t) => Known(more, id, t)
         /\ \A x : CallSound(drawn, x) => CallSound(more, x)
<1>1. ASSUME NEW a, NEW b, a \subseteq b, NEW id, NEW t, Known(a, id, t)
      PROVE  Known(b, id, t)
  BY <1>1 DEF Known
<1>2. \A x : Drawn(drawn, x) \subseteq Drawn(more, x)
  BY DEF Drawn
<1> QED
  BY <1>1, <1>2 DEF CallSound

(* An answer of drain() to a page whose cursor was sound.                  *)
LEMMA AnswerSound ==
  ASSUME BoxesOK, RingsUnspoiled, NEW id \in Ids \intersect Alive,
         NEW after \in Nat, NEW drawn, Known(drawn, id, after)
  PROVE  CallSound(drawn, Drained(id, after))
<1> DEFINE box == inboxes[id]
           e == box.events
           skipped == Clamp(after, e)
           a == Drained(id, after)
<1>1. BoxOK(box) /\ Unspoiled(box)
  BY DEF BoxesOK, RingsUnspoiled, Alive
<1>2. /\ e \in Seq(Nat) /\ Len(e) \in Nat
      /\ skipped \in Nat /\ skipped <= after /\ skipped <= Len(e)
      /\ a.kind = "drained" /\ a.id = id /\ a.total = Len(e)
      /\ Len(a.events) = Len(e) - skipped
      /\ \A i \in 1..Len(a.events) : a.events[i] = e[i + skipped]
  BY DrainedTyped
<1>3. /\ box.pushes \in Nat /\ box.dropped \in Nat
      /\ box.pushes = box.dropped + Len(e) /\ box.pushes <= MaxPushes
      /\ box.dropped # 0 => Len(e) = MaxEvents
      /\ \A i \in 1..Len(e) : e[i] = box.pushes - Len(e) + i
  <2>1. /\ box.pushes \in Nat /\ box.dropped \in Nat /\ box.cleared = 0
        /\ box.pushes = box.dropped + box.cleared + Len(e)
        /\ Newest(e, box.pushes)
    BY <1>1, BoxTyped DEF Unspoiled
  <2> QED
    BY <1>1, <1>2, <2>1 DEF Unspoiled, Newest
<1> HIDE DEF box, e, skipped, a
<1>4. ASSUME NEW n \in 1..Len(e)
      PROVE  \/ <<id, n>> \in Drawn(drawn, a)
             \/ \E m \in PastCap : <<id, m>> \in Drawn(drawn, a)
  <2>1. CASE n <= skipped
    <3>1. n \in 1..after
      BY <1>2, <1>4, <2>1
    <3> QED
      BY <3>1 DEF Known, Drawn
  <2>2. CASE n > skipped /\ box.dropped = 0
    <3>1. n - skipped \in 1..Len(a.events) /\ n - skipped + skipped = n
      BY <1>2, <2>2
    <3>2. a.events[n - skipped] = n
      <4>1. a.events[n - skipped] = e[n]
        BY <1>2, <3>1
      <4>2. e[n] = n
        BY <1>2, <1>3, <2>2
      <4> QED
        BY <4>1, <4>2
    <3> QED
      BY <1>2, <3>1, <3>2 DEF Drawn
  <2>3. CASE n > skipped /\ box.dropped # 0
    <3> DEFINE last == Len(a.events)
    <3>1. last \in 1..Len(a.events) /\ last + skipped = Len(e)
      BY <1>2, <2>3
    <3>2. a.events[last] = box.pushes
      <4>1. a.events[last] = e[Len(e)] /\ Len(e) \in 1..Len(e)
        BY <1>2, <3>1
      <4>2. e[Len(e)] = box.pushes - Len(e) + Len(e)
        BY <1>3, <4>1
      <4>3. box.pushes - Len(e) + Len(e) = box.pushes
        BY <1>2, <1>3
      <4> QED
        BY <4>1, <4>2, <4>3
    <3>3. box.pushes \in PastCap
      BY <1>2, <1>3, <2>3, ReceiverAssumption DEF PastCap
    <3>4. <<id, box.pushes>> \in Drawn(drawn, a)
      BY <1>2, <3>1, <3>2 DEF Drawn
    <3> QED
      BY <3>3, <3>4
  <2>4. n <= skipped \/ n > skipped
    BY <1>2, <1>4
  <2> QED
    BY <2>1, <2>2, <2>3, <2>4
<1>5. Known(Drawn(drawn, a), id, Len(e))
  BY <1>4 DEF Known
<1>6. CallSound(drawn, a)
  BY <1>2, <1>5 DEF CallSound
<1> QED
  BY <1>6 DEF a

(* Every action keeps what the page knows true of the ring.                *)
LEMMA SoundStep ==
  ASSUME Typed, RingsUnspoiled, Sound, [Next]_vars
  PROVE  Sound'
<1> USE DEF Typed
<1>1. ASSUME NEW c \in Calls, NEW x \in Held, CallSound(collected, x),
             Set(c, x), UNCHANGED <<inbox, inboxSeen, collected>>
      PROVE  Sound'
  BY <1>1, SetTyped DEF Sound
<1>2. NoCall \in Held /\ CallSound(collected, NoCall)
  BY DEF Held, NoCall, CallSound
<1>3. ASSUME NEW c \in Calls, CreateReceiver(c) \/ DeleteReceiver(c)
      PROVE  Sound'
  <2>1. /\ [kind |-> "create"] \in Held
        /\ CallSound(collected, [kind |-> "create"])
    BY DEF Held, Request, CallSound
  <2>2. CASE CreateReceiver(c)
    BY <1>1, <2>1, <2>2 DEF CreateReceiver, Send
  <2>3. CASE DeleteReceiver(c)
    <3>1. /\ [kind |-> "delete", id |-> inbox] \in Held
          /\ CallSound(collected, [kind |-> "delete", id |-> inbox])
      BY <2>3 DEF Held, Request, CallSound, DeleteReceiver, PageTypes
    <3> QED
      BY <1>1, <2>3, <3>1 DEF DeleteReceiver, Send
  <2> QED
    BY <1>3, <2>2, <2>3
<1>4. ASSUME NEW c \in Calls, DrainReceiver(c)
      PROVE  Sound'
  <2> DEFINE x == [kind |-> "drain", id |-> inbox, after |-> inboxSeen]
  <2>1. x \in Held /\ CallSound(collected, x)
    BY <1>4 DEF Held, Request, CallSound, DrainReceiver, PageTypes, Sound
  <2> QED
    BY <1>1, <1>4, <2>1 DEF DrainReceiver, Send
<1>5. ASSUME NEW c \in Calls, Serve(c)
      PROVE  Sound'
  <2>1. /\ [kind |-> "refused"] \in Held /\ [kind |-> "deleted"] \in Held
        /\ CallSound(collected, [kind |-> "refused"])
        /\ CallSound(collected, [kind |-> "deleted"])
    BY DEF Held, Answer, CallSound
  <2>2. CASE ServeCreate(c)
    <3>1. ASSUME NEW id \in Ids
          PROVE  LET x == [kind |-> "created", id |-> id, total |-> 0,
                           events |-> <<>>]
                 IN x \in Held /\ CallSound(collected, x)
      BY DEF Held, Answer, CallSound
    <3> QED
      BY <1>1, <2>1, <2>2, <3>1 DEF ServeCreate
  <2>3. CASE ServeDrain(c)
    <3>1. call[c] \in Held /\ call[c].id \in Ids /\ call[c].after \in Nat
      BY <2>3, CallMembers DEF ServeDrain, PageTypes
    <3>2. CASE call[c].id \in Alive
      <4> DEFINE x == Drained(call[c].id, call[c].after)
      <4>1. Known(collected, call[c].id, call[c].after)
        BY <2>3 DEF ServeDrain, Sound, CallSound
      <4>2. x \in Held
        BY <3>1, <3>2, DrainedTyped DEF Held
      <4>3. CallSound(collected, x)
        BY <3>1, <3>2, <4>1, AnswerSound
      <4>4. Set(c, x) /\ UNCHANGED <<inbox, inboxSeen, collected>>
        BY <2>3, <3>2 DEF ServeDrain
      <4> QED
        BY <1>1, <4>2, <4>3, <4>4
    <3>3. CASE call[c].id \notin Alive
      BY <1>1, <2>1, <2>3, <3>3 DEF ServeDrain
    <3> QED
      BY <3>2, <3>3
  <2>4. CASE ServeDelete(c)
    BY <1>1, <2>1, <2>4 DEF ServeDelete
  <2> QED
    BY <1>5, <2>2, <2>3, <2>4 DEF Serve
<1>6. ASSUME NEW c \in Calls, Take(c)
      PROVE  Sound'
  <2>1. /\ call' \in [Calls -> Held] /\ call'[c] = NoCall
        /\ \A d \in Calls : d # c => call'[d] = call[d]
    BY <1>2, <1>6, SetTyped DEF Take
  <2>2. ASSUME collected \subseteq collected',
               Known(collected', inbox', inboxSeen')
        PROVE  Sound'
    <3>1. ASSUME NEW d \in Calls
          PROVE  CallSound(collected', call'[d])
      <4>1. CASE d = c
        BY <2>1, <4>1 DEF NoCall, CallSound
      <4>2. CASE d # c
        BY <2>1, <2>2, <4>2, DrawingMore DEF Sound
      <4> QED
        BY <4>1, <4>2
    <3> QED
      BY <2>2, <3>1 DEF Sound
  <2>3. CASE TakeCreated(c) \/ TakeDeleted(c)
    BY <2>2, <2>3 DEF TakeCreated, TakeDeleted, Known
  <2>4. CASE TakeDrained(c)
    <3>1. /\ inbox' = call[c].id /\ inboxSeen' = call[c].total
          /\ collected' = Drawn(collected, call[c])
      BY <2>4 DEF TakeDrained, Drawn
    <3>2. Known(Drawn(collected, call[c]), call[c].id, call[c].total)
      BY <2>4 DEF TakeDrained, Sound, CallSound
    <3>3. collected \subseteq collected'
      BY <3>1 DEF Drawn
    <3> QED
      BY <2>2, <3>1, <3>2, <3>3
  <2>5. CASE TakeRefused(c)
    BY <2>2, <2>5 DEF TakeRefused, Sound
  <2> QED
    BY <1>6, <2>3, <2>4, <2>5 DEF Take
<1>7. ASSUME NEW c \in Calls, Lose(c)
      PROVE  Sound'
  BY <1>1, <1>2, <1>7 DEF Lose
<1>8. CASE Reload
  BY <1>2, <1>8 DEF Reload, Sound, Known
<1>9. CASE Others \/ (\E id \in Ids : Push(id)) \/ UNCHANGED vars
  BY <1>9 DEF Others, Push, vars, pageVars, Sound
<1> QED
  BY <1>3, <1>4, <1>5, <1>6, <1>7, <1>8, <1>9 DEF Next

(* Whatever order the answers come in and whichever are lost, the cursor   *)
(* never claims a token that was not collected, until a token came that the*)
(* ring had to shift for.  (drainReceiver())                               *)
THEOREM CursorCorrect == Spec => []CursorSound
<1> DEFINE IInv == RingsUnspoiled /\ Sound
<1>1. Init => IInv
  BY DEF Init, ReceiverInit, NoCall, RingsUnspoiled, Sound, Known, CallSound
<1>2. Typed /\ IInv /\ [Next]_vars => IInv'
  BY RingsStep, SoundStep DEF Typed
<1>3. IInv => CursorSound
  BY SoundInvariant
<1> QED
  BY <1>1, <1>2, <1>3, StaysTyped, PTL DEF Spec
=============================================================================
