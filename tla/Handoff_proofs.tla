--------------------------- MODULE Handoff_proofs --------------------------
(***************************************************************************)
(* Proofs about the hand-off slots, for any answers, users and number of   *)
(* asks.                                                                   *)
(*                                                                         *)
(* One invariant, Good, carries all three theorems: the types need it      *)
(* (what is collected names an ask, because a filled slot has one), and    *)
(* that nothing is handed out twice for an ask needs that a slot which     *)
(* still waits has not been collected from (Unused) and that the two slots *)
(* never wait for the same ask.                                            *)
(***************************************************************************)
EXTENDS Handoff, SequenceTheorems, TLAPS

SlotOK(slot, n) == slot \in Slots(n) /\ AnswersLatest(slot)

TakenOK(tk, n) ==
  /\ tk \in Seq(Takes(n))
  /\ \A i, j \in 1..Len(tk) : tk[i].ask = tk[j].ask => i = j

(* Nothing was collected for the ask a.                                    *)
Unused(tk, a) == \A i \in 1..Len(tk) : tk[i].ask # a

(* The variables the slots' invariant says nothing of.                     *)
RestOK ==
  /\ page \in Pages
  /\ response \in Tokens
  /\ savedToken \in Tokens
  /\ savedRefresh \in [access: Answers \union {None},
                       id: Answers \union {None}, refresh: BOOLEAN]
  /\ issued \subseteq Answers

Good ==
  /\ RestOK
  /\ asks \in Seq(SUBSET Answers)
  /\ SlotOK(token, Len(asks))
  /\ SlotOK(session, Len(asks))
  /\ TakenOK(taken, Len(asks))
  /\ Unused(taken, token.ask)
  /\ Unused(taken, session.ask)
  /\ token.ask = session.ask => token.ask = 0

---------------------------------------------------------------------------
(* The operators on a slot.                                                *)

(* A slot that was fine after n asks is fine after more.                   *)
LEMMA SlotGrows ==
  ASSUME NEW n \in Nat, NEW m \in Nat, n <= m, NEW slot, SlotOK(slot, n)
  PROVE  SlotOK(slot, m)
<1>1. 0..n \subseteq 0..m
  OBVIOUS
<1> QED
  BY <1>1 DEF SlotOK, Slots

(* What was collected was for one of the n asks.                           *)
LEMMA TakenCounted ==
  ASSUME NEW n \in Nat, NEW tk \in Seq(Takes(n)), NEW i \in 1..Len(tk)
  PROVE  tk[i].ask \in 1..n
<1>1. tk[i] \in Takes(n)
  BY ElementOfSeq
<1> QED
  BY <1>1 DEF Takes

(* So is what was collected, and none of it was for an ask yet to come.    *)
LEMMA TakenGrows ==
  ASSUME NEW n \in Nat, NEW m \in Nat, n <= m, NEW tk, TakenOK(tk, n)
  PROVE  /\ TakenOK(tk, m)
         /\ \A a \in Nat : a > n => Unused(tk, a)
<1>1. 1..n \subseteq 1..m
  OBVIOUS
<1>2. Takes(n) \subseteq Takes(m)
  BY <1>1 DEF Takes
<1>3. \A i \in 1..Len(tk) : tk[i].ask \in 1..n
  BY TakenCounted DEF TakenOK
<1>4. tk \in Seq(Takes(m))
  BY <1>2, SeqMonotonic DEF TakenOK
<1>5. ASSUME NEW a \in Nat, a > n
      PROVE  Unused(tk, a)
  BY <1>3, <1>5 DEF Unused
<1> QED
  BY <1>4, <1>5 DEF TakenOK

(* A slot emptied by cancel() or take() is fine.                           *)
LEMMA ClearedOK ==
  ASSUME NEW n \in Nat, NEW slot
  PROVE  SlotOK(Cleared(slot), n) /\ Cleared(slot).ask = 0
BY DEF SlotOK, Slots, AnswersLatest, Cleared, EmptySlot

(* So is one start() has just filled in.                                   *)
LEMMA StartedOK ==
  ASSUME NEW n \in Nat, NEW a \in 1..n, NEW slot
  PROVE  SlotOK(Started(slot, a), n) /\ Started(slot, a).ask = a
<1>1. /\ EmptySlot \in Slots(n) /\ EmptySlot.what = None
      /\ EmptySlot.id = None
  BY DEF Slots, EmptySlot
<1> QED
  BY <1>1 DEF SlotOK, Slots, AnswersLatest, Started

(* deliver() keeps a slot fine and waiting for the same ask.               *)
LEMMA DeliveredOK ==
  ASSUME NEW n \in Nat, NEW slot, SlotOK(slot, n),
         NEW what \in Answers \union {None, Bare},
         NEW id \in Answers \union {None}, NEW carries \in BOOLEAN
  PROVE  /\ SlotOK(Delivered(slot, what, id, carries), n)
         /\ Delivered(slot, what, id, carries).ask = slot.ask
<1>1. CASE slot.ask = 0 \/ what = None
  BY <1>1 DEF Delivered
<1>2. CASE slot.ask # 0 /\ what # None /\ carries
  BY <1>2 DEF Delivered, SlotOK, Slots, AnswersLatest
<1>3. CASE slot.ask # 0 /\ what # None /\ ~carries
  BY <1>3 DEF Delivered, SlotOK, Slots, AnswersLatest
<1> QED
  BY <1>1, <1>2, <1>3

(* A session that is offered is one of these deliveries.                   *)
LEMMA OfferedOK ==
  ASSUME NEW n \in Nat, NEW slot, SlotOK(slot, n),
         NEW id \in Answers \union {None}
  PROVE  /\ SlotOK(OfferedSession(slot, id), n)
         /\ OfferedSession(slot, id).ask = slot.ask
<1> DEFINE what == IF id = None THEN Bare ELSE id
<1>1. what \in Answers \union {None, Bare}
  OBVIOUS
<1>2. OfferedSession(slot, id) = Delivered(slot, what, None, FALSE)
  BY DEF OfferedSession
<1> HIDE DEF what
<1>3. None \in Answers \union {None} /\ FALSE \in BOOLEAN
  OBVIOUS
<1>4. /\ SlotOK(Delivered(slot, what, None, FALSE), n)
      /\ Delivered(slot, what, None, FALSE).ask = slot.ask
  BY <1>1, <1>3, DeliveredOK, ZenonT(60)
<1> QED
  BY <1>2, <1>4, Zenon

(* So does the passing of time.                                            *)
LEMMA StaleOK ==
  ASSUME NEW n \in Nat, NEW slot, SlotOK(slot, n), NEW b \in BOOLEAN
  PROVE  /\ SlotOK([slot EXCEPT !.stale = b], n)
         /\ [slot EXCEPT !.stale = b].ask = slot.ask
BY DEF SlotOK, Slots, AnswersLatest

(* What take() hands out names the ask the slot was waiting for.           *)
LEMMA CollectedOne ==
  ASSUME NEW n \in Nat, NEW slot, SlotOK(slot, n),
         NEW kind \in {"token", "session"}
  PROVE  \/ Collected(kind, slot) = <<>>
         \/ \E r \in Takes(n) :
              Collected(kind, slot) = <<r>> /\ r.ask = slot.ask
<1>1. CASE slot.what = None \/ slot.stale
  BY <1>1 DEF Collected
<1>2. CASE slot.what # None /\ ~slot.stale
  <2> DEFINE r == [kind |-> kind, ask |-> slot.of, what |-> slot.what,
                   id |-> slot.id]
  <2>1. slot.ask # 0 /\ slot.of = slot.ask
    BY <1>2 DEF SlotOK, AnswersLatest
  <2>2. r \in Takes(n)
    BY <1>2, <2>1 DEF SlotOK, Slots, Takes
  <2>3. Collected(kind, slot) = <<r>> /\ r.ask = slot.ask
    BY <1>2, <2>1 DEF Collected
  <2> QED
    BY <2>2, <2>3
<1> QED
  BY <1>1, <1>2 DEF SlotOK, Slots

(* Collecting from a slot nothing was collected from keeps the asks that   *)
(* were answered apart, and uses up that slot's ask only.                  *)
LEMMA TakeOne ==
  ASSUME NEW n \in Nat, NEW slot, SlotOK(slot, n),
         NEW kind \in {"token", "session"},
         NEW tk, TakenOK(tk, n), Unused(tk, slot.ask)
  PROVE  /\ TakenOK(tk \o Collected(kind, slot), n)
         /\ \A a \in Nat :
              Unused(tk, a) /\ (a = slot.ask => a = 0)
                => Unused(tk \o Collected(kind, slot), a)
<1>1. CASE Collected(kind, slot) = <<>>
  <2>1. tk \o Collected(kind, slot) = tk
    BY <1>1, ConcatEmptySeq DEF TakenOK
  <2> QED
    BY <2>1
<1>2. CASE Collected(kind, slot) # <<>>
  <2>1. PICK r \in Takes(n) :
          Collected(kind, slot) = <<r>> /\ r.ask = slot.ask
    BY <1>2, CollectedOne
  <2>2. tk \in Seq(Takes(n))
    BY DEF TakenOK
  <2> DEFINE new == Append(tk, r)
  <2>3. tk \o Collected(kind, slot) = new
    BY <2>1, <2>2, AppendIsConcat
  <2>4. /\ new \in Seq(Takes(n))
        /\ Len(new) = Len(tk) + 1 /\ Len(tk) \in Nat
        /\ \A i \in 1..Len(tk) : new[i] = tk[i]
        /\ new[Len(tk) + 1] = r
    BY <2>2, AppendProperties
  <2> HIDE DEF new
  <2>5. \A i, j \in 1..Len(new) : new[i].ask = new[j].ask => i = j
    <3>1. \A i \in 1..Len(new) : i \in 1..Len(tk) \/ i = Len(tk) + 1
      BY <2>4
    <3>2. \A i \in 1..Len(tk) : new[i].ask # new[Len(tk) + 1].ask
      BY <2>1, <2>4 DEF Unused
    <3>3. \A i, j \in 1..Len(tk) : new[i].ask = new[j].ask => i = j
      BY <2>4 DEF TakenOK
    <3> QED
      BY <3>1, <3>2, <3>3
  <2>6. ASSUME NEW a \in Nat, Unused(tk, a), a = slot.ask => a = 0
        PROVE  Unused(new, a)
    <3>1. r.ask # a
      BY <2>1, <2>6 DEF Takes
    <3>2. \A i \in 1..Len(new) : i \in 1..Len(tk) \/ i = Len(tk) + 1
      BY <2>4
    <3> QED
      BY <2>4, <2>6, <3>1, <3>2 DEF Unused
  <2> QED
    BY <2>3, <2>4, <2>5, <2>6 DEF TakenOK
<1> QED
  BY <1>1, <1>2

---------------------------------------------------------------------------
(* The steps.                                                              *)

(* A slot waits for a number of asks there has been.                       *)
LEMMA AskCounted ==
  ASSUME Good
  PROVE  /\ Len(asks) \in Nat
         /\ token.ask \in 0..Len(asks) /\ session.ask \in 0..Len(asks)
BY DEF Good, SlotOK, Slots

(* A step that only delivers, or lets time go by, keeps Good.              *)
LEMMA DeliveryKeepsGood ==
  ASSUME Good, RestOK', UNCHANGED history,
         SlotOK(token', Len(asks)), SlotOK(session', Len(asks)),
         token'.ask = token.ask, session'.ask = session.ask
  PROVE  Good'
BY DEF Good, history

(* An ask of either kind keeps Good.                                       *)
LEMMA AskKeepsGood ==
  ASSUME Good
  PROVE  LET more == Append(asks, issued)
         IN  /\ more \in Seq(SUBSET Answers) /\ Len(more) = Len(asks) + 1
             /\ Len(asks) + 1 \in Nat
             /\ SlotOK(token, Len(more)) /\ SlotOK(session, Len(more))
             /\ TakenOK(taken, Len(more)) /\ Unused(taken, Len(more))
             /\ token.ask # Len(more) /\ session.ask # Len(more)
<1> DEFINE more == Append(asks, issued)
<1>1. asks \in Seq(SUBSET Answers) /\ issued \in SUBSET Answers
  BY DEF Good, RestOK
<1>2. more \in Seq(SUBSET Answers) /\ Len(more) = Len(asks) + 1
  BY <1>1, AppendProperties
<1>3. Len(asks) \in Nat /\ Len(asks) + 1 \in Nat
  BY AskCounted
<1> HIDE DEF more
<1>4. SlotOK(token, Len(more)) /\ SlotOK(session, Len(more))
  BY <1>2, <1>3, SlotGrows DEF Good
<1>5. TakenOK(taken, Len(more)) /\ Unused(taken, Len(more))
  BY <1>2, <1>3, TakenGrows DEF Good
<1>6. token.ask # Len(more) /\ session.ask # Len(more)
  BY <1>2, <1>3, AskCounted
<1> QED
  BY <1>2, <1>3, <1>4, <1>5, <1>6 DEF more

(* Asking for a token, a session or both, and dropping what the slot had.  *)
LEMMA AsksKeepGood ==
  ASSUME Good, AskToken \/ AskSession \/ AskBoth
  PROVE  Good'
<1>1. CASE AskToken
  <2>1. /\ asks' = Append(asks, issued)
        /\ token' = Started(token, Len(asks'))
        /\ UNCHANGED <<session, taken>>
    BY <1>1 DEF AskToken
  <2>2. /\ asks' \in Seq(SUBSET Answers) /\ Len(asks') = Len(asks) + 1
        /\ Len(asks') \in Nat /\ SlotOK(session, Len(asks'))
        /\ TakenOK(taken, Len(asks')) /\ Unused(taken, Len(asks'))
        /\ session.ask # Len(asks')
    BY <2>1, AskKeepsGood
  <2>3. SlotOK(token', Len(asks')) /\ token'.ask = Len(asks')
    BY <2>1, <2>2, AskCounted, StartedOK
  <2>4. RestOK'
    BY <1>1 DEF AskToken, Good, RestOK, Pages, saved
  <2> QED
    BY <2>1, <2>2, <2>3, <2>4 DEF Good
<1>2. CASE AskSession
  <2>1. /\ asks' = Append(asks, issued)
        /\ session' = Started(session, Len(asks'))
        /\ UNCHANGED <<token, taken>>
    BY <1>2 DEF AskSession
  <2>2. /\ asks' \in Seq(SUBSET Answers) /\ Len(asks') = Len(asks) + 1
        /\ Len(asks') \in Nat /\ SlotOK(token, Len(asks'))
        /\ TakenOK(taken, Len(asks')) /\ Unused(taken, Len(asks'))
        /\ token.ask # Len(asks')
    BY <2>1, AskKeepsGood
  <2>3. SlotOK(session', Len(asks')) /\ session'.ask = Len(asks')
    BY <2>1, <2>2, AskCounted, StartedOK
  <2>4. RestOK'
    BY <1>2 DEF AskSession, Good, RestOK, Pages, saved
  <2> QED
    BY <2>1, <2>2, <2>3, <2>4 DEF Good
<1>3. CASE AskBoth
  <2> DEFINE n == Len(asks)
  <2>1. /\ asks' = asks \o <<issued, issued>>
        /\ session' = Started(session, n + 1)
        /\ token' = Started(token, n + 2)
        /\ UNCHANGED taken
    BY <1>3 DEF AskBoth
  <2>2. n \in Nat /\ asks \in Seq(SUBSET Answers) /\ TakenOK(taken, n)
    BY AskCounted DEF Good
  <2>3. <<issued, issued>> \in Seq(SUBSET Answers)
        /\ Len(<<issued, issued>>) = 2
    BY DEF Good, RestOK
  <2>4. asks' \in Seq(SUBSET Answers) /\ Len(asks') = n + 2
    BY <2>1, <2>2, <2>3, ConcatProperties
  <2> HIDE DEF n
  <2>5. /\ TakenOK(taken, Len(asks'))
        /\ Unused(taken, n + 1) /\ Unused(taken, n + 2)
    BY <2>2, <2>4, TakenGrows
  <2>6. SlotOK(session', Len(asks')) /\ session'.ask = n + 1
    BY <2>1, <2>2, <2>4, StartedOK
  <2>7. SlotOK(token', Len(asks')) /\ token'.ask = n + 2
    BY <2>1, <2>2, <2>4, StartedOK
  <2>8. RestOK'
    BY <1>3 DEF AskBoth, Good, RestOK, Pages, saved
  <2> QED
    BY <2>1, <2>2, <2>4, <2>5, <2>6, <2>7, <2>8 DEF Good
<1> QED
  BY <1>1, <1>2, <1>3

(* Collecting: the token goes first, then, on the Shared Signals page, the *)
(* session.                                                                *)
LEMMA TakesKeepGood ==
  ASSUME Good, LoadSsf \/ LoadScim
  PROVE  Good'
<1> DEFINE n == Len(asks)
<1>1. /\ n \in Nat /\ token.ask \in Nat /\ session.ask \in Nat
      /\ token.ask = session.ask => token.ask = 0
  BY AskCounted DEF Good
<1>2. /\ SlotOK(token, n) /\ SlotOK(session, n) /\ TakenOK(taken, n)
      /\ Unused(taken, token.ask) /\ Unused(taken, session.ask)
  BY DEF Good
<1> HIDE DEF n
<1>3. /\ TakenOK(taken \o Collected("token", token), n)
      /\ Unused(taken \o Collected("token", token), session.ask)
      /\ Unused(taken \o Collected("token", token), 0)
  <2>1. Unused(taken, 0)
    BY <1>1, <1>2, TakenCounted DEF TakenOK, Unused
  <2>2. session.ask = token.ask => session.ask = 0
    BY <1>1
  <2> QED
    BY <1>1, <1>2, <2>1, <2>2, TakeOne
<1>4. CASE LoadSsf
  <2> DEFINE t1 == taken \o Collected("token", token)
  <2>1. TakenOK(t1, n) /\ Unused(t1, session.ask) /\ Unused(t1, 0)
    BY <1>3
  <2>2. taken' = t1 \o Collected("session", session)
    BY <1>4 DEF LoadSsf
  <2> HIDE DEF t1
  <2>3. TakenOK(taken', n) /\ Unused(taken', 0)
    BY <1>1, <1>2, <2>1, <2>2, TakeOne
  <2>4. /\ SlotOK(token', n) /\ token'.ask = 0
        /\ SlotOK(session', n) /\ session'.ask = 0
    BY <1>1, <1>4, ClearedOK DEF LoadSsf
  <2>5. RestOK' /\ asks' = asks
    BY <1>4 DEF LoadSsf, Good, RestOK, Pages, saved
  <2> QED
    BY <2>3, <2>4, <2>5 DEF Good, n
<1>5. CASE LoadScim /\ token.what = None
  BY <1>5 DEF LoadScim, Good, RestOK, Pages, saved
<1>6. CASE LoadScim /\ token.what # None
  <2>1. /\ taken' = taken \o Collected("token", token)
        /\ token' = Cleared(token) /\ UNCHANGED <<session, asks>>
    BY <1>6 DEF LoadScim
  <2>2. /\ TakenOK(taken', n) /\ Unused(taken', session.ask)
        /\ Unused(taken', 0)
    BY <1>3, <2>1
  <2>3. SlotOK(token', n) /\ token'.ask = 0
    BY <1>1, <2>1, ClearedOK
  <2>4. RestOK'
    BY <1>6 DEF LoadScim, Good, RestOK, Pages, saved
  <2> QED
    BY <1>2, <2>1, <2>2, <2>3, <2>4 DEF Good, n
<1> QED
  BY <1>4, <1>5, <1>6

(* Cancelling, delivering, and the reader moving about.                    *)
LEMMA AnswersKeepGood ==
  ASSUME Good, NEW g \in Answers,
         \/ AuthorizationAnswer(g) \/ TokenAnswer(g)
         \/ RefreshAnswer(g) \/ SignIn(g)
  PROVE  Good'
<1> DEFINE n == Len(asks)
<1>1. n \in Nat /\ SlotOK(token, n) /\ SlotOK(session, n) /\ RestOK
  BY AskCounted DEF Good
<1> HIDE DEF n
<1>2. ASSUME NEW access \in Answers \union {None},
             NEW id \in Answers \union {None}, NEW carries \in BOOLEAN,
             OfferTokenToHandoff(access, id, carries)
      PROVE  /\ SlotOK(token', n) /\ SlotOK(session', n)
             /\ token'.ask = token.ask /\ session'.ask = session.ask
  <2>1. /\ session' = OfferedSession(session, id)
        /\ token' = Delivered(token, access, id, carries)
        /\ access \in Answers \union {None, Bare}
    BY <1>2 DEF OfferTokenToHandoff
  <2>2. SlotOK(token', n) /\ token'.ask = token.ask
    <3>0. access \in Answers \union {None, Bare}
      OBVIOUS
    <3>1. /\ SlotOK(Delivered(token, access, id, carries), n)
          /\ Delivered(token, access, id, carries).ask = token.ask
      BY <1>1, <3>0, DeliveredOK, ZenonT(60)
    <3> QED
      BY <2>1, <3>1
  <2>3. SlotOK(session', n) /\ session'.ask = session.ask
    BY <1>1, <2>1, OfferedOK
  <2> QED
    BY <2>2, <2>3
<1>3. CASE AuthorizationAnswer(g)
  <2>1. PICK access \in {g, None}, id \in {g, None} :
          OpenResponse([access |-> access, id |-> id])
    BY <1>3 DEF AuthorizationAnswer
  <2>2. OfferTokenToHandoff(access, id, id # None) /\ UNCHANGED history
    BY <2>1 DEF OpenResponse
  <2>3. RestOK'
    BY <1>1, <1>3, <2>1
    DEF AuthorizationAnswer, OpenResponse, RestOK, Pages, Tokens, NoRefresh,
        history
  <2> QED
    BY <1>2, <2>2, <2>3, DeliveryKeepsGood DEF n
<1>4. CASE TokenAnswer(g)
  <2>1. PICK id \in {g, None}, oidc \in BOOLEAN :
          /\ savedToken' = [access |-> g,
                            id |-> IF oidc THEN id ELSE savedToken.id]
          /\ OfferTokenToHandoff(g, id, TRUE)
    BY <1>4 DEF TokenAnswer
  <2>2. RestOK' /\ UNCHANGED history
    BY <1>1, <1>4, <2>1 DEF TokenAnswer, RestOK, Tokens, history
  <2> QED
    BY <1>2, <2>1, <2>2, DeliveryKeepsGood DEF n
<1>5. CASE RefreshAnswer(g)
  <2>1. PICK id \in {g, None}, refresh \in BOOLEAN :
          LET all == OverSaved([access |-> g, id |-> id,
                                refresh |-> refresh])
          IN /\ savedRefresh' = all
             /\ OfferTokenToHandoff(all.access, all.id, Carries(all))
    BY <1>5 DEF RefreshAnswer
  <2> DEFINE all == OverSaved([access |-> g, id |-> id, refresh |-> refresh])
  <2>2. /\ all \in [access: Answers \union {None},
                    id: Answers \union {None}, refresh: BOOLEAN]
        /\ Carries(all) \in BOOLEAN
    BY <1>1 DEF OverSaved, RestOK, Carries
  <2>3. all.access \in Answers \union {None}
        /\ all.id \in Answers \union {None}
    BY <2>2
  <2>4. /\ savedRefresh' = all
        /\ OfferTokenToHandoff(all.access, all.id, Carries(all))
    BY <2>1
  <2> HIDE DEF all
  <2>5. RestOK' /\ UNCHANGED history
    BY <1>1, <1>5, <2>2, <2>4 DEF RefreshAnswer, RestOK, history
  <2> QED
    BY <1>2, <2>2, <2>3, <2>4, <2>5, DeliveryKeepsGood DEF n
<1>6. CASE SignIn(g)
  <2>1. RestOK' /\ UNCHANGED <<token, history>>
    BY <1>1, <1>6 DEF SignIn, RestOK, saved, history
  <2>2. SlotOK(session', n) /\ session'.ask = session.ask
    BY <1>1, <1>6, DeliveredOK DEF SignIn
  <2> QED
    BY <1>1, <2>1, <2>2, DeliveryKeepsGood DEF n
<1> QED
  BY <1>3, <1>4, <1>5, <1>6

(* Cancelling, returning from the detail page, and what only moves the tab *)
(* or the clock.                                                           *)
LEMMA MovesKeepGood ==
  ASSUME Good,
         \/ CancelHandoff \/ ReopenResponse \/ BackToSsf \/ Tick
         \/ \E k \in ReturnKinds : ReturnFromDetail(k[1], k[2], k[3])
         \/ \E p \in {"authorize", "results", "detail", "signin"} : Visit(p)
  PROVE  Good'
<1> DEFINE n == Len(asks)
<1>1. n \in Nat /\ SlotOK(token, n) /\ SlotOK(session, n) /\ RestOK
  BY AskCounted DEF Good
<1> HIDE DEF n
<1>2. CASE CancelHandoff
  <2>1. SlotOK(token', n) /\ token'.ask = 0
    BY <1>1, <1>2, ClearedOK DEF CancelHandoff
  <2>2. RestOK' /\ UNCHANGED <<session, asks, taken>>
    BY <1>1, <1>2 DEF CancelHandoff, RestOK, saved
  <2>3. Unused(taken, 0)
    BY <1>1, TakenCounted DEF Good, TakenOK, Unused, n
  <2> QED
    BY <1>1, <2>1, <2>2, <2>3 DEF Good, n
<1>3. CASE ReopenResponse
  <2>1. /\ OfferTokenToHandoff(response.access, response.id,
                               response.id # None)
        /\ UNCHANGED history
    BY <1>3 DEF ReopenResponse, OpenResponse
  <2>2. response.access \in Answers \union {None, Bare}
        /\ response.id \in Answers \union {None}
        /\ (response.id # None) \in BOOLEAN
    BY <1>1 DEF RestOK, Tokens
  <2>3. SlotOK(token', n) /\ token'.ask = token.ask
    BY <1>1, <2>1, <2>2, DeliveredOK DEF OfferTokenToHandoff
  <2>4. SlotOK(session', n) /\ session'.ask = session.ask
    BY <1>1, <2>1, <2>2, OfferedOK DEF OfferTokenToHandoff
  <2>5. RestOK'
    BY <1>1, <1>3
    DEF ReopenResponse, OpenResponse, RestOK, Pages, NoRefresh, history
  <2> QED
    BY <2>1, <2>3, <2>4, <2>5, DeliveryKeepsGood DEF n
<1>4. CASE BackToSsf
  BY <1>1, <1>4, DeliveryKeepsGood
  DEF BackToSsf, RestOK, Pages, saved, history, n
<1>5. CASE Tick
  <2>1. (token.what # None) \in BOOLEAN /\ (session.what # None) \in BOOLEAN
    OBVIOUS
  <2>2. /\ SlotOK(token', n) /\ token'.ask = token.ask
        /\ SlotOK(session', n) /\ session'.ask = session.ask
    BY <1>1, <1>5, <2>1, StaleOK DEF Tick
  <2>3. RestOK' /\ UNCHANGED history
    BY <1>1, <1>5 DEF Tick, RestOK, saved, history
  <2> QED
    BY <2>2, <2>3, DeliveryKeepsGood DEF n
<1>6. ASSUME NEW k \in ReturnKinds, ReturnFromDetail(k[1], k[2], k[3])
      PROVE  Good'
  <2> DEFINE back == [access |-> IF k[1] THEN savedToken.access ELSE None,
                      id |-> IF k[2] THEN savedToken.id ELSE None]
             all == OverSaved(NoRefresh)
             drawn == k[3] /\ all.access # None
             t1 == Delivered(token, back.access, back.id, back.id # None)
             s1 == IF back = NoTokens THEN session
                                      ELSE OfferedSession(session, back.id)
  <2>1. /\ token' = IF drawn THEN Delivered(t1, all.access, all.id,
                                            Carries(all))
                             ELSE t1
        /\ session' = IF drawn THEN OfferedSession(s1, all.id) ELSE s1
    BY <1>6 DEF ReturnFromDetail
  <2>2. /\ back.access \in Answers \union {None, Bare}
        /\ back.id \in Answers \union {None}
    BY <1>1 DEF RestOK, Tokens
  <2>3. /\ all.access \in Answers \union {None, Bare}
        /\ all.id \in Answers \union {None}
        /\ Carries(all) \in BOOLEAN
    BY <1>1 DEF RestOK, OverSaved, NoRefresh, Carries
  <2>4. (back.id # None) \in BOOLEAN
    OBVIOUS
  <2> HIDE DEF back, all, drawn
  <2>5. SlotOK(t1, n) /\ t1.ask = token.ask
    BY <1>1, <2>2, <2>4, DeliveredOK
  <2>6. SlotOK(s1, n) /\ s1.ask = session.ask
    BY <1>1, <2>2, OfferedOK
  <2> HIDE DEF t1, s1
  <2>7. SlotOK(token', n) /\ token'.ask = token.ask
    <3>1. /\ SlotOK(Delivered(t1, all.access, all.id, Carries(all)), n)
          /\ Delivered(t1, all.access, all.id, Carries(all)).ask = t1.ask
      BY <1>1, <2>3, <2>5, DeliveredOK
    <3> QED
      BY <2>1, <2>5, <3>1
  <2>8. SlotOK(session', n) /\ session'.ask = session.ask
    BY <1>1, <2>1, <2>3, <2>6, OfferedOK
  <2>9. RestOK' /\ UNCHANGED history
    BY <1>1, <1>6 DEF ReturnFromDetail, RestOK, Pages, saved, history
  <2> QED
    BY <2>7, <2>8, <2>9, DeliveryKeepsGood DEF n
<1>7. ASSUME NEW p \in {"authorize", "results", "detail", "signin"}, Visit(p)
      PROVE  Good'
  <2>1. RestOK' /\ UNCHANGED <<token, session, history>>
    <3>1. page' \in Pages /\ UNCHANGED <<token, session, response, issued,
                                          history>>
      BY <1>7 DEF Visit, Pages, history
    <3>2. CASE p = "results"
      <4>1. savedToken' = NoTokens /\ savedRefresh' = NoRefresh
        BY <1>7, <3>2 DEF Visit
      <4> QED
        BY <1>1, <3>1, <4>1 DEF RestOK, Tokens, NoTokens, NoRefresh
    <3>3. CASE p # "results"
      <4>1. UNCHANGED <<savedToken, savedRefresh>>
        BY <1>7, <3>3 DEF Visit, saved
      <4> QED
        BY <1>1, <3>1, <4>1 DEF RestOK
    <3> QED
      BY <3>2, <3>3
  <2> QED
    BY <1>1, <2>1, DeliveryKeepsGood DEF n
<1> QED
  BY <1>2, <1>3, <1>4, <1>5, <1>6, <1>7

---------------------------------------------------------------------------
(* The theorems.                                                           *)

(* Good is an invariant: of every order in which the pages can be visited. *)
THEOREM GoodInvariant == Spec => []Good
<1>1. Init => Good
  <2> SUFFICES ASSUME Init PROVE Good
    OBVIOUS
  <2>1. Len(asks) = 0 /\ asks \in Seq(SUBSET Answers) /\ taken = <<>>
    BY DEF Init
  <2>2. SlotOK(token, 0) /\ SlotOK(session, 0) /\ token.ask = 0
    BY ClearedOK DEF Init, Cleared
  <2>3. TakenOK(taken, 0) /\ \A a : Unused(taken, a)
    BY <2>1 DEF TakenOK, Unused
  <2>4. RestOK
    BY DEF Init, RestOK, Pages, Tokens, NoTokens, NoRefresh
  <2> QED
    BY <2>1, <2>2, <2>3, <2>4 DEF Good
<1>2. Good /\ [Next]_vars => Good'
  <2> SUFFICES ASSUME Good, [Next]_vars PROVE Good'
    OBVIOUS
  <2>1. CASE AskToken \/ AskSession \/ AskBoth
    BY <2>1, AsksKeepGood
  <2>2. CASE LoadSsf \/ LoadScim
    BY <2>2, TakesKeepGood
  <2>3. ASSUME NEW g \in Answers,
               \/ AuthorizationAnswer(g) \/ TokenAnswer(g)
               \/ RefreshAnswer(g) \/ SignIn(g)
        PROVE  Good'
    BY <2>3, AnswersKeepGood
  <2>4. CASE \/ CancelHandoff \/ ReopenResponse \/ BackToSsf \/ Tick
             \/ \E k \in ReturnKinds : ReturnFromDetail(k[1], k[2], k[3])
             \/ \E p \in {"authorize", "results", "detail", "signin"} :
                  Visit(p)
    BY <2>4, MovesKeepGood
  <2>5. CASE UNCHANGED vars
    BY <2>5 DEF vars, saved, history, Good, RestOK
  <2> QED
    BY <2>1, <2>2, <2>3, <2>4, <2>5 DEF Next
<1> QED
  BY <1>1, <1>2, PTL DEF Spec

(* What the slots, the saved tokens and the histories hold has its type,   *)
(* and what was collected names an ask that was made.  (token_handoff.js,  *)
(* session_handoff.js, the KEYS)                                           *)
THEOREM TypeCorrect == Spec => []TypeOK
<1>1. Good => TypeOK
  BY DEF Good, RestOK, SlotOK, TakenOK, TypeOK
<1> QED
  BY <1>1, GoodInvariant, PTL

(* Nothing of an abandoned hand-off is ever left in a slot.                *)
(* (token_handoff.js, start() and cancel())                                *)
THEOREM SlotsCorrect == Spec => []SlotAnswersLatestAsk
<1>1. Good => SlotAnswersLatestAsk
  BY DEF Good, SlotOK, SlotAnswersLatestAsk
<1> QED
  BY <1>1, GoodInvariant, PTL

(* However the pages are visited, one ask is answered at most once.        *)
(* (token_handoff.js and session_handoff.js, take())                       *)
THEOREM AnsweredOnce == Spec => []OneAnswerPerAsk
<1>1. Good => OneAnswerPerAsk
  <2> SUFFICES ASSUME Good PROVE OneAnswerPerAsk
    OBVIOUS
  <2>1. DOMAIN taken = 1..Len(taken)
    BY LenProperties DEF Good, TakenOK
  <2> QED
    BY <2>1 DEF Good, TakenOK, OneAnswerPerAsk
<1> QED
  BY <1>1, GoodInvariant, PTL
=============================================================================
