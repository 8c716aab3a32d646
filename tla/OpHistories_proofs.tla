------------------------- MODULE OpHistories_proofs -------------------------
(***************************************************************************)
(* Proofs about the Operations History, for any cap and any number of      *)
(* pages, status lines, operations and calls.                              *)
(*                                                                         *)
(* The first part says what an operation of the store does to the log; the *)
(* second what every handler keeps true of the rows it waits for; the rest *)
(* follows without opening the store again.                                *)
(***************************************************************************)
EXTENDS OpHistories, FiniteSetTheorems, WellFoundedInduction, TLAPS

(***************************************************************************)
(* The store.                                                              *)
(***************************************************************************)
StoreOK ==
  /\ rows \in Seq(Results)
  /\ op \in Seq(Operations) /\ Len(op) = Len(rows)
  /\ kept \subseteq DOMAIN rows /\ Cardinality(kept) <= Limit
  /\ excused \subseteq DOMAIN rows

LEMMA SmallestOf ==
  ASSUME NEW S, S \subseteq Nat, S # {}
  PROVE  \E m \in S : \A s \in S : m <= s
<1>1. PICK m \in S : \A s \in S : <<s, m>> \notin OpToRel(<, Nat)
  BY NatLessThanWellFounded, WFMin
<1>2. \A s \in S : ~(s < m)
  BY <1>1 DEF OpToRel
<1> QED BY <1>2

(* The cap holds, and what is dropped is older than what stays.            *)
LEMMA NewestCapped ==
  ASSUME NEW n \in Nat, NEW S, S \subseteq 1..n
  PROVE  /\ Cardinality(Newest(S)) <= Limit
         /\ Newest(S) \subseteq S
         /\ \A r \in S \ Newest(S), s \in Newest(S) : r < s
<1> DEFINE From(r) == {s \in S : r <= s}
<1>1. IsFiniteSet(S)
  <2>1. IsFiniteSet(1..n) /\ S \in SUBSET (1..n)
    BY FS_Interval
  <2> QED BY <2>1, FS_Subset
<1>2. \A r \in S : IsFiniteSet(From(r)) /\ Cardinality(From(r)) \in Nat
  BY <1>1, FS_Subset, FS_CardinalityType
<1>3. \A r \in S : r \in Newest(S) <=> Cardinality(From(r)) <= Limit
  BY DEF Newest
<1>4. Newest(S) \subseteq S
  BY DEF Newest
<1>8. S \subseteq Nat /\ Newest(S) \subseteq Nat
  <2>1. 1..n \subseteq Nat
    OBVIOUS
  <2> QED BY <1>4, <2>1
<1> HIDE DEF Newest
<1>5. Cardinality(Newest(S)) <= Limit
  <2>1. CASE Newest(S) = {}
    BY <2>1, FS_EmptySet, OpHistoryAssumption
  <2>2. CASE Newest(S) # {}
    <3>1. PICK m \in Newest(S) : \A s \in Newest(S) : m <= s
      BY <1>8, <2>2, SmallestOf
    <3>2. Newest(S) \subseteq From(m)
      BY <1>4, <3>1
    <3>3. IsFiniteSet(Newest(S)) /\ Cardinality(Newest(S)) <= Cardinality(From(m))
      BY <1>2, <1>4, <3>1, <3>2, FS_Subset
    <3>4. Cardinality(Newest(S)) \in Nat
      BY <3>3, FS_CardinalityType
    <3>5. m \in S /\ Cardinality(From(m)) \in Nat /\ Cardinality(From(m)) <= Limit
      BY <1>2, <1>3, <1>4
    <3> HIDE DEF From
    <3> QED BY <3>3, <3>4, <3>5, OpHistoryAssumption
  <2> QED BY <2>1, <2>2
<1>6. ASSUME NEW r \in S \ Newest(S), NEW s \in Newest(S), s <= r
      PROVE  FALSE
  <2>0. r \in S /\ s \in S /\ r \in Nat /\ s \in Nat /\ s <= r
    BY <1>4, <1>6, <1>8
  <2>1. From(r) \subseteq From(s)
    <3> SUFFICES ASSUME NEW t \in S, r <= t
                 PROVE  s <= t
      OBVIOUS
    <3>1. t \in Nat
      BY <1>8
    <3> QED BY <2>0, <3>1
  <2>2. Cardinality(From(r)) <= Cardinality(From(s))
    BY <1>2, <2>0, <2>1, FS_Subset
  <2>3. ~(Cardinality(From(r)) <= Limit) /\ Cardinality(From(s)) <= Limit
    BY <1>3, <1>6, <2>0
  <2>4. Cardinality(From(r)) \in Nat /\ Cardinality(From(s)) \in Nat
    BY <1>2, <2>0
  <2> HIDE DEF From
  <2> QED BY <2>2, <2>3, <2>4, OpHistoryAssumption
<1>7. \A r \in S \ Newest(S), s \in Newest(S) : r < s
  <2> SUFFICES ASSUME NEW r \in S \ Newest(S), NEW s \in Newest(S)
               PROVE  r < s
    OBVIOUS
  <2>1. r \in Nat /\ s \in Nat /\ ~(s <= r)
    BY <1>8, <1>6
  <2> QED BY <2>1
<1> QED BY <1>4, <1>5, <1>7

(* A row is added at the end, or refused; the log keeps its types, and a   *)
(* step that records is a step of the abstract log.                        *)
LEMMA Recorded ==
  ASSUME StoreOK, NEW operation \in Operations, NEW result \in Results,
         Record(operation, result, rows)
  PROVE  /\ rows' \in Seq(Results) /\ op' \in Seq(Operations)
         /\ Len(rows') = Row /\ Len(op') = Row
         /\ kept' \subseteq DOMAIN rows' /\ Cardinality(kept') <= Limit
         /\ kept' \subseteq kept \union {Row}
         /\ rows'[Row] = result
         /\ \A i \in DOMAIN rows : rows'[i] = rows[i]
         /\ DOMAIN rows' = DOMAIN rows \union {Row}
         /\ Row \notin DOMAIN rows /\ Row # 0
         /\ Log!Next
<1>1. Len(rows) \in Nat /\ DOMAIN rows = 1..Len(rows)
  BY DEF StoreOK
<1>2. /\ rows' = Append(rows, result)
      /\ rows' \in Seq(Results) /\ op' \in Seq(Operations)
      /\ Len(rows') = Row /\ Len(op') = Row
      /\ rows'[Row] = result
      /\ \A i \in DOMAIN rows : rows'[i] = rows[i]
  BY DEF StoreOK, Record, Row
<1>3. DOMAIN rows' = DOMAIN rows \union {Row} /\ Row \notin DOMAIN rows /\ Row # 0
  BY <1>1, <1>2 DEF Row
<1>4. CASE kept' = kept
  <2>1. Log!Record
    BY <1>2, <1>4 DEF Log!Record, Log!Results, Log!Outcomes, Results, Outcomes
  <2> QED BY <1>2, <1>3, <1>4, <2>1 DEF StoreOK, Log!Next
<1>5. CASE kept' = Newest(kept \union {Row})
  <2>1. kept \union {Row} \subseteq 1..Row /\ Row \in Nat
    BY <1>1 DEF StoreOK, Row
  <2>2. /\ Cardinality(kept') <= Limit
        /\ kept' \subseteq kept \union {Row}
        /\ \A r \in (kept \union {Row}) \ kept', s \in kept' : r < s
    BY <1>5, <2>1, NewestCapped
  <2>3. Log!Record
    BY <1>2, <2>2 DEF Log!Record, Log!Results, Log!Outcomes, Results, Outcomes
  <2> QED BY <1>1, <1>2, <1>3, <2>2, <2>3 DEF StoreOK, Log!Next
<1> QED BY <1>4, <1>5 DEF Record

(* A row that is Sent, or gone, is closed: it has its outcome, or storage  *)
(* refused it.                                                             *)
LEMMA Updated ==
  ASSUME StoreOK, NEW id, NEW outcome \in Outcomes, Update(id, outcome),
         id \in kept => rows[id] = "Sent"
  PROVE  /\ rows' \in Seq(Results) /\ Len(rows') = Len(rows)
         /\ op' = op /\ kept' = kept
         /\ \A i \in DOMAIN rows : i # id => rows'[i] = rows[i]
         /\ id \in kept => rows'[id] # "Sent" \/ id \in excused'
         /\ excused \subseteq excused' /\ excused' \subseteq DOMAIN rows
         /\ Log!Next \/ (rows' = rows /\ kept' = kept)
<1>1. CASE id \notin kept \/ UNCHANGED store
  BY <1>1 DEF StoreOK, Update, store, Outcomes
<1>2. CASE /\ id \in kept
           /\ rows' = [rows EXCEPT ![id] = outcome]
           /\ UNCHANGED <<op, kept, excused>>
  <2>1. id \in DOMAIN rows /\ outcome \in Results /\ outcome # "Sent"
    BY <1>2 DEF StoreOK, Results, Outcomes
  <2>2. rows' \in Seq(Results) /\ Len(rows') = Len(rows)
    BY <1>2, <2>1 DEF StoreOK
  <2>3. rows'[id] = outcome /\ \A i \in DOMAIN rows : i # id => rows'[i] = rows[i]
    BY <1>2, <2>1 DEF StoreOK
  <2>4. Log!Learn
    BY <1>2 DEF Log!Learn, Log!Outcomes, Outcomes
  <2> QED BY <1>2, <2>1, <2>2, <2>3, <2>4 DEF StoreOK, Log!Next
<1> QED BY <1>1, <1>2 DEF Update

(***************************************************************************)
(* What the handlers keep true.  Only the Kerberos pages watch a line; the *)
(* number a direct call keeps is of a row that is Sent and that nobody     *)
(* else will close; the one WS-Trust stores may have been closed with the  *)
(* outcome stored beside it.                                               *)
(***************************************************************************)
OnlyKerberosWatches == workflow # "kerberos" => open = NothingOpen

RunningSent ==
  workflow = "direct" =>
    \A w \in Places : \A r \in running[w] :
      /\ r \in kept => rows[r] = "Sent"
      /\ \A v \in Places : r \in running[v] => v = w

ExchangeSent ==
  workflow = "wstrust" /\ exchange.row \in kept =>
    rows[exchange.row] \in {"Sent", exchange.outcome}

IInv ==
  /\ TypeOK
  /\ WatchedIsSent
  /\ SentIsWatched
  /\ OnlyKerberosWatches
  /\ RunningSent
  /\ ExchangeSent

(* A step leads to the invariant, and is one of the abstract log, or none. *)
Sound == IInv' /\ (Log!Next \/ (rows' = rows /\ kept' = kept))

LEMMA NothingOpenHolds ==
  NothingOpen \in [Places -> {0}] /\ \A w \in Places : NothingOpen[w] = 0
  BY DEF NothingOpen

LEMMA InitIInv == Init => IInv
<1> SUFFICES ASSUME Init PROVE IInv
  OBVIOUS
<1>1. TypeOK
  <2>1. Cardinality(kept) <= Limit
    BY FS_EmptySet, OpHistoryAssumption DEF Init
  <2>2. rows \in Seq(Results) /\ op \in Seq(Operations) /\ Len(op) = Len(rows)
    BY DEF Init
  <2>3. open \in [Places -> {0} \union DOMAIN rows]
    BY NothingOpenHolds DEF Init, NothingOpen
  <2> QED BY <2>1, <2>2, <2>3, RedirectAssumption
          DEF TypeOK, Init, NoExchange, Stops, Outcomes
<1> QED BY <1>1, NothingOpenHolds
        DEF IInv, Init, WatchedIsSent, SentIsWatched, OnlyKerberosWatches,
            RunningSent, ExchangeSent

(***************************************************************************)
(* Kerberos and SPNEGO.                                                    *)
(***************************************************************************)
KrbContext ==
  /\ IInv /\ workflow = "kerberos" /\ workflow' = workflow
  /\ UNCHANGED <<at, about, exchange>>

(* Writing Sent on a row that is watched changes nothing.                  *)
LEMMA SupersededIsSent ==
  ASSUME IInv, NEW w \in Places
  PROVE  Superseded(w) = rows
<1>1. CASE open[w] \notin kept
  BY <1>1 DEF Superseded
<1>2. CASE open[w] \in kept
  <2>1. open[w] \in DOMAIN rows /\ rows \in Seq(Results) /\ open[w] # 0
    BY <1>2 DEF IInv, TypeOK
  <2>2. rows[open[w]] = "Sent"
    BY <1>2, <2>1 DEF IInv, WatchedIsSent
  <2>3. rows = [i \in DOMAIN rows |-> rows[i]]
    BY <2>1
  <2>4. [rows EXCEPT ![open[w]] = "Sent"] = rows
    BY <2>2, <2>3
  <2> QED BY <1>2, <2>4 DEF Superseded
<1> QED BY <1>1, <1>2

LEMMA BeginSound ==
  ASSUME KrbContext, NEW w \in Places, NEW before, before \subseteq running[w],
         Begin(w, before)
  PROVE  Sound
<1> USE DEF KrbContext
<1>1. StoreOK
  BY DEF IInv, TypeOK, StoreOK
<1>2. PICK operation \in Operations : Record(operation, "Sent", rows)
  BY SupersededIsSent DEF Begin
<1>3. /\ rows' \in Seq(Results) /\ op' \in Seq(Operations)
      /\ Len(rows') = Row /\ Len(op') = Row
      /\ kept' \subseteq DOMAIN rows' /\ Cardinality(kept') <= Limit
      /\ kept' \subseteq kept \union {Row}
      /\ rows'[Row] = "Sent"
      /\ \A i \in DOMAIN rows : rows'[i] = rows[i]
      /\ DOMAIN rows' = DOMAIN rows \union {Row}
      /\ Row \notin DOMAIN rows /\ Row # 0
      /\ Log!Next
  <2>1. "Sent" \in Results
    BY DEF Results
  <2> QED BY <1>1, <1>2, <2>1, Recorded
<1>4. /\ open \in [Places -> {0} \union DOMAIN rows]
      /\ open' \in [Places -> {0} \union DOMAIN rows']
      /\ open'[w] = Row
      /\ \A v \in Places : v # w => open'[v] = open[v]
      /\ running' \in [Places -> SUBSET (DOMAIN rows')]
      /\ Row \in running'[w]
      /\ \A v \in Places : v # w => running'[v] = running[v]
      /\ excused' = excused \union ({open[w]} \ {0})
  BY <1>3 DEF Begin, IInv, TypeOK
<1>5. TypeOK'
  BY <1>3, <1>4 DEF IInv, TypeOK
<1>6. WatchedIsSent'
  <2> SUFFICES ASSUME NEW u \in Places, open'[u] # 0
               PROVE  /\ open'[u] \in kept' => rows'[open'[u]] = "Sent"
                      /\ \A v \in Places : open'[v] = open'[u] => v = u
    BY DEF WatchedIsSent
  <2>1. \A v \in Places : open[v] \in {0} \union DOMAIN rows
    BY <1>4
  <2>2. CASE u = w
    BY <1>3, <1>4, <2>1, <2>2
  <2>3. CASE u # w
    <3>1. open'[u] = open[u] /\ open[u] \in DOMAIN rows /\ open[u] # Row
      BY <1>3, <1>4, <2>1, <2>3
    <3>2. open[u] \in kept' => rows'[open[u]] = "Sent"
      BY <1>3, <3>1 DEF IInv, WatchedIsSent
    <3>3. \A v \in Places : open[v] = open[u] => v = u
      BY <3>1 DEF IInv, WatchedIsSent
    <3> QED BY <1>4, <3>1, <3>2, <3>3
  <2> QED BY <2>2, <2>3
<1>7. SentIsWatched'
  <2> SUFFICES ASSUME NEW r \in kept', rows'[r] = "Sent"
               PROVE  \/ r \in excused' \/ exchange'.row = r
                      \/ \E v \in Places : open'[v] = r /\ r \in running'[v]
    BY DEF SentIsWatched, Watched
  <2>1. CASE r = Row
    BY <1>4, <2>1
  <2>2. CASE r # Row
    <3>1. r \in kept /\ r \in DOMAIN rows /\ rows[r] = "Sent"
      BY <1>3, <2>2 DEF IInv, TypeOK
    <3>2. r # 0
      BY <3>1, <1>3 DEF IInv, TypeOK
    <3>3. \/ r \in excused \/ exchange.row = r
          \/ \E v \in Places : open[v] = r /\ r \in running[v]
      BY <3>1 DEF IInv, SentIsWatched, Watched
    <3> QED BY <1>4, <3>2, <3>3 DEF Watched
  <2> QED BY <2>1, <2>2
<1> QED BY <1>3, <1>5, <1>6, <1>7
        DEF Sound, IInv, OnlyKerberosWatches, RunningSent, ExchangeSent

LEMMA SettleSound ==
  ASSUME KrbContext, NEW w \in Places, NEW status \in Results,
         Settle(w, status), running' \in [Places -> SUBSET (DOMAIN rows)],
         \A v \in Places : v # w => running'[v] = running[v],
         status # "Sent" \/ running'[w] = running[w]
  PROVE  Sound
<1> USE DEF KrbContext
<1>1. CASE open[w] = 0 \/ status = "Sent"
  <2>1. UNCHANGED <<store, open, excused>>
    BY <1>1 DEF Settle
  <2>2. SentIsWatched'
    <3> SUFFICES ASSUME NEW r \in kept', rows'[r] = "Sent"
                 PROVE  \/ r \in excused' \/ exchange'.row = r
                        \/ \E v \in Places : open'[v] = r /\ r \in running'[v]
      BY DEF SentIsWatched, Watched
    <3>1. \/ r \in excused \/ exchange.row = r
          \/ \E v \in Places : open[v] = r /\ r \in running[v]
      BY <2>1 DEF IInv, SentIsWatched, Watched, store
    <3>2. r # 0
      BY <2>1 DEF IInv, TypeOK, store
    <3> QED BY <1>1, <2>1, <3>1, <3>2
  <2> QED BY <2>1, <2>2
          DEF Sound, IInv, TypeOK, store, WatchedIsSent,
              OnlyKerberosWatches, RunningSent, ExchangeSent
<1>2. CASE open[w] # 0 /\ status # "Sent"
  <2>1. StoreOK /\ status \in Outcomes /\ (open[w] \in kept => rows[open[w]] = "Sent")
    BY <1>2 DEF IInv, TypeOK, StoreOK, WatchedIsSent, Results
  <2>2. /\ open' = [open EXCEPT ![w] = 0]
        /\ Update(open[w], status)
    BY <1>2 DEF Settle
  <2>3. /\ rows' \in Seq(Results) /\ Len(rows') = Len(rows)
        /\ op' = op /\ kept' = kept
        /\ \A i \in DOMAIN rows : i # open[w] => rows'[i] = rows[i]
        /\ open[w] \in kept => rows'[open[w]] # "Sent" \/ open[w] \in excused'
        /\ excused \subseteq excused' /\ excused' \subseteq DOMAIN rows
        /\ Log!Next \/ (rows' = rows /\ kept' = kept)
    BY <2>1, <2>2, Updated
  <2>4. /\ open \in [Places -> {0} \union DOMAIN rows]
        /\ open' \in [Places -> {0} \union DOMAIN rows]
        /\ open'[w] = 0
        /\ \A v \in Places : v # w => open'[v] = open[v]
    BY <2>2 DEF IInv, TypeOK
  <2>5. DOMAIN rows' = DOMAIN rows
    BY <2>3 DEF IInv, TypeOK
  <2>6. TypeOK'
    BY <2>3, <2>4, <2>5 DEF IInv, TypeOK
  <2>7. WatchedIsSent'
    <3> SUFFICES ASSUME NEW u \in Places, open'[u] # 0
                 PROVE  /\ open'[u] \in kept' => rows'[open'[u]] = "Sent"
                        /\ \A v \in Places : open'[v] = open'[u] => v = u
      BY DEF WatchedIsSent
    <3>1. u # w /\ open'[u] = open[u] /\ open[u] \in DOMAIN rows
      BY <2>4
    <3>2. \A v \in Places : open[v] = open[u] => v = u
      BY <2>4, <3>1 DEF IInv, WatchedIsSent
    <3>3. open[u] # open[w]
      BY <3>1, <3>2
    <3>4. open[u] \in kept => rows[open[u]] = "Sent"
      BY <2>4, <3>1 DEF IInv, WatchedIsSent
    <3> QED BY <2>3, <2>4, <3>1, <3>2, <3>3, <3>4
  <2>8. SentIsWatched'
    <3> SUFFICES ASSUME NEW r \in kept', rows'[r] = "Sent"
                 PROVE  \/ r \in excused' \/ exchange'.row = r
                      \/ \E v \in Places : open'[v] = r /\ r \in running'[v]
      BY DEF SentIsWatched, Watched
    <3>1. CASE r = open[w]
      BY <2>3, <3>1
    <3>2. CASE r # open[w]
      <4>1. r \in kept /\ rows[r] = "Sent"
        BY <2>3, <3>2 DEF IInv, TypeOK
      <4>2. \/ r \in excused \/ exchange.row = r
          \/ \E v \in Places : open[v] = r /\ r \in running[v]
        BY <4>1 DEF IInv, SentIsWatched, Watched
      <4> QED BY <2>3, <2>4, <3>2, <4>2
    <3> QED BY <3>1, <3>2
  <2> QED BY <2>3, <2>6, <2>7, <2>8
          DEF Sound, IInv, OnlyKerberosWatches, RunningSent, ExchangeSent
<1> QED BY <1>1, <1>2

LEMMA KerberosSound ==
  ASSUME KrbContext, KrbNext
  PROVE  Sound
<1> USE DEF KrbContext
<1>1. ASSUME NEW w \in Places, KrbPress(w)
      PROVE  Sound
  BY <1>1, BeginSound DEF KrbPress
<1>2. ASSUME NEW w \in Places, NEW r \in running[w], KrbContinue(w, r)
      PROVE  Sound
  BY <1>2, BeginSound DEF KrbContinue
<1>3. ASSUME NEW w \in Places, NEW r \in running[w], NEW status \in Results,
             NEW over \in BOOLEAN, KrbReport(w, r, status, over)
      PROVE  Sound
  <2>1. running' \in [Places -> SUBSET (DOMAIN rows)]
    BY <1>3 DEF IInv, TypeOK, KrbReport
  <2>2. /\ \A v \in Places : v # w => running'[v] = running[v]
        /\ status # "Sent" \/ running'[w] = running[w]
    BY <1>3 DEF IInv, TypeOK, KrbReport
  <2> QED BY <1>3, <2>1, <2>2, SettleSound DEF KrbReport
<1>4. ASSUME NEW w \in Places, KrbDescribe(w)
      PROVE  Sound
  <2>1. running' \in [Places -> SUBSET (DOMAIN rows)] /\ "Failure" \in Results
    BY <1>4 DEF IInv, TypeOK, KrbDescribe, Results, Outcomes
  <2> QED BY <1>4, <2>1, SettleSound DEF KrbDescribe, Outcomes
<1>5. ASSUME NEW p \in Pages, KrbClear(p)
      PROVE  Sound
  <2>1. /\ open \in [Places -> {0} \union DOMAIN rows]
        /\ open' \in [Places -> {0} \union DOMAIN rows]
        /\ \A v \in Places : open'[v] # 0 => open'[v] = open[v]
    BY <1>5 DEF IInv, TypeOK, KrbClear
  <2>2. kept' = {} /\ UNCHANGED <<rows, op, running, excused>>
    BY <1>5 DEF KrbClear, Clear
  <2>3. TypeOK'
    BY <2>1, <2>2, FS_EmptySet, OpHistoryAssumption DEF IInv, TypeOK
  <2>4. WatchedIsSent'
    BY <2>1, <2>2 DEF IInv, WatchedIsSent
  <2> QED BY <2>2, <2>3, <2>4
          DEF Sound, IInv, SentIsWatched, OnlyKerberosWatches, RunningSent, ExchangeSent,
              Log!Next, Log!Clear
<1>6. ASSUME NEW p \in Pages, KrbLeave(p)
      PROVE  Sound
  <2>1. /\ open \in [Places -> {0} \union DOMAIN rows]
        /\ open' \in [Places -> {0} \union DOMAIN rows]
        /\ \A v \in Places : open'[v] = IF v[1] = p THEN 0 ELSE open[v]
    BY <1>6 DEF IInv, TypeOK, KrbLeave
  <2>2. /\ running' \in [Places -> SUBSET (DOMAIN rows)]
        /\ \A v \in Places : v[1] # p => running'[v] = running[v]
    BY <1>6 DEF IInv, TypeOK, KrbLeave, Elsewhere
  <2>3. UNCHANGED store /\ excused' = excused \union ({open[w] : w \in {p} \X Lines} \ {0})
    BY <1>6 DEF KrbLeave
  <2>4. \A v \in Places : v[1] = p => v \in {p} \X Lines
    BY DEF Places
  <2>5. {p} \X Lines \subseteq Places
    BY DEF Places
  <2>6. excused' \subseteq DOMAIN rows
    BY <2>1, <2>3, <2>5 DEF IInv, TypeOK
  <2>7. TypeOK'
    BY <2>1, <2>2, <2>3, <2>6 DEF IInv, TypeOK, store
  <2>8. WatchedIsSent'
    BY <2>1, <2>3 DEF IInv, WatchedIsSent, store
  <2>9. SentIsWatched'
    <3> SUFFICES ASSUME NEW r \in kept', rows'[r] = "Sent"
                 PROVE  \/ r \in excused' \/ exchange'.row = r
                      \/ \E v \in Places : open'[v] = r /\ r \in running'[v]
      BY DEF SentIsWatched, Watched
    <3>1. r \in DOMAIN rows /\ r # 0
      BY <2>3 DEF IInv, TypeOK, store
    <3>2. \/ r \in excused \/ exchange.row = r
          \/ \E v \in Places : open[v] = r /\ r \in running[v]
      BY <2>3 DEF IInv, SentIsWatched, Watched, store
    <3>3. ASSUME NEW v \in Places, open[v] = r, v[1] = p
          PROVE  r \in excused'
      BY <2>3, <2>4, <3>1, <3>3
    <3> QED BY <2>1, <2>2, <2>3, <3>2, <3>3
  <2> QED BY <2>3, <2>7, <2>8, <2>9
          DEF Sound, IInv, OnlyKerberosWatches, RunningSent, ExchangeSent, store
<1>7. CASE KrbNote
  <2>1. PICK operation \in Operations : Record(operation, "Success", rows)
    BY <1>7 DEF KrbNote
  <2>2. StoreOK /\ "Success" \in Results
    BY DEF IInv, TypeOK, StoreOK, Results, Outcomes
  <2>3. /\ rows' \in Seq(Results) /\ op' \in Seq(Operations)
        /\ Len(rows') = Row /\ Len(op') = Row
        /\ kept' \subseteq DOMAIN rows' /\ Cardinality(kept') <= Limit
        /\ kept' \subseteq kept \union {Row}
        /\ rows'[Row] = "Success"
        /\ \A i \in DOMAIN rows : rows'[i] = rows[i]
        /\ DOMAIN rows' = DOMAIN rows \union {Row}
        /\ Row \notin DOMAIN rows /\ Row # 0
        /\ Log!Next
    BY <2>1, <2>2, Recorded
  <2>4. UNCHANGED <<open, running, excused>>
    BY <1>7 DEF KrbNote
  <2>5. TypeOK'
    BY <2>3, <2>4 DEF IInv, TypeOK
  <2>6. \A v \in Places : open[v] # Row
    BY <2>3 DEF IInv, TypeOK
  <2>7. WatchedIsSent' /\ SentIsWatched'
    BY <2>3, <2>4, <2>6 DEF IInv, TypeOK, WatchedIsSent, SentIsWatched, Watched
  <2> QED BY <2>3, <2>4, <2>5, <2>7
          DEF Sound, IInv, OnlyKerberosWatches, RunningSent, ExchangeSent
<1>8. ASSUME NEW w \in Places, NEW q \in running[w], KrbEndQuietly(w, q)
      PROVE  Sound
  <2>1. /\ UNCHANGED <<store, open>>
        /\ excused' = excused \union ({open[w]} \intersect {q})
    BY <1>8 DEF KrbEndQuietly
  <2>2. /\ q \in DOMAIN rows
        /\ running' \in [Places -> SUBSET (DOMAIN rows)]
        /\ running'[w] = running[w] \ {q}
        /\ \A v \in Places : v # w => running'[v] = running[v]
    BY <1>8 DEF IInv, TypeOK, KrbEndQuietly
  <2>3. TypeOK'
    BY <2>1, <2>2 DEF IInv, TypeOK, store
  <2>4. WatchedIsSent'
    BY <2>1 DEF IInv, WatchedIsSent, store
  <2>5. SentIsWatched'
    <3> SUFFICES ASSUME NEW r \in kept', rows'[r] = "Sent"
                 PROVE  \/ r \in excused' \/ exchange'.row = r
                        \/ \E v \in Places : open'[v] = r /\ r \in running'[v]
      BY DEF SentIsWatched, Watched
    <3>1. \/ r \in excused \/ exchange.row = r
          \/ \E v \in Places : open[v] = r /\ r \in running[v]
      BY <2>1 DEF IInv, SentIsWatched, Watched, store
    <3> QED BY <2>1, <2>2, <3>1
  <2> QED BY <2>1, <2>3, <2>4, <2>5
          DEF Sound, IInv, OnlyKerberosWatches, RunningSent, ExchangeSent, store
<1> QED BY <1>1, <1>2, <1>3, <1>4, <1>5, <1>6, <1>7, <1>8 DEF KrbNext

(***************************************************************************)
(* The pages that get their answers themselves.                            *)
(***************************************************************************)
LEMMA DirectSound ==
  ASSUME IInv, workflow = "direct", workflow' = workflow,
         UNCHANGED <<open, at, about, exchange>>, DirectNext
  PROVE  Sound
<1>1. StoreOK
  BY DEF IInv, TypeOK, StoreOK
<1>2. \A v \in Places : open[v] = 0
  BY NothingOpenHolds DEF IInv, OnlyKerberosWatches
<1>3. WatchedIsSent'
  BY <1>2 DEF WatchedIsSent
<1>4. OnlyKerberosWatches' /\ ExchangeSent'
  BY DEF IInv, OnlyKerberosWatches, ExchangeSent
<1>5. running \in [Places -> SUBSET (DOMAIN rows)]
  BY DEF IInv, TypeOK
<1>6. ASSUME NEW w \in Places, DirectCall(w)
      PROVE  Sound
  <2>1. PICK operation \in Operations : Record(operation, "Sent", rows)
    BY <1>6 DEF DirectCall
  <2>2. /\ rows' \in Seq(Results) /\ op' \in Seq(Operations)
        /\ Len(rows') = Row /\ Len(op') = Row
        /\ kept' \subseteq DOMAIN rows' /\ Cardinality(kept') <= Limit
        /\ kept' \subseteq kept \union {Row}
        /\ rows'[Row] = "Sent"
        /\ \A i \in DOMAIN rows : rows'[i] = rows[i]
        /\ DOMAIN rows' = DOMAIN rows \union {Row}
        /\ Row \notin DOMAIN rows /\ Row # 0
        /\ Log!Next
    <3>1. "Sent" \in Results
      BY DEF Results
    <3> QED BY <1>1, <2>1, <3>1, Recorded
  <2>3. /\ running' \in [Places -> SUBSET (DOMAIN rows')]
        /\ running'[w] = running[w] \union {Row}
        /\ \A v \in Places : v # w => running'[v] = running[v]
        /\ excused' = excused
    BY <1>5, <1>6, <2>2 DEF DirectCall
  <2>4. TypeOK'
    BY <2>2, <2>3 DEF IInv, TypeOK
  <2>5. RunningSent'
    <3> SUFFICES ASSUME NEW u \in Places, NEW r \in running'[u]
                 PROVE  /\ r \in kept' => rows'[r] = "Sent"
                        /\ \A v \in Places : r \in running'[v] => v = u
      BY DEF RunningSent
    <3>1. CASE r = Row
      BY <1>5, <2>2, <2>3, <3>1
    <3>2. CASE r # Row
      <4>1. r \in running[u] /\ r \in DOMAIN rows
        BY <1>5, <2>3, <3>2
      <4>2. /\ r \in kept => rows[r] = "Sent"
            /\ \A v \in Places : r \in running[v] => v = u
        BY <4>1 DEF IInv, RunningSent
      <4> QED BY <2>2, <2>3, <3>2, <4>1, <4>2
    <3> QED BY <3>1, <3>2
  <2>6. SentIsWatched'
    <3> SUFFICES ASSUME NEW r \in kept', rows'[r] = "Sent"
                 PROVE  r \in excused' \/ (\E v \in Places : r \in running'[v]) \/ exchange'.row = r
      BY DEF SentIsWatched, Watched
    <3>1. CASE r = Row
      BY <2>3, <3>1
    <3>2. CASE r # Row
      <4>1. r \in kept /\ r \in DOMAIN rows /\ rows[r] = "Sent" /\ r # 0
        BY <1>1, <2>2, <3>2 DEF StoreOK
      <4>2. r \in excused \/ (\E v \in Places : r \in running[v]) \/ exchange.row = r
        BY <1>2, <4>1 DEF IInv, SentIsWatched, Watched
      <4> QED BY <2>3, <4>2
    <3> QED BY <3>1, <3>2
  <2> QED BY <1>3, <1>4, <2>2, <2>4, <2>5, <2>6 DEF Sound, IInv
<1>7. ASSUME NEW w \in Places, NEW q \in running[w], NEW outcome \in Outcomes,
             DirectAnswer(w, q, outcome)
      PROVE  Sound
  <2>1. /\ q \in kept => rows[q] = "Sent"
        /\ \A v \in Places : q \in running[v] => v = w
    BY DEF IInv, RunningSent
  <2>2. /\ rows' \in Seq(Results) /\ Len(rows') = Len(rows)
        /\ op' = op /\ kept' = kept
        /\ \A i \in DOMAIN rows : i # q => rows'[i] = rows[i]
        /\ q \in kept => rows'[q] # "Sent" \/ q \in excused'
        /\ excused \subseteq excused' /\ excused' \subseteq DOMAIN rows
        /\ Log!Next \/ (rows' = rows /\ kept' = kept)
    BY <1>1, <1>7, <2>1, Updated DEF DirectAnswer
  <2>3. /\ running' \in [Places -> SUBSET (DOMAIN rows)]
        /\ \A v \in Places : running'[v] = running[v] \ {q}
    BY <1>5, <1>7, <2>1 DEF DirectAnswer
  <2>4. DOMAIN rows' = DOMAIN rows
    BY <1>1, <2>2 DEF StoreOK
  <2>5. TypeOK'
    BY <2>2, <2>3, <2>4 DEF IInv, TypeOK
  <2>6. RunningSent'
    BY <1>5, <2>2, <2>3 DEF IInv, RunningSent
  <2>7. SentIsWatched'
    <3> SUFFICES ASSUME NEW r \in kept', rows'[r] = "Sent"
                 PROVE  r \in excused' \/ (\E v \in Places : r \in running'[v]) \/ exchange'.row = r
      BY DEF SentIsWatched, Watched
    <3>1. CASE r = q
      BY <2>2, <3>1
    <3>2. CASE r # q
      <4>1. r \in kept /\ rows[r] = "Sent" /\ r \in DOMAIN rows
        BY <1>1, <2>2, <3>2 DEF StoreOK
      <4>2. r # 0
        BY <1>1, <4>1 DEF StoreOK
      <4>3. r \in excused \/ (\E v \in Places : r \in running[v]) \/ exchange.row = r
        BY <1>2, <4>1, <4>2 DEF IInv, SentIsWatched, Watched
      <4> QED BY <2>2, <2>3, <3>2, <4>3
    <3> QED BY <3>1, <3>2
  <2> QED BY <1>3, <1>4, <2>2, <2>5, <2>6, <2>7 DEF Sound, IInv
<1>8. CASE DirectClear
  <2>1. kept' = {} /\ UNCHANGED <<rows, op, running, excused>>
    BY <1>8 DEF DirectClear, Clear
  <2>2. TypeOK'
    BY <2>1, FS_EmptySet, OpHistoryAssumption DEF IInv, TypeOK
  <2> QED BY <1>3, <1>4, <2>1, <2>2
          DEF Sound, IInv, SentIsWatched, RunningSent, Log!Next, Log!Clear
<1>9. ASSUME NEW p \in Pages, DirectLeave(p)
      PROVE  Sound
  <2>1. /\ running' \in [Places -> SUBSET (DOMAIN rows)]
        /\ \A v \in Places : running'[v] = IF v[1] = p THEN {} ELSE running[v]
    BY <1>5, <1>9 DEF DirectLeave, Elsewhere
  <2>2. UNCHANGED store /\ excused' = excused \union Waiting(p)
    BY <1>9 DEF DirectLeave
  <2>3. \A v \in Places : v[1] = p => running[v] \subseteq Waiting(p)
    BY DEF Places, Waiting
  <2>4. Waiting(p) \subseteq DOMAIN rows
    BY <1>5 DEF Places, Waiting
  <2>5. TypeOK'
    BY <2>1, <2>2, <2>4 DEF IInv, TypeOK, store
  <2>6. RunningSent'
    BY <2>1, <2>2 DEF IInv, RunningSent, store
  <2>7. SentIsWatched'
    <3> SUFFICES ASSUME NEW r \in kept', rows'[r] = "Sent"
                 PROVE  r \in excused' \/ (\E v \in Places : r \in running'[v]) \/ exchange'.row = r
      BY DEF SentIsWatched, Watched
    <3>1. r \in DOMAIN rows /\ r # 0 /\ r \in kept /\ rows[r] = "Sent"
      BY <1>1, <2>2 DEF StoreOK, store
    <3>2. r \in excused \/ (\E v \in Places : r \in running[v]) \/ exchange.row = r
      BY <1>2, <3>1 DEF IInv, SentIsWatched, Watched
    <3> QED BY <2>1, <2>2, <2>3, <3>2
  <2> QED BY <1>3, <1>4, <2>2, <2>5, <2>6, <2>7 DEF Sound, IInv, store
<1> QED BY <1>6, <1>7, <1>8, <1>9 DEF DirectNext

(***************************************************************************)
(* The pages that hand the browser over.                                   *)
(***************************************************************************)
LEMMA LargestOf ==
  ASSUME NEW n \in Nat, NEW S, S \subseteq 1..n, S # {}
  PROVE  \E m \in S : \A s \in S : s <= m
<1> DEFINE T == {n - s : s \in S}
<1>1. \A s \in S : s \in Nat /\ n - s \in Nat
  <2>1. \A s \in 1..n : s \in Nat /\ n - s \in Nat
    OBVIOUS
  <2> QED BY <2>1
<1>2. T \subseteq Nat /\ T # {}
  BY <1>1
<1>3. PICK t \in T : \A u \in T : t <= u
  <2> HIDE DEF T
  <2> QED BY <1>2, SmallestOf
<1>4. PICK m \in S : t = n - m
  OBVIOUS
<1>5. \A s \in S : n - m <= n - s
  BY <1>3, <1>4
<1>6. \A s \in S : s <= m
  BY <1>1, <1>5
<1> QED BY <1>4, <1>6

LEMMA Resolved ==
  ASSUME StoreOK, NEW outcome \in Outcomes, NEW wanted, ResolvePending(outcome, wanted)
  PROVE  /\ rows' \in Seq(Results) /\ Len(rows') = Len(rows)
         /\ op' = op /\ kept' = kept
         /\ excused' \subseteq DOMAIN rows
         /\ Log!Next \/ (rows' = rows /\ kept' = kept)
<1> DEFINE S == Pending(wanted)
<1>1. CASE S = {}
  BY <1>1 DEF ResolvePending, StoreOK, store
<1>2. CASE S # {}
  <2> DEFINE r == CHOOSE r \in S : \A s \in S : s <= r
  <2>1. S \subseteq 1..Len(rows) /\ Len(rows) \in Nat
    BY DEF Pending, StoreOK
  <2>2. \E m \in S : \A s \in S : s <= m
    <3> HIDE DEF S
    <3> QED BY <1>2, <2>1, LargestOf
  <2>3. r \in S
    BY <2>2
  <2>4. Update(r, outcome)
    BY <1>2 DEF ResolvePending
  <2>5. r \in kept => rows[r] = "Sent"
    BY <2>3 DEF Pending
  <2> HIDE DEF r
  <2> QED BY <2>4, <2>5, Updated
<1> QED BY <1>1, <1>2

LEMMA RedirectSound ==
  ASSUME IInv, workflow \in {"saml", "wsfed"}, workflow' = workflow,
         UNCHANGED <<running, open, exchange>>, RedNext
  PROVE  Sound
<1>1. StoreOK
  BY DEF IInv, TypeOK, StoreOK
<1>2. /\ WatchedIsSent' /\ SentIsWatched' /\ OnlyKerberosWatches'
      /\ RunningSent' /\ ExchangeSent'
  <2>1. \A v \in Places : open[v] = 0
    BY NothingOpenHolds DEF IInv, OnlyKerberosWatches
  <2> QED BY <2>1 DEF IInv, WatchedIsSent, SentIsWatched, OnlyKerberosWatches,
                      RunningSent, ExchangeSent
<1>3. ASSUME at' \in [Pages -> Stops], about' \in [Pages -> Operations],
             UNCHANGED <<store, excused>>
      PROVE  Sound
  <2>1. TypeOK'
    BY <1>3 DEF IInv, TypeOK, store
  <2> QED BY <1>2, <1>3, <2>1 DEF Sound, IInv, store
<1>4. ASSUME at' \in [Pages -> Stops], about' = about,
             NEW outcome \in Outcomes, NEW wanted, ResolvePending(outcome, wanted)
      PROVE  Sound
  <2>1. /\ rows' \in Seq(Results) /\ Len(rows') = Len(rows)
        /\ op' = op /\ kept' = kept
        /\ excused' \subseteq DOMAIN rows
        /\ Log!Next \/ (rows' = rows /\ kept' = kept)
    BY <1>1, <1>4, Resolved
  <2>2. DOMAIN rows' = DOMAIN rows
    BY <1>1, <2>1 DEF StoreOK
  <2>3. TypeOK'
    BY <1>4, <2>1, <2>2 DEF IInv, TypeOK
  <2> QED BY <1>2, <2>1, <2>3 DEF Sound, IInv
<1>5. at \in [Pages -> Stops] /\ about \in [Pages -> Operations]
  BY DEF IInv, TypeOK
<1>6. ASSUME NEW p \in Pages, NEW operation \in Operations, RedSend(p, operation)
      PROVE  Sound
  <2>1. PICK result \in Results, next \in {"request", "away"} :
          Record(operation, result, rows) /\ at' = [at EXCEPT ![p] = next]
    BY <1>6 DEF RedSend
  <2>2. /\ rows' \in Seq(Results) /\ op' \in Seq(Operations)
        /\ Len(rows') = Row /\ Len(op') = Row
        /\ kept' \subseteq DOMAIN rows' /\ Cardinality(kept') <= Limit
        /\ DOMAIN rows' = DOMAIN rows \union {Row}
        /\ Log!Next
    BY <1>1, <2>1, Recorded
  <2>3. TypeOK'
    BY <1>5, <1>6, <2>1, <2>2 DEF IInv, TypeOK, RedSend, Stops
  <2> QED BY <1>2, <2>2, <2>3 DEF Sound, IInv
<1>7. ASSUME NEW p \in Pages, NEW operation \in Operations, RedLand(p, operation)
      PROVE  Sound
  BY <1>3, <1>5, <1>7 DEF RedLand, Stops
<1>8. ASSUME NEW p \in Pages, RedResolve(p)
      PROVE  Sound
  <2>1. at' \in [Pages -> Stops] /\ about' = about
    BY <1>5, <1>8 DEF RedResolve, Stops
  <2>2. CASE UNCHANGED <<store, excused>>
    BY <1>3, <1>5, <2>1, <2>2
  <2>3. CASE ~UNCHANGED <<store, excused>>
    <3>1. \E outcome \in Outcomes, wanted \in {{about[p]}, Unreadable} :
            ResolvePending(outcome, wanted)
      BY <1>8, <2>3 DEF RedResolve, Outcomes
    <3> QED BY <1>4, <2>1, <3>1
  <2> QED BY <2>2, <2>3
<1>9. ASSUME NEW p \in Pages, RedReload(p)
      PROVE  Sound
  BY <1>3, <1>5, <1>9 DEF RedReload, Stops
<1>10. ASSUME NEW p \in Pages, RedPaste(p)
       PROVE  Sound
  BY <1>4, <1>5, <1>10 DEF RedPaste
<1>11. ASSUME NEW p \in Pages, RedReturn(p)
       PROVE  Sound
  BY <1>3, <1>5, <1>11 DEF RedReturn, Stops
<1>12. CASE Clear /\ UNCHANGED <<at, about, excused>>
  <2>1. kept' = {} /\ rows' = rows /\ op' = op
    BY <1>12 DEF Clear
  <2>2. TypeOK'
    BY <1>12, <2>1, FS_EmptySet, OpHistoryAssumption DEF IInv, TypeOK
  <2> QED BY <1>2, <2>1, <2>2 DEF Sound, IInv, Log!Next, Log!Clear
<1> QED BY <1>6, <1>7, <1>8, <1>9, <1>10, <1>11, <1>12 DEF RedNext

(***************************************************************************)
(* WS-Trust.                                                               *)
(***************************************************************************)
LEMMA WsTrustSound ==
  ASSUME IInv, workflow = "wstrust", workflow' = workflow,
         UNCHANGED <<running, open, at, about>>, WstNext
  PROVE  Sound
<1>1. StoreOK
  BY DEF IInv, TypeOK, StoreOK
<1>2. WatchedIsSent' /\ OnlyKerberosWatches' /\ RunningSent'
  <2>1. \A v \in Places : open[v] = 0
    BY NothingOpenHolds DEF IInv, OnlyKerberosWatches
  <2> QED BY <2>1 DEF IInv, WatchedIsSent, OnlyKerberosWatches, RunningSent
<1>3. exchange \in [row : {0} \union DOMAIN rows, outcome : Outcomes]
  BY DEF IInv, TypeOK
<1>4. \A r \in DOMAIN rows : r # 0
  BY <1>1 DEF StoreOK
<1>5. \A r \in kept : rows[r] = "Sent" => r \in excused \/ exchange.row = r
  <2>1. \A w \in Places : open[w] = 0
    BY NothingOpenHolds DEF IInv, OnlyKerberosWatches
  <2> QED BY <1>1, <1>4, <2>1 DEF IInv, SentIsWatched, Watched, StoreOK
<1>6. ASSUME NEW operation \in Operations, NEW result \in Results,
             Record(operation, result, rows),
             excused \subseteq excused', excused' \subseteq DOMAIN rows',
             exchange' \in [row : {0} \union DOMAIN rows', outcome : Outcomes],
             exchange'.row = Row \/ exchange' = exchange,
             exchange'.row = Row => result = "Sent",
             exchange'.row # exchange.row => exchange.row \in excused' \union {0},
             result = "Sent" => exchange'.row = Row \/ Row \in excused'
      PROVE  Sound
  <2>1. /\ rows' \in Seq(Results) /\ op' \in Seq(Operations)
        /\ Len(rows') = Row /\ Len(op') = Row
        /\ kept' \subseteq DOMAIN rows' /\ Cardinality(kept') <= Limit
        /\ kept' \subseteq kept \union {Row}
        /\ rows'[Row] = result
        /\ \A i \in DOMAIN rows : rows'[i] = rows[i]
        /\ DOMAIN rows' = DOMAIN rows \union {Row}
        /\ Row \notin DOMAIN rows /\ Row # 0
        /\ Log!Next
    BY <1>1, <1>6, Recorded
  <2>2. TypeOK'
    BY <1>6, <2>1 DEF IInv, TypeOK
  <2>3. ExchangeSent'
    <3> SUFFICES ASSUME exchange'.row \in kept'
                 PROVE  rows'[exchange'.row] \in {"Sent", exchange'.outcome}
      BY DEF ExchangeSent
    <3>1. CASE exchange'.row = Row
      BY <1>6, <2>1, <3>1
    <3>2. CASE exchange'.row # Row
      <4>1. exchange' = exchange /\ exchange.row \in kept
        BY <1>6, <2>1, <3>2
      <4>2. /\ exchange.row \in DOMAIN rows
            /\ rows[exchange.row] \in {"Sent", exchange.outcome}
        BY <1>1, <4>1 DEF IInv, ExchangeSent, StoreOK
      <4> QED BY <2>1, <4>1, <4>2
    <3> QED BY <3>1, <3>2
  <2>4. SentIsWatched'
    <3> SUFFICES ASSUME NEW r \in kept', rows'[r] = "Sent"
                 PROVE  r \in excused' \/ exchange'.row = r
      BY DEF SentIsWatched, Watched
    <3>1. CASE r = Row
      BY <1>6, <2>1, <3>1
    <3>2. CASE r # Row
      <4>1. r \in kept /\ rows[r] = "Sent" /\ r # 0
        BY <1>1, <1>4, <2>1, <3>2 DEF StoreOK
      <4> QED BY <1>5, <1>6, <4>1
    <3> QED BY <3>1, <3>2
  <2> QED BY <1>2, <2>1, <2>2, <2>3, <2>4 DEF Sound, IInv
<1>7. ASSUME NEW operation \in Operations, NEW outcome \in Outcomes,
             WstAnswer(operation, outcome)
      PROVE  Sound
  <2>1. Record(operation, "Sent", rows) /\ "Sent" \in Results
    BY <1>7 DEF WstAnswer, Results
  <2>2. DOMAIN rows' = DOMAIN rows \union {Row}
    BY <1>1, <2>1, Recorded
  <2>3. excused \subseteq DOMAIN rows
    BY <1>1 DEF StoreOK
  <2>4. CASE /\ exchange' = [row |-> Row, outcome |-> outcome]
             /\ excused' = excused \union ({exchange.row} \ {0})
    BY <1>3, <1>6, <2>1, <2>2, <2>3, <2>4
  <2>5. CASE exchange' = exchange /\ excused' = excused \union {Row}
    <3>1. exchange'.row # Row
      BY <1>1, <1>3, <2>1, <2>5, Recorded
    <3> QED BY <1>3, <1>6, <2>1, <2>2, <2>3, <2>5, <3>1
  <2> QED BY <1>7, <2>4, <2>5 DEF WstAnswer
<1>8. ASSUME NEW operation \in Operations, WstFailure(operation)
      PROVE  Sound
  <2>1. /\ Record(operation, "Failure", rows) /\ "Failure" \in Results
        /\ UNCHANGED <<exchange, excused>>
    BY <1>8 DEF WstFailure, Results, Outcomes
  <2>2. DOMAIN rows' = DOMAIN rows \union {Row} /\ Row \notin DOMAIN rows /\ Row # 0
    BY <1>1, <2>1, Recorded
  <2>3. excused \subseteq DOMAIN rows /\ exchange'.row # Row
    BY <1>1, <1>3, <2>1, <2>2 DEF StoreOK
  <2> QED BY <1>3, <1>6, <2>1, <2>2, <2>3
<1>9. CASE WstOpen
  <2>1. /\ Update(exchange.row, exchange.outcome)
        /\ exchange' \in {[exchange EXCEPT !.row = 0], exchange}
    BY <1>9 DEF WstOpen
  <2>2. exchange.outcome \in Outcomes
    BY <1>3
  <2>3. /\ rows' \in Seq(Results) /\ Len(rows') = Len(rows)
        /\ op' = op /\ kept' = kept
        /\ \A i \in DOMAIN rows : i # exchange.row => rows'[i] = rows[i]
        /\ exchange.row \in kept => rows'[exchange.row] \in {"Sent", exchange.outcome}
        /\ exchange.row \in kept => rows'[exchange.row] # "Sent" \/ exchange.row \in excused'
        /\ excused \subseteq excused' /\ excused' \subseteq DOMAIN rows
        /\ Log!Next \/ (rows' = rows /\ kept' = kept)
    <3>1. CASE exchange.row \in kept => rows[exchange.row] = "Sent"
      <4>1. exchange.row \in kept => rows'[exchange.row] \in {"Sent", exchange.outcome}
        BY <1>1, <2>1, <3>1 DEF Update, StoreOK, store
      <4> QED BY <1>1, <2>1, <2>2, <3>1, <4>1, Updated
    <3>2. CASE exchange.row \in kept /\ rows[exchange.row] # "Sent"
      <4>1. exchange.row \in DOMAIN rows /\ rows[exchange.row] = exchange.outcome
        BY <1>1, <3>2 DEF IInv, ExchangeSent, StoreOK
      <4>2. rows' = rows
        <5>1. rows = [i \in DOMAIN rows |-> rows[i]]
          BY <1>1 DEF StoreOK
        <5>2. [rows EXCEPT ![exchange.row] = exchange.outcome] = rows
          BY <4>1, <5>1
        <5> QED BY <2>1, <5>2 DEF Update, store
      <4>3. UNCHANGED <<op, kept>> /\ excused' \in {excused, excused \union {exchange.row}}
        BY <2>1 DEF Update, store
      <4> QED BY <1>1, <3>2, <4>1, <4>2, <4>3 DEF StoreOK
    <3> QED BY <3>1, <3>2
  <2>4. DOMAIN rows' = DOMAIN rows
    BY <1>1, <2>3 DEF StoreOK
  <2>5. /\ exchange' \in [row : {0} \union DOMAIN rows, outcome : Outcomes]
        /\ exchange'.outcome = exchange.outcome
        /\ exchange'.row \in {0, exchange.row}
    BY <1>3, <2>1
  <2>6. TypeOK'
    BY <2>3, <2>4, <2>5 DEF IInv, TypeOK
  <2>7. ExchangeSent'
    BY <1>1, <1>4, <2>3, <2>5 DEF ExchangeSent, StoreOK
  <2>8. SentIsWatched'
    BY <1>1, <1>5, <2>3 DEF SentIsWatched, StoreOK
  <2> QED BY <1>2, <2>3, <2>6, <2>7, <2>8 DEF Sound, IInv
<1>10. CASE Clear /\ UNCHANGED <<exchange, excused>>
  <2>1. kept' = {} /\ rows' = rows /\ op' = op
    BY <1>10 DEF Clear
  <2>2. TypeOK'
    BY <1>10, <2>1, FS_EmptySet, OpHistoryAssumption DEF IInv, TypeOK
  <2> QED BY <1>2, <1>10, <2>1, <2>2
          DEF Sound, IInv, SentIsWatched, ExchangeSent, Log!Next, Log!Clear
<1> QED BY <1>7, <1>8, <1>9, <1>10 DEF WstNext

(***************************************************************************)
(* The theorems.                                                           *)
(***************************************************************************)
LEMMA StepSound ==
  ASSUME IInv, [Next]_vars
  PROVE  Sound
<1>1. CASE UNCHANGED vars
  BY <1>1 DEF vars, store, pageVars, Sound, IInv, TypeOK, WatchedIsSent, SentIsWatched, Watched,
              OnlyKerberosWatches, RunningSent, ExchangeSent
<1>2. CASE Next
  <2>1. workflow' = workflow
    BY <1>2 DEF Next
  <2>2. CASE workflow = "kerberos"
    BY <1>2, <2>1, <2>2, KerberosSound DEF Next, KrbContext
  <2>3. CASE workflow = "direct"
    BY <1>2, <2>1, <2>3, DirectSound DEF Next
  <2>4. CASE workflow \in {"saml", "wsfed"}
    BY <1>2, <2>1, <2>4, RedirectSound DEF Next
  <2>5. CASE workflow = "wstrust"
    BY <1>2, <2>1, <2>5, WsTrustSound DEF Next
  <2> QED BY <2>2, <2>3, <2>4, <2>5 DEF IInv, TypeOK, Workflows
<1> QED BY <1>1, <1>2

LEMMA Invariance == Spec => []IInv
<1>1. IInv /\ [Next]_vars => IInv'
  BY StepSound DEF Sound
<1> QED BY InitIInv, <1>1, PTL DEF Spec

(* The log never passes its cap, and every number the pages keep is of a   *)
(* call that was recorded, in every workflow (op_history.js, write()).     *)
THEOREM TypeCorrect == Spec => []TypeOK
<1>1. IInv => TypeOK
  BY DEF IInv
<1> QED BY Invariance, <1>1, PTL

(* However handlers overlap, pages are left, loaded and cleared, and       *)
(* writes are refused, a row that says Sent has a handler at work or a     *)
(* recorded answer that will close it, or was given up in one of the ways  *)
(* `excused' records, a handler's pending end among them                   *)
(* (kerberos_history.js, settle(); wstrust_response.js, resolveHistory()). *)
THEOREM NoRowForgotten == Spec => []SentIsWatched
<1>1. IInv => SentIsWatched
  BY DEF IInv
<1> QED BY Invariance, <1>1, PTL

(* A line waits for a row that is open and that nobody else waits for      *)
(* (kerberos_history.js, begin() and settle()).                            *)
THEOREM LineWatchesItsRow == Spec => []WatchedIsSent
<1>1. IInv => WatchedIsSent
  BY DEF IInv
<1> QED BY Invariance, <1>1, PTL

(* Every workflow's use of the store is a log of calls, in which an        *)
(* outcome stands and the oldest rows go first (op_history.js).            *)
THEOREM KeepsTheLog == Spec => ImplementsCallLog
<1>1. Init => Log!Init
  BY DEF Init, Log!Init
<1>2. IInv /\ [Next]_vars => [Log!Next]_<<rows, kept>>
  BY StepSound DEF Sound
<1> QED BY Invariance, <1>1, <1>2, PTL DEF Spec, ImplementsCallLog, Log!Spec
=============================================================================
