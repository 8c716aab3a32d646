--------------------------- MODULE CodeFlow_proofs --------------------------
(***************************************************************************)
(* Proofs about a tab with the RFC 9700 switch, for any bounds, any length *)
(* of the spent list and any number of token requests open together.       *)
(***************************************************************************)
EXTENDS CodeFlow, TLAPS

(***************************************************************************)
(* The spent list: marking keeps its type and its bound, and puts the      *)
(* value in.                                                               *)
(***************************************************************************)
SpentKeys == [kind : {"code", "refresh"}, value : 1..(MaxCodes + MaxTokens)]

SpentOK(list) == list \in Seq(SpentKeys) /\ Len(list) <= SpentCap

LEMMA InRange ==
  ASSUME NEW S, NEW list \in Seq(S), NEW k \in S
  PROVE  /\ k \in Range(Append(list, k))
         /\ list # <<>> => k \in Range(Append(Tail(list), k))
<1>1. k \in Range(Append(list, k))
  <2>1. Append(list, k)[Len(list) + 1] = k /\ Len(list) + 1 \in DOMAIN Append(list, k)
    OBVIOUS
  <2> QED BY <2>1 DEF Range
<1>2. ASSUME list # <<>> PROVE k \in Range(Append(Tail(list), k))
  <2>1. Tail(list) \in Seq(S)
    BY <1>2
  <2>2. /\ Append(Tail(list), k)[Len(Tail(list)) + 1] = k
        /\ Len(Tail(list)) + 1 \in DOMAIN Append(Tail(list), k)
    BY <2>1
  <2> QED BY <2>2 DEF Range
<1> QED BY <1>1, <1>2

LEMMA MarkedIn ==
  ASSUME NEW list, SpentOK(list), NEW k \in SpentKeys
  PROVE  SpentOK(Marked(list, k)) /\ k \in Range(Marked(list, k))
<1> USE SpentCapAssumption DEF SpentOK
<1>1. CASE k \in Range(list)
  BY <1>1 DEF Marked
<1>2. CASE k \notin Range(list) /\ Len(list) < SpentCap
  <2>1. Append(list, k) \in Seq(SpentKeys) /\ Len(Append(list, k)) = Len(list) + 1
    OBVIOUS
  <2>2. Len(list) \in Nat
    OBVIOUS
  <2> QED BY <1>2, <2>1, <2>2, InRange DEF Marked
<1>3. CASE k \notin Range(list) /\ ~(Len(list) < SpentCap)
  <2>1. Len(list) = SpentCap /\ list # <<>>
    <3>1. Len(list) \in Nat
      OBVIOUS
    <3> QED BY <1>3, <3>1
  <2>2. Tail(list) \in Seq(SpentKeys) /\ Len(Tail(list)) = Len(list) - 1
    BY <2>1
  <2>3. Append(Tail(list), k) \in Seq(SpentKeys) /\ Len(Append(Tail(list), k)) = SpentCap
    BY <2>1, <2>2
  <2> QED BY <1>3, <2>1, <2>3, InRange DEF Marked
<1> QED BY <1>1, <1>2, <1>3

LEMMA RotatedOK ==
  ASSUME NEW list, SpentOK(list), NEW p \in 0..MaxTokens, NEW r
  PROVE  SpentOK(Rotated(list, p, r))
<1>1. CASE p # 0
  <2>1. Key("refresh", p) \in SpentKeys
    BY <1>1, BoundsAssumption DEF Key, SpentKeys
  <2> QED BY <2>1, MarkedIn DEF Rotated
<1>2. CASE p = 0
  BY <1>2 DEF Rotated
<1> QED BY <1>1, <1>2

(***************************************************************************)
(* Type correctness.                                                       *)
(***************************************************************************)
LEMMA FreshPage ==
  ASSUME NEW c \in 0..Len(codePair), TypeOK, OpenPageTwo(c),
         codePair' = codePair, minted' = minted
  PROVE  /\ page' = "two" /\ code' \in 0..Len(codePair') /\ field' \in 0..minted' /\ current' \in 0..minted'
         /\ calls' \in [Slots -> [kind : {"idle", "code", "device", "refresh"}, value : Nat]]
         /\ \A s \in Slots : calls'[s].kind = "idle"
         /\ shown' \in [grant : {"none", "code", "device"}, own : BOOLEAN]
  BY DEF TypeOK, OpenPageTwo, NoCalls, Idle, NoSet

LEMMA CountedOK ==
  ASSUME NEW S, NEW f \in [S -> 0..2], NEW x \in S
  PROVE  Counted(f, x) \in [S -> 0..2]
  BY DEF Counted

LEMMA TakeOK ==
  ASSUME TypeOK, NEW g \in {"code", "device"}, NEW id, NEW r \in 0..MaxTokens,
         Mints(r), TakeTokens(g, id, r)
  PROVE  /\ minted' \in 0..MaxTokens /\ minted' >= minted
         /\ field' \in 0..minted' /\ current' \in 0..minted'
         /\ SpentOK(spent') /\ evicted' \in BOOLEAN
         /\ shown' \in [grant : {"none", "code", "device"}, own : BOOLEAN]
<1>1. /\ minted' \in 0..MaxTokens /\ minted' >= minted /\ r <= minted'
      /\ current \in 0..MaxTokens
  BY BoundsAssumption DEF TypeOK, Mints
<1>2. SpentOK(spent) /\ SpentOK(Rotated(spent, current, r))
  BY <1>1, RotatedOK DEF TypeOK, SpentOK, SpentKeys
<1>3. SpentOK(spent') /\ evicted' \in BOOLEAN
  BY <1>2 DEF TakeTokens, Spend, TypeOK
<1>4. field' \in 0..minted' /\ current' \in 0..minted'
  <2>1. CASE mode /\ ~IdTokenOk(id, FALSE)
    BY <1>1, <2>1 DEF TakeTokens, TypeOK
  <2>2. CASE ~(mode /\ ~IdTokenOk(id, FALSE))
    <3>1. current' = (IF r # 0 THEN r ELSE current) /\ field' = current'
      BY <2>2 DEF TakeTokens
    <3>2. current \in 0..minted /\ minted \in 0..MaxTokens
      BY DEF TypeOK
    <3>3. r = 0 \/ r # 0
      OBVIOUS
    <3>4. CASE r # 0
      BY <1>1, <3>1, <3>4
    <3>5. CASE r = 0
      BY <1>1, <3>1, <3>2, <3>5
    <3> QED BY <3>3, <3>4, <3>5
  <2> QED BY <2>1, <2>2
<1>5. shown' \in [grant : {"none", "code", "device"}, own : BOOLEAN]
  <2>1. Kept(g, id) \in [grant : {"none", "code", "device"}, own : BOOLEAN]
    BY DEF Kept
  <2>2. shown' = shown \/ shown' = Kept(g, id)
    BY DEF TakeTokens
  <2> QED BY <2>1, <2>2 DEF TypeOK
<1> QED BY <1>1, <1>3, <1>4, <1>5

(* The tab's types: those of the list and of the tokens apart.              *)
LEMMA TypeInit == Init => TypeOK
<1> SUFFICES ASSUME Init PROVE TypeOK
  OBVIOUS
<1>1. /\ spent = <<>> /\ codePair = <<>> /\ spent \in Seq(SpentKeys) /\ codePair \in Seq(Pairs)
      /\ Len(spent) = 0 /\ Len(codePair) = 0
  BY DEF Init
<1>2. /\ calls \in [Slots -> [kind : {"idle", "code", "device", "refresh"}, value : Nat]]
      /\ \A s \in Slots : calls[s].kind = "idle"
      /\ shown \in [grant : {"none", "code", "device"}, own : BOOLEAN]
  BY DEF Init, NoCalls, Idle, NoSet
<1>3. accepted \in [Pairs -> 0..2] /\ presented \in [Codes -> 0..2]
  BY DEF Init
<1>4. Len(spent) <= SpentCap /\ Len(codePair) <= MaxCodes
  BY <1>1, SpentCapAssumption, BoundsAssumption
<1>5. /\ page = "one" /\ grant = "code" /\ pair = 0 /\ asked = 0 /\ code = 0 /\ field = 0 /\ current = 0
      /\ minted = 0 /\ txn = NoTxn /\ mode \in BOOLEAN /\ restarted = {} /\ evicted = FALSE /\ steady = FALSE
  BY DEF Init
<1>6. 0 \in 0..MaxPairs /\ 0 \in 0..MaxTokens /\ 0 \in 0..0
  BY BoundsAssumption
<1> QED
  BY <1>1, <1>2, <1>3, <1>4, <1>5, <1>6 DEF TypeOK, SpentKeys

LEMMA TypeNext == TypeOK /\ [Next]_vars => TypeOK'
<1> SUFFICES ASSUME TypeOK, [Next]_vars PROVE TypeOK'
  OBVIOUS
<1> USE BoundsAssumption
<1>1. CASE SetMode \/ SetModeElsewhere
  BY <1>1 DEF SetMode, SetModeElsewhere, TypeOK, pageVars, providerVars
<1>2. CASE OpenPageOne \/ BackToPageOne
  <2>1. /\ page' = "one" /\ calls' = NoCalls /\ shown' = NoSet
        /\ code' = 0 /\ field' = 0 /\ current' = 0 /\ pair' \in 0..MaxPairs
        /\ UNCHANGED <<rfcVars, asked, grant, providerVars, historyVars>>
    BY <1>2 DEF OpenPageOne, BackToPageOne, TypeOK
  <2>2. /\ NoCalls \in [Slots -> [kind : {"idle", "code", "device", "refresh"}, value : Nat]]
        /\ \A s \in Slots : NoCalls[s].kind = "idle"
        /\ NoSet \in [grant : {"none", "code", "device"}, own : BOOLEAN]
    BY DEF NoCalls, Idle, NoSet
  <2>3. 0 \in 0..Len(codePair) /\ 0 \in 0..minted
    BY DEF TypeOK
  <2> QED BY <2>1, <2>2, <2>3 DEF TypeOK, rfcVars, providerVars, historyVars
<1>3. CASE AskInMode \/ Ask
  <2>1. /\ pair' \in 0..MaxPairs /\ asked' \in 0..MaxPairs
        /\ page' \in {"one", "two", "away"} /\ grant' \in {"code", "device"}
        /\ steady' \in BOOLEAN /\ (page' = "away" => asked' # 0)
    <3>1. CASE AskInMode
      BY <3>1 DEF AskInMode, TypeOK
    <3>2. CASE Ask
      BY <3>2 DEF Ask, TypeOK, historyVars
    <3> QED BY <1>3, <3>1, <3>2
  <2>2. txn' \in [pair : Pairs, consumed : BOOLEAN] \union {NoTxn}
    <3>1. CASE AskInMode
      <4>1. pair + 1 \in Pairs
        BY <3>1 DEF AskInMode, TypeOK, Pairs
      <4> QED BY <3>1, <4>1 DEF AskInMode, Txn
    <3>2. CASE Ask
      BY <3>2 DEF Ask, rfcVars, TypeOK
    <3> QED BY <1>3, <3>1, <3>2
  <2>3. UNCHANGED <<mode, spent, code, field, current, calls, shown, codePair, minted, accepted, presented, restarted, evicted>>
    BY <1>3 DEF AskInMode, Ask, rfcVars, providerVars, historyVars
  <2> QED BY <2>1, <2>2, <2>3 DEF TypeOK
<1>4. CASE AskDevice
  <2>1. pair \in Pairs
    BY <1>4 DEF AskDevice, TypeOK, Pairs
  <2>2. CASE OpenPageTwo(0)
    BY <1>4, <2>1, <2>2 DEF AskDevice, OpenPageTwo, NoCalls, Idle, NoSet, TypeOK, providerVars, Txn
  <2>3. CASE UNCHANGED <<page, grant, code, field, current, calls, shown>>
    BY <1>4, <2>1, <2>3 DEF AskDevice, TypeOK, providerVars, Txn
  <2> QED BY <1>4, <2>2, <2>3 DEF AskDevice
<1>5. CASE Authorize
  <2>1. asked \in Pairs
    BY <1>5 DEF Authorize, TypeOK, Pairs
  <2>2. /\ codePair' \in Seq(Pairs) /\ Len(codePair') = Len(codePair) + 1 /\ Len(codePair') <= MaxCodes
    BY <1>5, <2>1 DEF Authorize, TypeOK
  <2>3. UNCHANGED <<rfcVars, pageVars, minted, historyVars>>
    BY <1>5 DEF Authorize
  <2>4. code' \in 0..Len(codePair') /\ \A s \in Slots : calls'[s].kind = "code" => calls'[s].value \in 1..Len(codePair')
    BY <2>2, <2>3 DEF TypeOK, pageVars
  <2> QED BY <2>2, <2>3, <2>4 DEF TypeOK, rfcVars, pageVars, historyVars
<1>6. CASE ReopenPageTwo
  BY <1>6 DEF ReopenPageTwo, OpenPageTwo, NoCalls, Idle, NoSet, TypeOK, rfcVars, providerVars, historyVars
<1>7. ASSUME NEW a \in Answers, Deliver(a) PROVE TypeOK'
  <2>1. a.code \in 0..Len(codePair)
    BY DEF Answers, TypeOK
  <2>2. txn # NoTxn => txn.pair \in Pairs /\ Consumed(txn) \in [pair : Pairs, consumed : BOOLEAN]
    BY DEF TypeOK, Consumed
  <2>3. txn' \in [pair : Pairs, consumed : BOOLEAN] \union {NoTxn} /\ accepted' \in [Pairs -> 0..2]
    BY <1>7, <2>2, CountedOK DEF Deliver, Refused, Accepted, ResponseOk, TypeOK
  <2>4. PICK c \in 0..Len(codePair) : OpenPageTwo(c)
    BY <1>7, <2>1 DEF Deliver, Refused, Accepted, TypeOK
  <2> QED BY <1>7, <2>3, <2>4 DEF Deliver, OpenPageTwo, NoCalls, Idle, NoSet, TypeOK, providerVars
<1>8. ASSUME NEW c \in Codes, TypeCode(c) PROVE TypeOK'
  BY <1>8 DEF TypeCode, TypeOK, rfcVars, providerVars, historyVars
<1>9. ASSUME NEW r \in Tokens, TypeRefresh(r) PROVE TypeOK'
  BY <1>9 DEF TypeRefresh, TypeOK, rfcVars, providerVars, historyVars
<1>10. ASSUME NEW s \in Slots, GetToken(s) PROVE TypeOK'
  <2>1. CASE grant = "code" /\ code # 0
    <3>1. code \in Codes /\ Key("code", code) \in SpentKeys
      BY <2>1 DEF TypeOK, Codes, Key, SpentKeys
    <3>2. SpentOK(spent) /\ SpentOK(Marked(spent, Key("code", code)))
      BY <3>1, MarkedIn DEF TypeOK, SpentOK, SpentKeys
    <3>3. SpentOK(spent') /\ evicted' \in BOOLEAN /\ presented' \in [Codes -> 0..2]
      <4>1. Counted(presented, code) \in [Codes -> 0..2]
        BY <3>1, CountedOK DEF TypeOK
      <4>2. \/ Spend(Marked(spent, Key("code", code))) /\ presented' = Counted(presented, code)
            \/ UNCHANGED <<spent, evicted, presented>>
        BY <1>10, <2>1 DEF GetToken
      <4> QED BY <3>2, <4>1, <4>2 DEF Spend, TypeOK
    <3>4. calls' = [calls EXCEPT ![s] = Call("code", code)]
      BY <1>10, <2>1 DEF GetToken
    <3> QED BY <1>10, <3>1, <3>3, <3>4 DEF GetToken, TypeOK, SpentOK, SpentKeys, Call, providerVars
  <2>2. CASE grant = "device"
    <3>1. calls' = [calls EXCEPT ![s] = Call("device", 0)] /\ UNCHANGED <<spent, evicted, presented>>
      BY <1>10, <2>2 DEF GetToken
    <3> QED BY <1>10, <3>1 DEF GetToken, TypeOK, Call, providerVars
  <2> QED BY <1>10, <2>1, <2>2 DEF GetToken
<1>11. ASSUME NEW s \in Slots, Refresh(s) PROVE TypeOK'
  BY <1>11 DEF Refresh, TypeOK, Call, rfcVars, providerVars, historyVars
<1>12. ASSUME NEW s \in Slots, CodeAnswered(s) \/ DeviceAnswered(s) PROVE TypeOK'
  <2>1. \E g \in {"code", "device"}, r \in 0..MaxTokens : \E id : Mints(r) /\ TakeTokens(g, id, r)
    <3>1. CASE CodeAnswered(s)
      BY <3>1 DEF CodeAnswered
    <3>2. CASE DeviceAnswered(s)
      BY <3>2 DEF DeviceAnswered
    <3> QED BY <1>12, <3>1, <3>2
  <2>2. /\ minted' \in 0..MaxTokens /\ minted' >= minted
        /\ field' \in 0..minted' /\ current' \in 0..minted'
        /\ SpentOK(spent') /\ evicted' \in BOOLEAN
        /\ shown' \in [grant : {"none", "code", "device"}, own : BOOLEAN]
    <3>1. PICK g \in {"code", "device"}, r \in 0..MaxTokens : \E id : Mints(r) /\ TakeTokens(g, id, r)
      BY <2>1
    <3>2. PICK id : Mints(r) /\ TakeTokens(g, id, r)
      BY <3>1
    <3> QED BY <3>2, TakeOK
  <2>3. Settled(s)
    BY <1>12 DEF CodeAnswered, DeviceAnswered
  <2> QED BY <1>12, <2>2, <2>3 DEF CodeAnswered, DeviceAnswered, Settled, Idle, TypeOK, SpentOK, SpentKeys
<1>13. ASSUME NEW s \in Slots, RefreshAnswered(s) PROVE TypeOK'
  <2>1. PICK r \in 0..MaxTokens :
          /\ (r = calls[s].value /\ UNCHANGED minted) \/ Mints(r)
          /\ \E refused : TakeRefreshed(refused, r)
    BY <1>13 DEF RefreshAnswered
  <2>a. /\ minted' \in 0..MaxTokens /\ minted' >= minted /\ r <= minted'
        /\ minted \in 0..MaxTokens
    <3>1. calls[s].value \in 1..minted /\ minted \in 0..MaxTokens
      BY <1>13 DEF RefreshAnswered, TypeOK
    <3> QED BY <2>1, <3>1, BoundsAssumption DEF Mints
  <2>2. minted' \in 0..MaxTokens /\ minted' >= minted /\ field' \in 0..minted'
    BY <2>1, <2>a DEF TakeRefreshed, TypeOK
  <2>3. field \in 0..MaxTokens
    BY DEF TypeOK
  <2>4. SpentOK(spent) /\ SpentOK(Rotated(spent, field, r))
    BY <2>3, RotatedOK DEF TypeOK, SpentOK, SpentKeys
  <2>5. SpentOK(spent') /\ evicted' \in BOOLEAN
    BY <2>1, <2>4 DEF TakeRefreshed, Spend, TypeOK
  <2> QED BY <1>13, <2>2, <2>5 DEF RefreshAnswered, Settled, Idle, TypeOK, SpentOK, SpentKeys
<1>14. ASSUME NEW s \in Slots, AnswerLost(s) PROVE TypeOK'
  BY <1>14 DEF AnswerLost, Settled, Idle, TypeOK, rfcVars, providerVars, historyVars
<1>15. CASE UNCHANGED vars
  BY <1>15 DEF vars, rfcVars, pageVars, providerVars, historyVars, TypeOK
<1> QED
  BY <1>1, <1>2, <1>3, <1>4, <1>5, <1>6, <1>7, <1>8, <1>9, <1>10, <1>11, <1>12, <1>13, <1>14, <1>15 DEF Next

(* Every number the tab holds names something that exists.                 *)
THEOREM TypeCorrect == Spec => []TypeOK
  BY TypeInit, TypeNext, PTL DEF Spec

(***************************************************************************)
(* The transaction.  Pairs are drawn in increasing order, so a new record  *)
(* is never of a pair an answer was accepted for; a device request takes   *)
(* the pair of the page.                                                   *)
(***************************************************************************)
Fresh ==
  /\ asked <= pair
  /\ \A i \in DOMAIN codePair : codePair[i] <= asked
  /\ txn # NoTxn => txn.pair <= pair
  /\ \A p \in Pairs : accepted[p] # 0 => p <= pair

Once ==
  txn # NoTxn /\ ~txn.consumed /\ accepted[txn.pair] # 0 => txn.pair \in restarted

(* While the switch stays on, the record is of the last request or of a    *)
(* later one that did not leave.                                           *)
SteadyRecord == steady => mode /\ txn # NoTxn /\ asked <= txn.pair

TxnInv == Fresh /\ Once /\ StateOnce /\ RefusalKeepsState /\ SteadyRecord

txnVars == <<mode, txn, pair, asked, codePair, accepted, restarted, steady>>

LEMMA RecordOK ==
  ASSUME NEW p \in Pairs
  PROVE  Txn(p) # NoTxn /\ Txn(p).pair = p /\ ~Txn(p).consumed
<1>1. Txn(p) \in [pair : Nat, consumed : BOOLEAN]
  BY DEF Txn, Pairs
<1> QED BY <1>1, NoTxnAssumption DEF Txn

LEMMA CodePairs ==
  ASSUME TypeOK
  PROVE  \A i \in DOMAIN codePair : codePair[i] \in Nat
<1>1. \A i \in DOMAIN codePair : codePair[i] \in Pairs
  BY DEF TypeOK
<1> QED BY <1>1 DEF Pairs

LEMMA TxnInit == Init => TxnInv
  BY DEF Init, TxnInv, Fresh, Once, StateOnce, RefusalKeepsState, SteadyRecord, Pairs

LEMMA TxnNext == TypeOK /\ TxnInv /\ [Next]_vars => TxnInv'
<1> SUFFICES ASSUME TypeOK, TxnInv, [Next]_vars PROVE TxnInv'
  OBVIOUS
<1> USE DEF TxnInv
<1>1. CASE SetMode \/ SetModeElsewhere
  <2>1. /\ txn' = txn \/ (txn' = NoTxn /\ ~mode')
        /\ steady' => steady /\ mode'
        /\ UNCHANGED <<pair, asked, codePair, accepted, restarted>>
    <3>1. CASE SetMode
      <4>1. txn' = txn \/ (txn' = NoTxn /\ ~mode')
        BY <3>1 DEF SetMode
      <4>2. steady' => steady /\ mode'
        BY <3>1, Zenon DEF SetMode
      <4> QED BY <3>1, <4>1, <4>2 DEF SetMode, pageVars, providerVars
    <3>2. CASE SetModeElsewhere
      <4>1. steady' => steady /\ mode'
        BY <3>2, Zenon DEF SetModeElsewhere
      <4> QED BY <3>2, <4>1 DEF SetModeElsewhere, pageVars, providerVars
    <3> QED BY <1>1, <3>1, <3>2
  <2>2. Fresh' /\ Once' /\ StateOnce' /\ RefusalKeepsState'
    BY <2>1 DEF Fresh, Once, StateOnce, RefusalKeepsState
  <2>3. SteadyRecord'
    BY <2>1 DEF SteadyRecord
  <2> QED BY <2>2, <2>3
<1>2. CASE OpenPageOne
  <2>1. /\ pair' = pair + 1 /\ pair \in 0..MaxPairs
        /\ UNCHANGED <<mode, txn, asked, codePair, accepted, restarted, steady>>
    BY <1>2 DEF OpenPageOne, rfcVars, providerVars, historyVars, TypeOK
  <2>2. Fresh'
    BY <2>1 DEF Fresh, TypeOK, Pairs
  <2> QED BY <2>1, <2>2 DEF Once, StateOnce, RefusalKeepsState, SteadyRecord
<1>3. CASE AskInMode
  <2>1. /\ pair' = pair + 1 /\ txn' = Txn(pair') /\ steady' /\ mode'
        /\ asked' \in {asked, pair'}
        /\ UNCHANGED <<codePair, accepted, restarted>>
    BY <1>3 DEF AskInMode, providerVars
  <2>2. pair \in 0..MaxPairs /\ asked \in 0..MaxPairs /\ pair' \in Pairs
    <3>1. pair \in 0..MaxPairs /\ asked \in 0..MaxPairs
      BY DEF TypeOK
    <3>2. pair < MaxPairs
      BY <1>3 DEF AskInMode
    <3> QED BY <2>1, <3>1, <3>2, BoundsAssumption DEF Pairs
  <2>3. txn' # NoTxn /\ txn'.pair = pair' /\ ~txn'.consumed
    BY <2>1, <2>2, RecordOK
  <2>4. Fresh'
    BY <2>1, <2>2, <2>3, CodePairs DEF Fresh, Pairs
  <2>5. accepted'[txn'.pair] = 0
    BY <2>1, <2>2, <2>3 DEF Fresh
  <2>6. Once' /\ StateOnce' /\ RefusalKeepsState'
    BY <2>1, <2>3, <2>5 DEF Once, StateOnce, RefusalKeepsState
  <2>7. SteadyRecord'
    BY <2>1, <2>2, <2>3 DEF SteadyRecord, Fresh
  <2> QED BY <2>4, <2>6, <2>7
<1>4. CASE Ask
  <2>1. /\ ~mode /\ asked' = pair
        /\ UNCHANGED <<mode, txn, pair, codePair, accepted, restarted, steady>>
    BY <1>4 DEF Ask, rfcVars, providerVars, historyVars
  <2>2. Fresh'
    <3>1. pair \in 0..MaxPairs /\ asked \in 0..MaxPairs
      BY DEF TypeOK
    <3> QED BY <2>1, <3>1, CodePairs DEF Fresh, Pairs
  <2> QED BY <2>1, <2>2 DEF Once, StateOnce, RefusalKeepsState, SteadyRecord
<1>5. CASE AskDevice
  <2>1. /\ txn' = (IF mode THEN Txn(pair) ELSE txn)
        /\ restarted' = (IF mode THEN restarted \union {pair} ELSE restarted)
        /\ steady' = mode
        /\ UNCHANGED <<mode, pair, asked, codePair, accepted>>
    BY <1>5 DEF AskDevice, providerVars
  <2>2. pair \in Pairs
    BY <1>5 DEF AskDevice, TypeOK, Pairs
  <2>3. CASE mode
    <3>1. txn' # NoTxn /\ txn'.pair = pair /\ ~txn'.consumed
      BY <2>1, <2>2, <2>3, RecordOK
    <3>2. Fresh'
      BY <2>1, <2>2, <3>1 DEF Fresh, Pairs
    <3>3. Once' /\ StateOnce' /\ RefusalKeepsState' /\ SteadyRecord'
      BY <2>1, <2>3, <3>1 DEF Once, StateOnce, RefusalKeepsState, SteadyRecord, Fresh
    <3> QED BY <3>2, <3>3
  <2>4. CASE ~mode
    <3>1. UNCHANGED <<txn, restarted>> /\ ~steady'
      BY <2>1, <2>4 DEF TypeOK
    <3> QED BY <2>1, <3>1 DEF Fresh, Once, StateOnce, RefusalKeepsState, SteadyRecord
  <2> QED BY <2>3, <2>4
<1>6. CASE Authorize
  <2>1. codePair' = Append(codePair, asked) /\ UNCHANGED <<mode, txn, pair, asked, accepted, restarted, steady>>
    BY <1>6 DEF Authorize, rfcVars, pageVars, historyVars
  <2>2. \A i \in DOMAIN codePair' : codePair'[i] <= asked
    BY <2>1 DEF Fresh, TypeOK
  <2> QED BY <2>1, <2>2 DEF Fresh, Once, StateOnce, RefusalKeepsState, SteadyRecord
<1>7. ASSUME NEW a \in Answers, Deliver(a) PROVE TxnInv'
  <2>1. UNCHANGED <<mode, pair, asked, codePair, restarted, steady>>
    BY <1>7 DEF Deliver, providerVars
  <2>2. CASE UNCHANGED <<txn, accepted>>
    BY <2>1, <2>2 DEF Fresh, Once, StateOnce, RefusalKeepsState, SteadyRecord
  <2>3. CASE Accepted(a)
    <3>1. /\ txn \in [pair : Pairs, consumed : BOOLEAN] /\ txn # NoTxn /\ ~txn.consumed
          /\ txn' = Consumed(txn) /\ accepted' = Counted(accepted, txn.pair)
      BY <2>3 DEF Accepted, ResponseOk, TypeOK
    <3>2. txn'.pair = txn.pair /\ txn'.consumed
      BY <3>1 DEF Consumed
    <3>3. \A p \in Pairs : accepted'[p] = IF p = txn.pair THEN (IF accepted[p] = 0 THEN 1 ELSE 2) ELSE accepted[p]
      BY <3>1 DEF Counted, TypeOK
    <3>4. Fresh'
      BY <2>1, <3>1, <3>2, <3>3 DEF Fresh
    <3>5. StateOnce'
      BY <2>1, <3>1, <3>3 DEF StateOnce, Once
    <3>6. txn' # NoTxn
      <4>1. txn' \in [pair : Pairs, consumed : BOOLEAN]
        BY <3>1 DEF Consumed
      <4>2. txn' \in [pair : Nat, consumed : BOOLEAN]
        BY <4>1 DEF Pairs
      <4> QED BY <4>2, NoTxnAssumption
    <3>7. accepted'[txn'.pair] > 0
      BY <3>1, <3>2, <3>3
    <3> QED BY <2>1, <3>2, <3>4, <3>5, <3>6, <3>7 DEF Once, RefusalKeepsState, SteadyRecord
  <2> QED BY <1>7, <2>2, <2>3 DEF Deliver, Refused
<1>8. CASE UNCHANGED txnVars
  BY <1>8 DEF txnVars, Fresh, Once, StateOnce, RefusalKeepsState, SteadyRecord
<1>9. CASE BackToPageOne \/ ReopenPageTwo
  BY <1>8, <1>9 DEF BackToPageOne, ReopenPageTwo, txnVars, rfcVars, providerVars, historyVars
<1>10. ASSUME NEW c \in Codes, TypeCode(c) PROVE TxnInv'
  BY <1>8, <1>10 DEF TypeCode, txnVars, rfcVars, providerVars, historyVars
<1>11. ASSUME NEW r \in Tokens, TypeRefresh(r) PROVE TxnInv'
  BY <1>8, <1>11 DEF TypeRefresh, txnVars, rfcVars, providerVars, historyVars
<1>12. ASSUME NEW s \in Slots,
              \/ GetToken(s) \/ Refresh(s) \/ CodeAnswered(s)
              \/ DeviceAnswered(s) \/ RefreshAnswered(s) \/ AnswerLost(s)
       PROVE  TxnInv'
  <2>1. CASE GetToken(s)
    BY <1>8, <2>1 DEF GetToken, txnVars, providerVars
  <2>2. CASE Refresh(s) \/ AnswerLost(s)
    BY <1>8, <2>2 DEF Refresh, AnswerLost, txnVars, rfcVars, providerVars, historyVars
  <2>3. CASE CodeAnswered(s) \/ DeviceAnswered(s) \/ RefreshAnswered(s)
    BY <1>8, <2>3 DEF CodeAnswered, DeviceAnswered, RefreshAnswered, txnVars
  <2> QED BY <1>12, <2>1, <2>2, <2>3
<1>13. CASE UNCHANGED vars
  BY <1>8, <1>13 DEF vars, txnVars, rfcVars, pageVars, providerVars, historyVars
<1> QED
  BY <1>1, <1>2, <1>3, <1>4, <1>5, <1>6, <1>7, <1>9, <1>10, <1>11, <1>12, <1>13 DEF Next

(***************************************************************************)
(* The spent list remembers every code sent in mode until it has had to    *)
(* forget something.                                                       *)
(***************************************************************************)
Remembered ==
  ~evicted => \A c \in Codes : presented[c] # 0 => Key("code", c) \in Range(spent)

ListInv == Remembered /\ CodeOnce

listVars == <<spent, presented, evicted>>

LEMMA SpendKeeps ==
  ASSUME NEW list, Spend(list), UNCHANGED presented, ListInv
  PROVE  ListInv'
<1>1. ~evicted' => ~evicted /\ Range(spent) \subseteq Range(spent')
  BY DEF Spend
<1> QED BY <1>1 DEF ListInv, Remembered, CodeOnce

LEMMA ListInit == Init => ListInv
  BY DEF Init, ListInv, Remembered, CodeOnce

LEMMA ListNext == TypeOK /\ ListInv /\ [Next]_vars => ListInv'
<1> SUFFICES ASSUME TypeOK, ListInv, [Next]_vars PROVE ListInv'
  OBVIOUS
<1>0. CASE UNCHANGED listVars
  BY <1>0 DEF listVars, ListInv, Remembered, CodeOnce
<1>1. ASSUME NEW s \in Slots, GetToken(s) PROVE ListInv'
  <2>1. CASE UNCHANGED <<spent, evicted, presented>>
    BY <1>0, <2>1 DEF listVars
  <2>2. CASE ~UNCHANGED <<spent, evicted, presented>>
    <3>1. /\ code # 0 /\ CodeOk(code)
          /\ Spend(Marked(spent, Key("code", code)))
          /\ presented' = Counted(presented, code)
      BY <1>1, <2>2 DEF GetToken
    <3>2. code \in Codes /\ Key("code", code) \in SpentKeys
      BY <3>1, BoundsAssumption DEF TypeOK, Codes, Key, SpentKeys
    <3>3. Key("code", code) \in Range(spent')
      BY <3>1, <3>2, MarkedIn DEF TypeOK, SpentOK, SpentKeys, Spend
    <3>4. \A c \in Codes : presented'[c] = IF c = code THEN (IF presented[c] = 0 THEN 1 ELSE 2) ELSE presented[c]
      BY <3>1, <3>2 DEF Counted, TypeOK
    <3>5. ~evicted' => ~evicted /\ Range(spent) \subseteq Range(spent')
      BY <3>1 DEF Spend
    <3>6. Key("code", code) \notin Range(spent)
      BY <3>1 DEF CodeOk, IsSpent
    <3>7. Remembered'
      BY <3>3, <3>4, <3>5 DEF ListInv, Remembered
    <3>8. ~evicted' => presented[code] = 0
      BY <3>2, <3>5, <3>6 DEF ListInv, Remembered
    <3>9. CodeOnce'
      BY <3>2, <3>4, <3>5, <3>8 DEF ListInv, CodeOnce
    <3> QED BY <3>7, <3>9 DEF ListInv
  <2> QED BY <2>1, <2>2
<1>2. ASSUME NEW s \in Slots, CodeAnswered(s) \/ DeviceAnswered(s) PROVE ListInv'
  <2>1. \E g, id, r : TakeTokens(g, id, r)
    <3>1. CASE CodeAnswered(s)
      BY <3>1 DEF CodeAnswered
    <3>2. CASE DeviceAnswered(s)
      BY <3>2 DEF DeviceAnswered
    <3> QED BY <1>2, <3>1, <3>2
  <2>2. PICK g, id, r : TakeTokens(g, id, r)
    BY <2>1
  <2>3. UNCHANGED <<spent, evicted>> \/ Spend(Rotated(spent, current, r))
    BY <2>2 DEF TakeTokens
  <2>4. UNCHANGED presented
    BY <1>2 DEF CodeAnswered, DeviceAnswered
  <2> QED BY <1>0, <2>3, <2>4, SpendKeeps DEF listVars
<1>3. ASSUME NEW s \in Slots, RefreshAnswered(s) PROVE ListInv'
  <2>1. PICK r : UNCHANGED <<spent, evicted>> \/ Spend(Rotated(spent, field, r))
    BY <1>3 DEF RefreshAnswered, TakeRefreshed
  <2>2. UNCHANGED presented
    BY <1>3 DEF RefreshAnswered
  <2> QED BY <1>0, <2>1, <2>2, SpendKeeps DEF listVars
<1>4. ASSUME NEW s \in Slots, Refresh(s) \/ AnswerLost(s) PROVE ListInv'
  BY <1>0, <1>4 DEF Refresh, AnswerLost, listVars, rfcVars, historyVars
<1>5. ASSUME NEW a \in Answers, Deliver(a) PROVE ListInv'
  BY <1>0, <1>5 DEF Deliver, listVars
<1>6. ASSUME NEW c \in Codes, TypeCode(c) PROVE ListInv'
  BY <1>0, <1>6 DEF TypeCode, listVars, rfcVars, historyVars
<1>7. ASSUME NEW r \in Tokens, TypeRefresh(r) PROVE ListInv'
  BY <1>0, <1>7 DEF TypeRefresh, listVars, rfcVars, historyVars
<1>8. CASE SetMode \/ SetModeElsewhere \/ AskInMode \/ AskDevice
  BY <1>0, <1>8 DEF SetMode, SetModeElsewhere, AskInMode, AskDevice, listVars
<1>9. CASE OpenPageOne \/ BackToPageOne \/ Ask \/ Authorize \/ ReopenPageTwo
  BY <1>0, <1>9 DEF OpenPageOne, BackToPageOne, Ask, Authorize, ReopenPageTwo, listVars, rfcVars, historyVars
<1>10. CASE UNCHANGED vars
  BY <1>0, <1>10 DEF vars, listVars, rfcVars, historyVars
<1> QED
  BY <1>1, <1>2, <1>3, <1>4, <1>5, <1>6, <1>7, <1>8, <1>9, <1>10 DEF Next

(***************************************************************************)
(* The set in the slots.  Its nonce is the record's, and a code's pair was *)
(* asked for no later than the record was made.                            *)
(***************************************************************************)
LEMMA KeptNext ==
  TypeOK /\ TxnInv /\ KeptAnswersRequest /\ [Next]_vars => KeptAnswersRequest'
<1> SUFFICES ASSUME TypeOK, TxnInv, KeptAnswersRequest, [Next]_vars PROVE KeptAnswersRequest'
  OBVIOUS
<1> USE DEF KeptAnswersRequest
<1>0. CASE shown' = shown \/ shown' = NoSet
  BY <1>0 DEF NoSet
<1>1. ASSUME NEW s \in Slots, CodeAnswered(s) PROVE KeptAnswersRequest'
  <2>1. PICK r \in 0..MaxTokens, id \in IdTokens({codePair[calls[s].value]}) : TakeTokens("code", id, r)
    BY <1>1 DEF CodeAnswered
  <2>2. codePair[calls[s].value] \in Nat /\ codePair[calls[s].value] <= asked
    BY <1>1, CodePairs DEF CodeAnswered, TypeOK, TxnInv, Fresh
  <2>3. id.nonce = 0 \/ (id.present /\ id.nonce = codePair[calls[s].value])
    BY DEF IdTokens
  <2>4. CASE shown' = shown
    BY <1>0, <2>4
  <2>5. CASE shown' # shown
    <3>1. shown' = Kept("code", id) /\ (mode => IdTokenOk(id, FALSE))
      BY <2>1, <2>5 DEF TakeTokens
    <3>2. CASE ~steady \/ id.nonce = 0
      BY <3>1, <3>2 DEF Kept
    <3>3. CASE steady /\ id.nonce # 0
      <4>1. mode /\ txn # NoTxn /\ asked <= txn.pair
        BY <3>3 DEF TxnInv, SteadyRecord
      <4>2. id.nonce = txn.pair
        BY <2>3, <3>1, <3>3, <4>1 DEF IdTokenOk
      <4>3. id.nonce = asked
        BY <2>2, <2>3, <3>3, <4>1, <4>2 DEF TypeOK
      <4> QED BY <3>1, <4>3 DEF Kept
    <3> QED BY <3>2, <3>3
  <2> QED BY <2>4, <2>5
<1>2. ASSUME NEW s \in Slots, DeviceAnswered(s) PROVE KeptAnswersRequest'
  <2>1. PICK r \in 0..MaxTokens, id \in IdTokens({0}) : TakeTokens("device", id, r)
    BY <1>2 DEF DeviceAnswered
  <2>2. id.nonce = 0
    BY DEF IdTokens
  <2>3. shown' = shown \/ shown' = Kept("device", id)
    BY <2>1 DEF TakeTokens
  <2>4. CASE shown' = shown
    BY <1>0, <2>4
  <2>5. CASE shown' = Kept("device", id)
    <3>1. shown'.own = (steady /\ id.nonce # 0 => id.nonce = asked)
      BY <2>5 DEF Kept
    <3> QED BY <2>2, <3>1
  <2> QED BY <2>3, <2>4, <2>5
<1>3. ASSUME NEW s \in Slots, GetToken(s) \/ Refresh(s) \/ RefreshAnswered(s) \/ AnswerLost(s)
      PROVE KeptAnswersRequest'
  BY <1>0, <1>3 DEF GetToken, Refresh, RefreshAnswered, AnswerLost
<1>4. ASSUME NEW a \in Answers, Deliver(a) PROVE KeptAnswersRequest'
  BY <1>0, <1>4 DEF Deliver, Refused, Accepted, OpenPageTwo
<1>5. ASSUME NEW c \in Codes, TypeCode(c) PROVE KeptAnswersRequest'
  BY <1>0, <1>5 DEF TypeCode
<1>6. ASSUME NEW r \in Tokens, TypeRefresh(r) PROVE KeptAnswersRequest'
  BY <1>0, <1>6 DEF TypeRefresh
<1>7. CASE SetMode \/ SetModeElsewhere \/ Authorize
  BY <1>0, <1>7 DEF SetMode, SetModeElsewhere, Authorize, pageVars
<1>8. CASE OpenPageOne \/ BackToPageOne \/ AskInMode \/ Ask
  BY <1>0, <1>8 DEF OpenPageOne, BackToPageOne, AskInMode, Ask
<1>9. CASE AskDevice \/ ReopenPageTwo
  BY <1>0, <1>9 DEF AskDevice, ReopenPageTwo, OpenPageTwo
<1>10. CASE UNCHANGED vars
  BY <1>0, <1>10 DEF vars, pageVars
<1> QED
  BY <1>1, <1>2, <1>3, <1>4, <1>5, <1>6, <1>7, <1>8, <1>9, <1>10 DEF Next

LEMMA KeptInit == Init => KeptAnswersRequest
  BY DEF Init, KeptAnswersRequest, NoSet

(***************************************************************************)
(* The theorems.                                                           *)
(***************************************************************************)
LEMMA Inductive == Spec => [](TypeOK /\ TxnInv /\ ListInv /\ KeptAnswersRequest)
<1>1. Init => TypeOK /\ TxnInv /\ ListInv /\ KeptAnswersRequest
  BY TypeInit, TxnInit, ListInit, KeptInit
<1>2. TypeOK /\ TxnInv /\ ListInv /\ KeptAnswersRequest /\ [Next]_vars
        => (TypeOK /\ TxnInv /\ ListInv /\ KeptAnswersRequest)'
  BY TypeNext, TxnNext, ListNext, KeptNext
<1> QED BY <1>1, <1>2, PTL DEF Spec

(* A code is sent once in mode while the list has forgotten nothing.       *)
THEOREM CodeSentOnce == Spec => []CodeOnce
<1>1. ListInv => CodeOnce
  BY DEF ListInv
<1> QED BY <1>1, Inductive, PTL

(* A state is accepted once, unless a device request used its pair again.  *)
THEOREM StateAcceptedOnce == Spec => []StateOnce
<1>1. TxnInv => StateOnce
  BY DEF TxnInv
<1> QED BY <1>1, Inductive, PTL

(* Only an accepted answer uses a state up.                                *)
THEOREM RefusalBurnsNothing == Spec => []RefusalKeepsState
<1>1. TxnInv => RefusalKeepsState
  BY DEF TxnInv
<1> QED BY <1>1, Inductive, PTL

(* An ID Token kept with the switch on throughout answers the last request.*)
THEOREM KeptIsOurs == Spec => []KeptAnswersRequest
  BY Inductive, PTL

=============================================================================
