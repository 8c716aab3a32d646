------------------------------ MODULE CodeFlow -----------------------------
(* One tab of the OAuth2 / OIDC workflow with the RFC 9700 switch: the page *)
(* that sends the authorization request (client/src/oauth2_oidc_1.js), the  *)
(* page that receives the answer, exchanges the code and refreshes          *)
(* (client/src/oauth2_oidc_2.js), the reader who presses the buttons and    *)
(* retypes the fields, and the provider, which is external.  A reload or a  *)
(* navigation drops the token requests under way; nothing else stops two of *)
(* them from being open together, and their answers come in any order.      *)
EXTENDS Rfc9700

CONSTANTS
  Slots,         (* places for token requests that are open together *)
  MaxPairs, MaxCodes, MaxTokens    (* bounds: pairs, codes, refresh tokens *)

ASSUME BoundsAssumption ==
  MaxPairs \in Nat /\ MaxCodes \in Nat /\ MaxTokens \in Nat

VARIABLES
  page,          (* "one", "two", or "away" at the provider *)
  pair,          (* the state and nonce in page one's fields *)
  asked,         (* the pair of the last request that left this tab *)
  grant,         (* what Get Token sends: "code" or "device" *)
  code, field,   (* the code and the refresh token in page two's fields *)
  current,       (* currentRefreshToken of page two *)
  calls,         (* token requests under way *)
  shown,         (* the token set in the page's slots *)
  codePair,      (* provider: the pair each code was issued for *)
  minted,        (* provider: how many refresh tokens it gave out *)
  accepted, presented, restarted, evicted, steady
                 (* history: answers accepted in mode by pair, codes sent in *)
                 (* mode, pairs a device request started a transaction with, *)
                 (* whether the list lost a value, whether the switch was on *)
                 (* since the record was made; the counts stop at 2          *)

pageVars == <<page, pair, asked, grant, code, field, current, calls, shown>>
providerVars == <<codePair, minted>>
historyVars == <<accepted, presented, restarted, evicted, steady>>
vars == <<rfcVars, pageVars, providerVars, historyVars>>

Pairs == 1..MaxPairs
Codes == 1..MaxCodes
Tokens == 1..MaxTokens

Idle == [kind |-> "idle", value |-> 0]
Call(kind, value) == [kind |-> kind, value |-> value]
NoSet == [grant |-> "none", own |-> TRUE]
NoCalls == [s \in Slots |-> Idle]

Init ==
  /\ mode \in BOOLEAN /\ txn = NoTxn /\ spent = <<>>
  /\ page = "one" /\ pair = 0 /\ asked = 0 /\ grant = "code"
  /\ code = 0 /\ field = 0 /\ current = 0 /\ calls = NoCalls /\ shown = NoSet
  /\ codePair = <<>> /\ minted = 0
  /\ accepted = [p \in Pairs |-> 0] /\ presented = [c \in Codes |-> 0]
  /\ restarted = {} /\ evicted = FALSE /\ steady = FALSE

Counted(f, x) == [f EXCEPT ![x] = IF @ = 0 THEN 1 ELSE 2]

(* Page two as it opens: its fields are empty but for the code it was given *)
(* and the token slots are cleared.                                         *)
OpenPageTwo(c) ==
  /\ page' = "two" /\ calls' = NoCalls /\ shown' = NoSet
  /\ code' = c /\ field' = 0 /\ current' = 0

-----------------------------------------------------------------------------
(* The switch.  Only page one throws the record away when it goes off.      *)

SetMode ==
  /\ page \in {"one", "two"}
  /\ mode' = ~mode
  /\ txn' = IF page = "one" /\ ~mode' THEN NoTxn ELSE txn
  /\ steady' = (steady /\ mode')
  /\ UNCHANGED <<spent, pageVars, providerVars, accepted, presented, restarted, evicted>>

(* Another tab's page throws the switch: this tab's record stays.           *)
SetModeElsewhere ==
  /\ mode' = ~mode
  /\ steady' = (steady /\ mode')
  /\ UNCHANGED <<txn, spent, pageVars, providerVars, accepted, presented, restarted, evicted>>

-----------------------------------------------------------------------------
(* Page one.                                                                *)

OpenPageOne ==
  /\ pair < MaxPairs
  /\ page' = "one" /\ pair' = pair + 1 /\ calls' = NoCalls
  /\ code' = 0 /\ field' = 0 /\ current' = 0 /\ shown' = NoSet
  /\ UNCHANGED <<rfcVars, asked, grant, providerVars, historyVars>>

(* The browser brings page one back as it was, without loading it.          *)
BackToPageOne ==
  /\ page \in {"away", "two"}
  /\ page' = "one" /\ calls' = NoCalls
  /\ code' = 0 /\ field' = 0 /\ current' = 0 /\ shown' = NoSet
  /\ UNCHANGED <<rfcVars, pair, asked, grant, providerVars, historyVars>>

(* Variant for checking StateOnce: the pair of the page load is sent again. *)
AskInModeAgain ==
  /\ page = "one" /\ mode /\ pair > 0
  /\ txn' = Txn(pair)
  /\ \/ page' = "away" /\ asked' = pair /\ grant' = "code"
     \/ UNCHANGED <<page, asked, grant>>
  /\ steady' = TRUE
  /\ UNCHANGED <<mode, spent, pair, code, field, current, calls, shown, providerVars, accepted, presented, restarted, evicted>>

(* In mode every press draws a new pair and starts a transaction, refused   *)
(* or not; the request leaves only when nothing in it fails a MUST.         *)
AskInMode ==
  /\ page = "one" /\ mode /\ pair < MaxPairs
  /\ pair' = pair + 1
  /\ txn' = Txn(pair')
  /\ \/ page' = "away" /\ asked' = pair' /\ grant' = "code"
     \/ UNCHANGED <<page, asked, grant>>
  /\ steady' = TRUE
  /\ UNCHANGED <<mode, spent, code, field, current, calls, shown, providerVars, accepted, presented, restarted, evicted>>

Ask ==
  /\ page = "one" /\ ~mode /\ pair > 0
  /\ page' = "away" /\ asked' = pair /\ grant' = "code"
  /\ UNCHANGED <<rfcVars, pair, code, field, current, calls, shown, providerVars, historyVars>>

(* The device authorization request: nothing is redrawn, the transaction is *)
(* started with the page's pair, and page two opens when the code is there. *)
AskDevice ==
  /\ page = "one" /\ pair > 0
  /\ txn' = IF mode THEN Txn(pair) ELSE txn
  /\ restarted' = IF mode THEN restarted \union {pair} ELSE restarted
  /\ steady' = mode
  /\ \/ OpenPageTwo(0) /\ grant' = "device"
     \/ UNCHANGED <<page, grant, code, field, current, calls, shown>>
  /\ UNCHANGED <<mode, spent, pair, asked, providerVars, accepted, presented, evicted>>

-----------------------------------------------------------------------------
(* The authorization answer.  The provider issues a code for the request it *)
(* was sent; the browser may open the answer with any code it was given, or *)
(* an error (code 0) to the last request, at any later moment and as often  *)
(* as the reader goes back to it, with or without the state, and with the   *)
(* right or a wrong issuer.                                                 *)

Authorize ==
  /\ page = "away" /\ Len(codePair) < MaxCodes
  /\ codePair' = Append(codePair, asked)
  /\ UNCHANGED <<rfcVars, pageVars, minted, historyVars>>

Answers ==
  {[state |-> st, iss |-> iss, code |-> 0] : st \in {0, asked}, iss \in BOOLEAN}
    \union UNION {{[state |-> st, iss |-> iss, code |-> c] :
                      st \in {0, codePair[c]}, iss \in BOOLEAN} : c \in DOMAIN codePair}

(* A refused answer leaves the record as it is, and its code out of the     *)
(* field; only an accepted one uses the state up.                           *)
Refused(a) ==
  /\ ~ResponseOk(a)
  /\ OpenPageTwo(0)
  /\ UNCHANGED <<txn, accepted>>

Accepted(a) ==
  /\ ResponseOk(a)
  /\ txn' = Consumed(txn)
  /\ accepted' = Counted(accepted, txn.pair)
  /\ OpenPageTwo(a.code)

(* Variant for checking RefusalKeepsState: the state is used up first.      *)
DeliverConsuming(a) ==
  /\ IF mode
       THEN /\ txn' = IF txn = NoTxn THEN txn ELSE Consumed(txn)
            /\ accepted' = IF ResponseOk(a) THEN Counted(accepted, txn.pair) ELSE accepted
            /\ OpenPageTwo(IF ResponseOk(a) THEN a.code ELSE 0)
       ELSE OpenPageTwo(a.code) /\ UNCHANGED <<txn, accepted>>
  /\ UNCHANGED <<mode, spent, pair, asked, grant, providerVars, presented, restarted, evicted, steady>>

Deliver(a) ==
  /\ IF mode THEN Refused(a) \/ Accepted(a)
     ELSE OpenPageTwo(a.code) /\ UNCHANGED <<txn, accepted>>
  /\ UNCHANGED <<mode, spent, pair, asked, grant, providerVars, presented, restarted, evicted, steady>>

(* Page two opens without an answer, as when the reader comes back to it.   *)
ReopenPageTwo ==
  /\ page = "two" /\ OpenPageTwo(0)
  /\ UNCHANGED <<rfcVars, pair, asked, grant, providerVars, historyVars>>

-----------------------------------------------------------------------------
(* Page two: the reader's fields and buttons.                               *)

TypeCode(c) ==
  /\ page = "two" /\ c \in 1..Len(codePair) /\ code' = c
  /\ UNCHANGED <<rfcVars, page, pair, asked, grant, field, current, calls, shown, providerVars, historyVars>>

TypeRefresh(r) ==
  /\ page = "two" /\ r \in 1..minted /\ field' = r
  /\ UNCHANGED <<rfcVars, page, pair, asked, grant, code, current, calls, shown, providerVars, historyVars>>

(* Spending a value, and the history of it.                                 *)
Spend(list) ==
  /\ spent' = list
  /\ evicted' = (evicted \/ ~(Range(spent) \subseteq Range(list)))

(* Variant for checking CodeOnce: the code is marked when its answer comes. *)
GetTokenUnmarked(s) ==
  /\ page = "two" /\ calls[s] = Idle
  /\ \/ /\ grant = "code" /\ code # 0 /\ (mode => CodeOk(code))
        /\ calls' = [calls EXCEPT ![s] = Call("code", code)]
        /\ presented' = IF mode THEN Counted(presented, code) ELSE presented
     \/ /\ grant = "device" /\ UNCHANGED presented
        /\ calls' = [calls EXCEPT ![s] = Call("device", 0)]
  /\ UNCHANGED <<rfcVars, page, pair, asked, grant, code, field, current, shown, providerVars, accepted, restarted, evicted, steady>>

(* Get Token.  In mode a code that was sent is refused, and one that goes   *)
(* out is marked before the request is made, whatever comes of it.          *)
GetToken(s) ==
  /\ page = "two" /\ calls[s] = Idle
  /\ \/ /\ grant = "code" /\ code # 0
        /\ calls' = [calls EXCEPT ![s] = Call("code", code)]
        /\ IF mode
             THEN /\ CodeOk(code)
                  /\ Spend(Marked(spent, Key("code", code)))
                  /\ presented' = Counted(presented, code)
             ELSE UNCHANGED <<spent, evicted, presented>>
     \/ /\ grant = "device"
        /\ calls' = [calls EXCEPT ![s] = Call("device", 0)]
        /\ UNCHANGED <<spent, evicted, presented>>
  /\ UNCHANGED <<mode, txn, page, pair, asked, grant, code, field, current, shown, providerVars, accepted, restarted, steady>>

(* Refresh.  A replaced token is refused in mode, and nothing is marked     *)
(* until an answer says that it was replaced.                               *)
Refresh(s) ==
  /\ page = "two" /\ calls[s] = Idle /\ field # 0
  /\ mode => ~IsSpent("refresh", field)
  /\ calls' = [calls EXCEPT ![s] = Call("refresh", field)]
  /\ UNCHANGED <<rfcVars, page, pair, asked, grant, code, field, current, shown, providerVars, historyVars>>

-----------------------------------------------------------------------------
(* Answers to token requests.                                               *)

Settled(s) == calls' = [calls EXCEPT ![s] = Idle]

(* A refresh token in an answer: none, or a new one.                        *)
Mints(r) ==
  \/ r = 0 /\ UNCHANGED minted
  \/ minted < MaxTokens /\ r = minted + 1 /\ minted' = r

(* The set in the page's slots: whose tokens they are, and whether its ID    *)
(* Token, if the switch stayed on since the request, answers that request.  *)
Kept(g, id) ==
  [grant |-> g, own |-> steady /\ id.nonce # 0 => id.nonce = asked]

(* Variant for checking KeptAnswersRequest: the tokens are kept before the  *)
(* nonce is looked at.                                                      *)
TakeTokensFirst(g, id, r) ==
  /\ IF mode THEN Spend(Rotated(spent, current, r)) ELSE UNCHANGED <<spent, evicted>>
  /\ current' = IF r # 0 THEN r ELSE current
  /\ field' = current'
  /\ shown' = Kept(g, id)

(* successfulInternalTokenAPICall: what the mode refuses is thrown away,    *)
(* and what it keeps replaces the page's slots and refresh token.           *)
TakeTokens(g, id, r) ==
  IF mode /\ ~IdTokenOk(id, FALSE)
    THEN UNCHANGED <<spent, evicted, current, field, shown>>
    ELSE /\ IF mode THEN Spend(Rotated(spent, current, r))
                    ELSE UNCHANGED <<spent, evicted>>
         /\ current' = IF r # 0 THEN r ELSE current
         /\ field' = current'
         /\ shown' = Kept(g, id)

(* An answer has no ID Token, one that cannot be read, or one with a nonce  *)
(* and an issuer, the right one or another.                                 *)
IdTokens(nonces) ==
  [present : BOOLEAN, readable : {FALSE}, nonce : {0}, iss : {FALSE}]
    \union [present : {TRUE}, readable : {TRUE}, nonce : nonces, iss : BOOLEAN]

CodeAnswered(s) ==
  /\ calls[s].kind = "code" /\ Settled(s)
  /\ \E r \in 0..MaxTokens, id \in IdTokens({codePair[calls[s].value]}) :
       Mints(r) /\ TakeTokens("code", id, r)
  /\ UNCHANGED <<mode, txn, page, pair, asked, grant, code, codePair, accepted, presented, restarted, steady>>

(* The device grant has no authentication request: its ID Token carries no  *)
(* nonce.                                                                   *)
DeviceAnswered(s) ==
  /\ calls[s].kind = "device" /\ Settled(s)
  /\ \E r \in 0..MaxTokens, id \in IdTokens({0}) :
       Mints(r) /\ TakeTokens("device", id, r)
  /\ UNCHANGED <<mode, txn, page, pair, asked, grant, code, codePair, accepted, presented, restarted, steady>>

(* successfulInternalRefreshAPICall: what the mode refuses is thrown away;  *)
(* else the page marks what is in its field now if the provider replaced    *)
(* it, and puts the answer's token there, or, when it brought none, the one *)
(* localStorage has, which any visit may have left.  currentRefreshToken is *)
(* shadowed and stays as it was.                                            *)
TakeRefreshed(refused, r) ==
  IF refused
    THEN UNCHANGED <<spent, evicted, field>>
    ELSE /\ IF mode THEN Spend(Rotated(spent, field, r))
                    ELSE UNCHANGED <<spent, evicted>>
         /\ field' \in IF r # 0 THEN {r} ELSE 0..minted

(* The provider repeats the token, replaces it or leaves it out; an ID      *)
(* Token may carry the nonce of the last request.                           *)
RefreshAnswered(s) ==
  /\ calls[s].kind = "refresh" /\ Settled(s)
  /\ \E r \in 0..MaxTokens,
        refused \in {mode /\ ~IdTokenOk(id, TRUE) : id \in IdTokens({0, asked})} :
       /\ (r = calls[s].value /\ UNCHANGED minted) \/ Mints(r)
       /\ TakeRefreshed(refused, r)
  /\ UNCHANGED <<mode, txn, page, pair, asked, grant, code, current, shown, codePair, accepted, presented, restarted, steady>>

(* An error, or an answer that never comes: the page keeps what it has.     *)
AnswerLost(s) ==
  /\ calls[s] # Idle /\ Settled(s)
  /\ UNCHANGED <<rfcVars, page, pair, asked, grant, code, field, current, shown, providerVars, historyVars>>

-----------------------------------------------------------------------------
Next ==
  \/ SetMode \/ SetModeElsewhere
  \/ OpenPageOne \/ BackToPageOne \/ AskInMode \/ Ask \/ AskDevice \/ Authorize \/ ReopenPageTwo
  \/ \E a \in Answers : Deliver(a)
  \/ \E c \in Codes : TypeCode(c)
  \/ \E r \in Tokens : TypeRefresh(r)
  \/ \E s \in Slots :
       \/ GetToken(s) \/ Refresh(s)
       \/ CodeAnswered(s) \/ DeviceAnswered(s) \/ RefreshAnswered(s) \/ AnswerLost(s)

Spec == Init /\ [][Next]_vars

-----------------------------------------------------------------------------
(* Types: the list never passes its cap, and every number names something   *)
(* that exists.                                                             *)
TypeOK ==
  /\ mode \in BOOLEAN
  /\ txn \in [pair : Pairs, consumed : BOOLEAN] \union {NoTxn}
  /\ spent \in Seq([kind : {"code", "refresh"}, value : 1..(MaxCodes + MaxTokens)])
  /\ Len(spent) <= SpentCap
  /\ page \in {"one", "two", "away"} /\ grant \in {"code", "device"}
  /\ pair \in 0..MaxPairs /\ asked \in 0..MaxPairs
  /\ page = "away" => asked # 0
  /\ codePair \in Seq(Pairs) /\ Len(codePair) <= MaxCodes
  /\ code \in 0..Len(codePair)
  /\ minted \in 0..MaxTokens
  /\ field \in 0..minted /\ current \in 0..minted
  /\ calls \in [Slots -> [kind : {"idle", "code", "device", "refresh"}, value : Nat]]
  /\ \A s \in Slots :
       /\ calls[s].kind = "code" => calls[s].value \in 1..Len(codePair)
       /\ calls[s].kind = "refresh" => calls[s].value \in 1..minted
  /\ shown \in [grant : {"none", "code", "device"}, own : BOOLEAN]
  /\ accepted \in [Pairs -> 0..2] /\ presented \in [Codes -> 0..2]
  /\ restarted \subseteq Pairs /\ evicted \in BOOLEAN /\ steady \in BOOLEAN

(* A code goes to the token endpoint once while the switch is on: two       *)
(* presses, a second delivery, an answer under way and a code typed in      *)
(* again included, until the list has had to forget something.              *)
CodeOnce == \A c \in Codes : presented[c] = 2 => evicted

(* One answer is accepted for a state, however often it is delivered and    *)
(* however the switch is thrown between; only a device request, which is    *)
(* started with the pair of the page, can make a used state good again.     *)
StateOnce == \A p \in Pairs : accepted[p] = 2 => p \in restarted

(* A state is used up by an accepted answer and by nothing else, so that a  *)
(* refused delivery leaves the right one acceptable.                        *)
RefusalKeepsState ==
  txn # NoTxn /\ txn.consumed => accepted[txn.pair] > 0

(* While the switch stayed on, an ID Token the page keeps answers the last  *)
(* request this tab sent, whichever code was exchanged and in whatever      *)
(* order the answers came.                                                  *)
KeptAnswersRequest == shown.own

(* The tokens a device request is answered with are kept, as the comments   *)
(* on the device exemption promise (seen by the refresh token they bring).  *)
DeviceTokensKept ==
  [][\A s \in Slots :
       calls[s].kind = "device" /\ calls'[s] = Idle /\ minted' # minted
         => shown'.grant = "device"]_vars
=============================================================================
