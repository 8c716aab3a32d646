---------------------- MODULE WebauthnObserver_proofs ----------------------
(***************************************************************************)
(* Proofs about WebauthnObserver for any set of slots, ceremonies and      *)
(* origins, any TTL and MaxCaptures, and with handlers overlapping freely. *)
(***************************************************************************)
EXTENDS WebauthnObserver, TLAPS

USE DEF Times, Past, Never, NotArmed, HandlerPCs

(* The buffer a capture handler writes back holds only its own ceremony    *)
(* and what it had read, and is never longer than MAX_CAPTURES.            *)
LEMMA NewestBounded ==
  ASSUME NEW c \in Ceremonies, NEW r \in Seq(Ceremonies)
  PROVE  /\ Newest(<<c>> \o r) \in Seq(Ceremonies)
         /\ Newest(<<c>> \o r) # <<>>
         /\ Len(Newest(<<c>> \o r)) <= MaxCaptures
         /\ \A i \in 1..Len(Newest(<<c>> \o r)) :
              \/ Newest(<<c>> \o r)[i] = c
              \/ \E j \in 1..Len(r) : Newest(<<c>> \o r)[i] = r[j]
<1> DEFINE b == <<c>> \o r
           n == IF Len(b) < MaxCaptures THEN Len(b) ELSE MaxCaptures
<1>1. MaxCaptures \in Nat \ {0}
  BY ConstantsAssumption
<1>2. b \in Seq(Ceremonies) /\ Len(b) = Len(r) + 1 /\ Len(r) \in Nat
  OBVIOUS
<1>3. \A i \in 1..Len(b) : b[i] = IF i = 1 THEN c ELSE r[i - 1]
  OBVIOUS
<1>4. n \in 1..Len(b) /\ n <= MaxCaptures
  BY <1>1, <1>2
<1> HIDE DEF b, n
<1>5. Newest(b) = SubSeq(b, 1, n)
  BY DEF Newest, n
<1>6. Newest(b) \in Seq(Ceremonies) /\ Len(Newest(b)) = n
      /\ \A i \in 1..n : Newest(b)[i] = b[i]
  BY <1>2, <1>4, <1>5
<1>7. \A i \in 1..n : b[i] = c \/ \E j \in 1..Len(r) : b[i] = r[j]
  <2> TAKE i \in 1..n
  <2>1. i \in 1..Len(b)
    BY <1>2, <1>4
  <2>2. CASE i = 1
    BY <2>1, <2>2, <1>3
  <2>3. CASE i # 1
    <3>1. i - 1 \in 1..Len(r) /\ b[i] = r[i - 1]
      BY <2>1, <2>3, <1>2, <1>3
    <3> QED
      BY <3>1
  <2> QED
    BY <2>2, <2>3
<1>8. Newest(b) # <<>>
  BY <1>4, <1>6
<1> QED
  BY <1>4, <1>6, <1>7, <1>8 DEF b

(* A handler that does nothing is a handler.                               *)
LEMMA IdleTyped == Idle \in Handler
<1>1. Past \in Times /\ <<>> \in Seq(Ceremonies)
  BY ConstantsAssumption
<1> QED
  BY <1>1 DEF Idle, Handler, HandlerRecord, WellFormed

(* A handler that takes a step changes its own locals only.                *)
LEMMA BecomeTyped ==
  ASSUME handler \in [Slots -> Handler], NEW s \in Slots, NEW h \in Handler,
         Become(s, h)
  PROVE  handler' \in [Slots -> Handler] /\ clashed' \in BOOLEAN
<1>1. handler' \in [Slots -> Handler]
  BY DEF Become
<1>2. clashed' \in BOOLEAN
  <2>1. clashed' = (Clash' \/ (clashed /\ ~Alone'))
    BY DEF Become
  <2>2. CASE Clash' \/ (clashed /\ ~Alone')
    BY <2>1, <2>2, Zenon
  <2>3. CASE ~(Clash' \/ (clashed /\ ~Alone'))
    BY <2>1, <2>3, Zenon
  <2> QED
    BY <2>2, <2>3
<1> QED
  BY <1>1, <1>2

(* Every variable keeps its type, and the buffer its cap. (background.js)  *)
THEOREM TypeCorrect == Spec => []TypeOK
<1>1. Init => TypeOK
  <2>1. Init => clashed \in BOOLEAN
    BY DEF Init
  <2>2. <<>> \in Seq(Ceremonies) /\ Len(<<>>) <= MaxCaptures
    BY ConstantsAssumption
  <2> QED
    BY <2>1, <2>2, ConstantsAssumption, IdleTyped DEF Init, TypeOK, PopupIdle
<1>2. TypeOK /\ [Next]_vars => TypeOK'
  <2> SUFFICES ASSUME TypeOK, [Next]_vars
               PROVE  TypeOK'
    OBVIOUS
  <2> USE ConstantsAssumption DEF TypeOK, PopupIdle, store, browser, running
  <2>1. ASSUME NEW s \in Slots, NEW c \in Ceremonies, CaptureMessage(s, c)
        PROVE  TypeOK'
    <3>1. [Idle EXCEPT !.kind = "capture", !.pc = "getArmed",
                       !.ceremony = c] \in Handler
      BY IdleTyped DEF CaptureMessage, Idle, Handler, HandlerRecord, WellFormed
    <3>2. handler' \in [Slots -> Handler] /\ clashed' \in BOOLEAN
      BY <2>1, <3>1, BecomeTyped DEF CaptureMessage
    <3> QED
      BY <2>1, <3>2 DEF CaptureMessage
  <2>2. ASSUME NEW s \in Slots, BridgeMessage(s)
        PROVE  TypeOK'
    <3>1. /\ [Idle EXCEPT !.kind = "getCaptures",
                          !.pc = "getBuffer"] \in Handler
          /\ [Idle EXCEPT !.kind = "clear", !.pc = "removeBuffer"] \in Handler
          /\ [Idle EXCEPT !.kind = "disarm", !.pc = "findScripts"] \in Handler
      BY IdleTyped DEF BridgeMessage, Idle, Handler, HandlerRecord, WellFormed
    <3>2. handler' \in [Slots -> Handler] /\ clashed' \in BOOLEAN
      BY <2>2, <3>1, BecomeTyped DEF BridgeMessage, Begin, BeginDisarm
    <3> QED
      BY <2>2, <3>2 DEF BridgeMessage, Begin, BeginDisarm
  <2>3. ASSUME NEW s \in Slots, OnAlarm(s)
        PROVE  TypeOK'
    <3>1. [Idle EXCEPT !.kind = "disarm", !.pc = "findScripts"] \in Handler
      BY IdleTyped DEF OnAlarm, Idle, Handler, HandlerRecord, WellFormed
    <3>2. handler' \in [Slots -> Handler] /\ clashed' \in BOOLEAN
      BY <2>3, <3>1, BecomeTyped DEF OnAlarm, Begin, BeginDisarm
    <3> QED
      BY <2>3, <3>2 DEF OnAlarm, Begin, BeginDisarm
  <2>4. ASSUME NEW s \in Slots, Restart(s)
        PROVE  TypeOK'
    <3>1. [Idle EXCEPT !.kind = "disarm", !.pc = "findScripts"] \in Handler
      BY IdleTyped DEF Restart, Idle, Handler, HandlerRecord, WellFormed
    <3>2. handler' \in [Slots -> Handler] /\ clashed' \in BOOLEAN
      BY <2>4, <3>1, IdleTyped, BecomeTyped DEF Restart
    <3> QED
      BY <2>4, <3>2 DEF Restart
  <2>5. ASSUME NEW s \in Slots, PopupSendArm(s)
        PROVE  TypeOK'
    <3>1. [Idle EXCEPT !.kind = "arm", !.pc = "findScripts",
                       !.origin = popup.origin] \in Handler
      BY <2>5, IdleTyped
      DEF PopupSendArm, Idle, Handler, HandlerRecord, WellFormed
    <3>2. handler' \in [Slots -> Handler] /\ clashed' \in BOOLEAN
      BY <2>5, <3>1, BecomeTyped DEF PopupSendArm
    <3> QED
      BY <2>5, <3>2 DEF PopupSendArm
  <2>6. ASSUME NEW s \in Slots, PopupDisarm(s)
        PROVE  TypeOK'
    <3>1. [Idle EXCEPT !.kind = "getCaptures", !.pc = "getBuffer",
                       !.asker = TRUE] \in Handler
      BY IdleTyped DEF PopupDisarm, Idle, Handler, HandlerRecord, WellFormed
    <3>2. handler' \in [Slots -> Handler] /\ clashed' \in BOOLEAN
      BY <2>6, <3>1, BecomeTyped DEF PopupDisarm
    <3> QED
      BY <2>6, <3>2 DEF PopupDisarm
  <2>7. ASSUME NEW s \in Slots, PopupSendDisarm(s)
        PROVE  TypeOK'
    <3>1. [Idle EXCEPT !.kind = "disarm", !.pc = "findScripts"] \in Handler
      BY IdleTyped
      DEF PopupSendDisarm, Idle, Handler, HandlerRecord, WellFormed
    <3>2. handler' \in [Slots -> Handler] /\ clashed' \in BOOLEAN
      BY <2>7, <3>1, BecomeTyped DEF PopupSendDisarm, Begin, BeginDisarm
    <3> QED
      BY <2>7, <3>2 DEF PopupSendDisarm, Begin, BeginDisarm
  <2>8. ASSUME NEW s \in Slots, GetArmed(s)
        PROVE  TypeOK'
    <3>1. handler[s] \in Handler
      OBVIOUS
    <3>2. CASE armed.left = Past
      <4>1. [Idle EXCEPT !.kind = "disarm", !.pc = "findScripts",
                         !.asker = handler[s].asker] \in Handler
        BY <3>1, IdleTyped DEF Idle, Handler, HandlerRecord, WellFormed
      <4>2. handler' \in [Slots -> Handler] /\ clashed' \in BOOLEAN
        BY <2>8, <3>2, <4>1, BecomeTyped DEF GetArmed
      <4> QED
        BY <2>8, <3>2, <4>2 DEF GetArmed
    <3>3. CASE armed.left # Past /\ handler[s].kind = "capture"
               /\ armed # NotArmed
      <4>1. [handler[s] EXCEPT !.pc = "getBuffer"] \in Handler
        BY <3>1, <3>3 DEF Handler, HandlerRecord, WellFormed
      <4>2. handler' \in [Slots -> Handler] /\ clashed' \in BOOLEAN
        BY <2>8, <3>3, <4>1, BecomeTyped DEF GetArmed, Goto
      <4>3. handler[s].ceremony \in Ceremonies
        BY <3>1, <3>3 DEF Handler, HandlerRecord, WellFormed
      <4> QED
        BY <2>8, <3>3, <4>2, <4>3 DEF GetArmed
    <3>4. CASE armed.left # Past
               /\ (handler[s].kind = "capture" => armed = NotArmed)
      <4>1. handler' \in [Slots -> Handler] /\ clashed' \in BOOLEAN
        BY <2>8, <3>4, IdleTyped, BecomeTyped DEF GetArmed, Reply
      <4>2. armed.origin \in Origins \union {NoOrigin}
        OBVIOUS
      <4>3. popup' \in [pc: {"arm", "revoke"}, origin: Origins]
               \union [pc: {"idle", "ask", "disarm"}, origin: {NoOrigin}]
        BY <2>8, <3>4, <4>2 DEF GetArmed, Reply
      <4> QED
        BY <2>8, <3>4, <4>1, <4>3 DEF GetArmed
    <3> QED
      BY <2>8, <3>2, <3>3, <3>4 DEF GetArmed
  <2>9. ASSUME NEW s \in Slots, GetBuffer(s)
        PROVE  TypeOK'
    <3>1. handler[s] \in Handler
      OBVIOUS
    <3>2. \/ /\ handler[s].kind = "capture"
             /\ [handler[s] EXCEPT !.read = captures, !.pc = "setBuffer"]
                  \in Handler
          \/ /\ handler[s].kind # "capture"
             /\ [handler[s] EXCEPT !.pc = "getArmed"] \in Handler
      BY <3>1, <2>9, IdleTyped
      DEF GetBuffer, Idle, Handler, HandlerRecord, WellFormed
    <3>3. handler' \in [Slots -> Handler] /\ clashed' \in BOOLEAN
      BY <2>9, <3>2, BecomeTyped DEF GetBuffer, Goto
    <3> QED
      BY <2>9, <3>3 DEF GetBuffer, Goto
  <2>10. ASSUME NEW s \in Slots, SetBuffer(s)
         PROVE  TypeOK'
    <3>1. handler[s] \in Handler
      OBVIOUS
    <3>2. handler' \in [Slots -> Handler] /\ clashed' \in BOOLEAN
      BY <2>10, IdleTyped, BecomeTyped DEF SetBuffer, Finish, Reply
    <3>3. handler[s].ceremony \in Ceremonies
           /\ handler[s].read \in Seq(Ceremonies)
      BY <2>10, <3>1 DEF SetBuffer, Handler, HandlerRecord, WellFormed
    <3>4. captures' \in Seq(Ceremonies) /\ Len(captures') <= MaxCaptures
      BY <2>10, <3>3, NewestBounded DEF SetBuffer
    <3> QED
      BY <2>10, <3>2, <3>4 DEF SetBuffer, Finish, Reply
  <2>11. ASSUME NEW s \in Slots, FindScripts(s)
         PROVE  TypeOK'
    <3>1. handler[s] \in Handler
      OBVIOUS
    <3>2. [handler[s] EXCEPT !.found = scripts,
                             !.pc = "unregister"] \in Handler
      BY <3>1, <2>11, IdleTyped
      DEF FindScripts, Idle, Handler, HandlerRecord, WellFormed
    <3>3. handler' \in [Slots -> Handler] /\ clashed' \in BOOLEAN
      BY <2>11, <3>2, BecomeTyped DEF FindScripts
    <3> QED
      BY <2>11, <3>3 DEF FindScripts
  <2>12. ASSUME NEW s \in Slots, Unregister(s)
         PROVE  TypeOK'
    <3>1. handler[s] \in Handler
      OBVIOUS
    <3>2. [handler[s] EXCEPT !.pc = IF handler[s].kind = "arm" THEN "register"
                               ELSE "removeArmed"] \in Handler
      BY <3>1, <2>12, IdleTyped
      DEF Unregister, Idle, Handler, HandlerRecord, WellFormed
    <3>3. handler' \in [Slots -> Handler] /\ clashed' \in BOOLEAN
      BY <2>12, <3>2, BecomeTyped DEF Unregister, Goto
    <3> QED
      BY <2>12, <3>3 DEF Unregister, Goto
  <2>13. ASSUME NEW s \in Slots, Register(s)
         PROVE  TypeOK'
    <3>1. handler[s] \in Handler
      OBVIOUS
    <3>2. [handler[s] EXCEPT !.left = TTL, !.pc = "setArmed"] \in Handler
      <4>1. TTL \in Times /\ handler[s].pc = "register"
        BY <2>13 DEF Register
      <4> HIDE DEF Times
      <4> QED
        BY <3>1, <4>1 DEF Handler, HandlerRecord, WellFormed
    <3>3. handler' \in [Slots -> Handler] /\ clashed' \in BOOLEAN
      BY <2>13, <3>2, IdleTyped, BecomeTyped DEF Register, Finish, Reply
    <3>4. scripts' \in Origins \union {NoOrigin}
      BY <2>13, <3>1 DEF Register, Handler, HandlerRecord, WellFormed
    <3> QED
      BY <2>13, <3>3, <3>4 DEF Register, Finish, Reply
  <2>14. ASSUME NEW s \in Slots, SetArmed(s)
         PROVE  TypeOK'
    <3>1. handler[s] \in Handler
      OBVIOUS
    <3>2. [handler[s] EXCEPT !.pc = "clearAlarm"] \in Handler
      BY <3>1, <2>14, IdleTyped
      DEF SetArmed, Idle, Handler, HandlerRecord, WellFormed
    <3>3. handler' \in [Slots -> Handler] /\ clashed' \in BOOLEAN
      BY <2>14, <3>2, BecomeTyped DEF SetArmed, Goto
    <3>4. armed' \in [origin: Origins, left: Times]
      BY <2>14, <3>1 DEF SetArmed, Handler, HandlerRecord, WellFormed
    <3> QED
      BY <2>14, <3>3, <3>4 DEF SetArmed, Goto
  <2>15. ASSUME NEW s \in Slots, RemoveArmed(s)
         PROVE  TypeOK'
    <3>1. handler[s] \in Handler
      OBVIOUS
    <3>2. [handler[s] EXCEPT !.pc = "removeBuffer"] \in Handler
      BY <3>1, <2>15, IdleTyped
      DEF RemoveArmed, Idle, Handler, HandlerRecord, WellFormed
    <3>3. handler' \in [Slots -> Handler] /\ clashed' \in BOOLEAN
      BY <2>15, <3>2, BecomeTyped DEF RemoveArmed, Goto
    <3> QED
      BY <2>15, <3>3 DEF RemoveArmed, Goto
  <2>16. ASSUME NEW s \in Slots, RemoveBuffer(s)
         PROVE  TypeOK'
    <3>1. handler[s] \in Handler
      OBVIOUS
    <3>2. handler[s].kind # "clear" =>
            [handler[s] EXCEPT !.pc = "clearAlarm"] \in Handler
      BY <3>1, <2>16, IdleTyped
      DEF RemoveBuffer, Idle, Handler, HandlerRecord, WellFormed
    <3>3. handler' \in [Slots -> Handler] /\ clashed' \in BOOLEAN
      BY <2>16, <3>2, IdleTyped, BecomeTyped
      DEF RemoveBuffer, Goto, Finish, Reply
    <3> QED
      BY <2>16, <3>3 DEF RemoveBuffer, Goto, Finish, Reply
  <2>17. ASSUME NEW s \in Slots, ClearAlarm(s)
         PROVE  TypeOK'
    <3>1. handler[s] \in Handler
      OBVIOUS
    <3>2. [handler[s] EXCEPT !.pc = IF handler[s].kind = "arm"
                               THEN "createAlarm" ELSE "badge"] \in Handler
      BY <3>1, <2>17, IdleTyped
      DEF ClearAlarm, Idle, Handler, HandlerRecord, WellFormed
    <3>3. handler' \in [Slots -> Handler] /\ clashed' \in BOOLEAN
      BY <2>17, <3>2, BecomeTyped DEF ClearAlarm, Goto
    <3> QED
      BY <2>17, <3>3 DEF ClearAlarm, Goto
  <2>18. ASSUME NEW s \in Slots, CreateAlarm(s)
         PROVE  TypeOK'
    <3>1. handler[s] \in Handler
      OBVIOUS
    <3>2. [handler[s] EXCEPT !.pc = "badge"] \in Handler
      BY <3>1, <2>18, IdleTyped
      DEF CreateAlarm, Idle, Handler, HandlerRecord, WellFormed
    <3>3. handler' \in [Slots -> Handler] /\ clashed' \in BOOLEAN
      BY <2>18, <3>2, BecomeTyped DEF CreateAlarm, Goto
    <3>4. alarm' \in Times
      BY <2>18, <3>1 DEF CreateAlarm, Handler, HandlerRecord, WellFormed
    <3> QED
      BY <2>18, <3>3, <3>4 DEF CreateAlarm, Goto
  <2>19. ASSUME NEW s \in Slots, SetBadge(s)
         PROVE  TypeOK'
    <3>1. handler[s] \in Handler
      OBVIOUS
    <3>2. handler' \in [Slots -> Handler] /\ clashed' \in BOOLEAN
      BY <2>19, IdleTyped, BecomeTyped DEF SetBadge, Finish, Reply
    <3>3. badge' \in Origins \union {NoOrigin}
      BY <2>19, <3>1 DEF SetBadge, Handler, HandlerRecord, WellFormed
    <3> QED
      BY <2>19, <3>2, <3>3 DEF SetBadge, Finish, Reply
  <2>20. ASSUME NEW o \in Origins, PopupArm(o)
         PROVE  TypeOK'
    BY <2>20 DEF PopupArm
  <2>21. ASSUME PopupRevoke
         PROVE  TypeOK'
    BY <2>21 DEF PopupRevoke
  <2>22. ASSUME PopupClose
         PROVE  TypeOK'
    <3>1. \A s \in Slots : [handler[s] EXCEPT !.asker = FALSE] \in Handler
      <4> TAKE s \in Slots
      <4>1. handler[s] \in Handler
        OBVIOUS
      <4> QED
        BY <4>1 DEF Handler, HandlerRecord, WellFormed
    <3>2. handler' \in [Slots -> Handler]
      BY <2>22, <3>1 DEF PopupClose
    <3> QED
      BY <2>22, <3>2 DEF PopupClose
  <2>23. ASSUME LoadPage
         PROVE  TypeOK'
    BY <2>23 DEF LoadPage
  <2>24. ASSUME ClosePage
         PROVE  TypeOK'
    BY <2>24 DEF ClosePage
  <2>25. ASSUME Tick
         PROVE  TypeOK'
    <3>1. \A t \in Times : Older(t) \in Times
      BY DEF Older
    <3>2. \A s \in Slots :
            [handler[s] EXCEPT !.left = Older(handler[s].left)] \in Handler
      <4> TAKE s \in Slots
      <4>1. handler[s] \in Handler
        OBVIOUS
      <4>2. Older(handler[s].left) \in Times
        BY <3>1, <4>1 DEF Handler, HandlerRecord, WellFormed
      <4> HIDE DEF Times
      <4> QED
        BY <4>1, <4>2 DEF Handler, HandlerRecord, WellFormed
    <3>3. handler' \in [Slots -> Handler]
      BY <2>25, <3>2 DEF Tick
    <3>4. armed' \in {NotArmed} \union [origin: Origins, left: Times]
      BY <2>25, <3>1 DEF Tick, Older
    <3>5. alarm' \in Times \union {Never}
      BY <2>25, <3>1 DEF Tick, Older
    <3> QED
      BY <2>25, <3>3, <3>4, <3>5 DEF Tick
  <2>26. CASE UNCHANGED vars
    BY <2>26 DEF vars
  <2> QED
    BY <2>1, <2>2, <2>3, <2>4, <2>5, <2>6, <2>7, <2>8, <2>9, <2>10, <2>11,
       <2>12, <2>13, <2>14, <2>15, <2>16, <2>17, <2>18, <2>19, <2>20, <2>21,
       <2>22, <2>23, <2>24, <2>25, <2>26 DEF Next, Proceed
<1> QED
  BY <1>1, <1>2, PTL DEF Spec
(* A step that lets no capture handler past its getArmed(), begins none    *)
(* and adds to the buffer, or to a copy of it, only what was admitted.     *)
Harmless(g, h) ==
  /\ h.kind = "capture" => /\ g.kind = "capture"
                           /\ h.ceremony = g.ceremony
                           /\ h.pc = "getArmed" <=> g.pc = "getArmed"
  /\ h.read \in {g.read, captures, <<>>}

(* A step after which every handler is harmless and the buffer holds       *)
(* nothing new keeps what CapturesInv says.                                *)
LEMMA HarmlessStep ==
  ASSUME TypeOK, CapturesInv,
         \A t \in Slots : Harmless(handler[t], handler'[t]),
         \A i \in 1..Len(captures') : captures'[i] \in admitted,
         UNCHANGED <<sent, admitted>>
  PROVE  CapturesInv'
<1>1. \A t \in Slots :
        /\ Len(handler'[t].read) <= MaxCaptures
        /\ \A i \in 1..Len(handler'[t].read) : handler'[t].read[i] \in admitted
  <2> TAKE t \in Slots
  <2>1. CASE handler'[t].read = handler[t].read
    BY <2>1 DEF CapturesInv
  <2>2. CASE handler'[t].read = captures
    BY <2>2 DEF CapturesInv, TypeOK
  <2>3. CASE handler'[t].read = <<>>
    BY <2>3, ConstantsAssumption
  <2> QED
    BY <2>1, <2>2, <2>3 DEF Harmless
<1>2. CaptureHandlers' \subseteq CaptureHandlers
  BY DEF CaptureHandlers, Harmless
<1>3. \A s \in CaptureHandlers' :
        /\ handler'[s].ceremony = handler[s].ceremony
        /\ handler'[s].pc = "getArmed" <=> handler[s].pc = "getArmed"
  BY DEF CaptureHandlers, Harmless
<1> QED
  BY <1>1, <1>2, <1>3 DEF CapturesInv

(* One handler's harmless step leaves all of them harmless.                *)
LEMMA BecomeHarmless ==
  ASSUME TypeOK, NEW s \in Slots, NEW h, Become(s, h),
         Harmless(handler[s], h)
  PROVE  \A t \in Slots : Harmless(handler[t], handler'[t])
BY DEF Become, Harmless, TypeOK

(* Past getArmed() every capture handler holds an admitted ceremony of its *)
(* own, and nothing else reaches the buffer. (onMessage, "capture")        *)
THEOREM CapturesCorrect == Spec => []CapturesInv
<1>1. Init => CapturesInv
  BY ConstantsAssumption DEF Init, CapturesInv, CaptureHandlers, Idle
<1>2. TypeOK /\ TypeOK' /\ CapturesInv /\ [Next]_vars => CapturesInv'
  <2> SUFFICES ASSUME TypeOK, TypeOK', CapturesInv, [Next]_vars
               PROVE  CapturesInv'
    OBVIOUS
  <2> USE DEF store, browser
  <2>1. ASSUME NEW s \in Slots, NEW c \in Ceremonies, CaptureMessage(s, c)
        PROVE  CapturesInv'
    <3>1. handler' = [handler EXCEPT ![s] = [Idle EXCEPT
              !.kind = "capture", !.pc = "getArmed", !.ceremony = c]]
          /\ c \notin sent /\ sent' = sent \union {c}
          /\ UNCHANGED <<captures, admitted>>
      BY <2>1 DEF CaptureMessage, Become
    <3>2. /\ handler'[s].kind = "capture" /\ handler'[s].ceremony = c
          /\ handler'[s].pc = "getArmed" /\ handler'[s].read = <<>>
      BY <3>1 DEF TypeOK, Idle
    <3>3. \A t \in Slots \ {s} : handler'[t] = handler[t]
      BY <3>1 DEF TypeOK
    <3>4. CaptureHandlers' = CaptureHandlers \union {s}
          /\ \A t \in CaptureHandlers \ {s} : handler[t].ceremony # c
      BY <3>1, <3>2, <3>3 DEF CaptureHandlers, CapturesInv
    <3> HIDE DEF CaptureHandlers
    <3>5. \A t \in Slots :
            /\ Len(handler'[t].read) <= MaxCaptures
            /\ \A i \in 1..Len(handler'[t].read) :
                 handler'[t].read[i] \in admitted'
      BY <3>1, <3>2, <3>3, ConstantsAssumption DEF CapturesInv
    <3>6. \A t \in CaptureHandlers' :
            /\ handler'[t].ceremony \in sent'
            /\ handler'[t].pc = "getArmed" <=>
                 handler'[t].ceremony \notin admitted'
            /\ \A u \in CaptureHandlers' :
                 handler'[t].ceremony = handler'[u].ceremony => t = u
      <4>1. CaptureHandlers \subseteq Slots
        BY DEF CaptureHandlers
      <4> QED
        BY <4>1, <3>1, <3>2, <3>3, <3>4 DEF CapturesInv
    <3> QED
      BY <3>1, <3>5, <3>6 DEF CapturesInv
  <2>2. ASSUME NEW s \in Slots, GetArmed(s)
        PROVE  CapturesInv'
    <3>1. CASE admitted' = admitted
      <4>1. \A t \in Slots : Harmless(handler[t], handler'[t])
        <5>1. CASE Become(s, Idle)
          BY <5>1, BecomeHarmless DEF Idle, Harmless
        <5>2. CASE Become(s, [Idle EXCEPT !.kind = "disarm",
                    !.pc = "findScripts", !.asker = handler[s].asker])
          BY <5>2, BecomeHarmless DEF Idle, Harmless
        <5>3. CASE /\ handler[s].kind = "capture"
                   /\ admitted' = admitted \union {handler[s].ceremony}
          BY <2>2, <3>1, <5>3 DEF GetArmed, CapturesInv, CaptureHandlers
        <5> QED
          BY <2>2, <5>1, <5>2, <5>3 DEF GetArmed, Reply
      <4> QED
        BY <2>2, <3>1, <4>1, HarmlessStep DEF GetArmed, CapturesInv
    <3>2. CASE admitted' # admitted
      <4> DEFINE c == handler[s].ceremony
      <4>1. /\ handler[s].kind = "capture"
            /\ admitted' = admitted \union {c}
            /\ handler' = [handler EXCEPT
                            ![s] = [handler[s] EXCEPT !.pc = "getBuffer"]]
            /\ UNCHANGED <<captures, sent>>
        BY <2>2, <3>2 DEF GetArmed, Goto, Become
      <4>2. /\ handler'[s].kind = "capture" /\ handler'[s].ceremony = c
            /\ handler'[s].pc = "getBuffer"
            /\ handler'[s].read = handler[s].read
        BY <4>1 DEF TypeOK, Handler, HandlerRecord
      <4>3. \A t \in Slots \ {s} : handler'[t] = handler[t]
        BY <4>1 DEF TypeOK
      <4>4. CaptureHandlers' = CaptureHandlers /\ s \in CaptureHandlers
            /\ CaptureHandlers \subseteq Slots
        BY <4>1, <4>2, <4>3 DEF CaptureHandlers
      <4>5. \A t \in Slots : handler'[t].read = handler[t].read
        BY <4>2, <4>3
      <4>6. \A t \in CaptureHandlers \ {s} : handler[t].ceremony # c
        BY <4>4 DEF CapturesInv
      <4> HIDE DEF CaptureHandlers, c
      <4>7. \A t \in CaptureHandlers' :
              /\ handler'[t].ceremony = handler[t].ceremony
              /\ handler'[t].ceremony \in sent'
              /\ handler'[t].pc = "getArmed" <=>
                   handler'[t].ceremony \notin admitted'
        BY <4>1, <4>2, <4>3, <4>4, <4>6 DEF CapturesInv, c
      <4>8. admitted' \subseteq sent'
        BY <4>1, <4>4 DEF CapturesInv, c
      <4> QED
        BY <4>1, <4>4, <4>5, <4>7, <4>8 DEF CapturesInv
    <3> QED
      BY <3>1, <3>2
  <2>3. ASSUME NEW s \in Slots, SetBuffer(s)
        PROVE  CapturesInv'
    <3>1. handler[s].ceremony \in admitted
          /\ handler[s].ceremony \in Ceremonies
          /\ handler[s].read \in Seq(Ceremonies)
      BY <2>3 DEF SetBuffer, TypeOK, Handler, HandlerRecord, WellFormed,
                  CapturesInv, CaptureHandlers
    <3>2. \A i \in 1..Len(captures') : captures'[i] \in admitted
      BY <2>3, <3>1, NewestBounded DEF SetBuffer, CapturesInv
    <3>3. \A t \in Slots : Harmless(handler[t], handler'[t])
      BY <2>3 DEF SetBuffer, Finish, Reply, Become, Idle, TypeOK, Handler,
                  HandlerRecord, Harmless
    <3> QED
      BY <2>3, <3>2, <3>3, HarmlessStep DEF SetBuffer
  <2>4. ASSUME NEW s \in Slots, Restart(s)
        PROVE  CapturesInv'
    <3>1. \A t \in Slots : Harmless(handler[t], handler'[t])
      BY <2>4 DEF Restart, Idle, Harmless
    <3> QED
      BY <2>4, <3>1, HarmlessStep DEF Restart, CapturesInv
  <2>5. ASSUME NEW s \in Slots, BridgeMessage(s)
        PROVE  CapturesInv'
    <3>1. \A t \in Slots : Harmless(handler[t], handler'[t])
      <4>1. handler[s] \in Handler
        BY DEF TypeOK
      <4>2. CASE Become(s, [Idle EXCEPT !.kind = "getCaptures",
                                        !.pc = "getBuffer"])
        BY <4>2, BecomeHarmless DEF Idle, Harmless
      <4>3. CASE Become(s, [Idle EXCEPT !.kind = "clear",
                                        !.pc = "removeBuffer"])
        BY <4>3, BecomeHarmless DEF Idle, Harmless
      <4>4. CASE Become(s, [Idle EXCEPT !.kind = "disarm",
                                        !.pc = "findScripts"])
        BY <4>4, BecomeHarmless DEF Idle, Harmless
      <4> QED
        BY <2>5, <4>2, <4>3, <4>4 DEF BridgeMessage, Begin, BeginDisarm
    <3> QED
      BY <2>5, <3>1, HarmlessStep DEF BridgeMessage, CapturesInv
  <2>6. ASSUME NEW s \in Slots, OnAlarm(s)
        PROVE  CapturesInv'
    <3>1. \A t \in Slots : Harmless(handler[t], handler'[t])
      BY <2>6 DEF OnAlarm, Begin, BeginDisarm, Become, Idle,
                  TypeOK, Handler, HandlerRecord, WellFormed, Harmless
    <3> QED
      BY <2>6, <3>1, HarmlessStep DEF OnAlarm, CapturesInv
  <2>7. ASSUME NEW s \in Slots, PopupSendArm(s)
        PROVE  CapturesInv'
    <3>1. \A t \in Slots : Harmless(handler[t], handler'[t])
      BY <2>7 DEF PopupSendArm, Become, Idle,
                  TypeOK, Handler, HandlerRecord, WellFormed, Harmless
    <3> QED
      BY <2>7, <3>1, HarmlessStep DEF PopupSendArm, CapturesInv
  <2>8. ASSUME NEW s \in Slots, PopupDisarm(s)
        PROVE  CapturesInv'
    <3>1. \A t \in Slots : Harmless(handler[t], handler'[t])
      BY <2>8 DEF PopupDisarm, Become, Idle,
                  TypeOK, Handler, HandlerRecord, WellFormed, Harmless
    <3> QED
      BY <2>8, <3>1, HarmlessStep DEF PopupDisarm, CapturesInv
  <2>9. ASSUME NEW s \in Slots, PopupSendDisarm(s)
        PROVE  CapturesInv'
    <3>1. \A t \in Slots : Harmless(handler[t], handler'[t])
      BY <2>9 DEF PopupSendDisarm, Begin, BeginDisarm, Become, Idle,
                  TypeOK, Handler, HandlerRecord, WellFormed, Harmless
    <3> QED
      BY <2>9, <3>1, HarmlessStep DEF PopupSendDisarm, CapturesInv
  <2>10. ASSUME NEW s \in Slots, GetBuffer(s)
         PROVE  CapturesInv'
    <3>1. \A t \in Slots : Harmless(handler[t], handler'[t])
      <4>1. handler[s] \in Handler
        BY DEF TypeOK
      <4>2. CASE handler[s].pc = "getBuffer"
                 /\ Become(s, [handler[s] EXCEPT !.read = captures,
                                                 !.pc = "setBuffer"])
                 /\ handler[s].kind = "capture"
        <5>1. Harmless(handler[s], [handler[s] EXCEPT !.read = captures,
                                                      !.pc = "setBuffer"])
          BY <4>1, <4>2 DEF Handler, HandlerRecord, WellFormed, Harmless
        <5> QED
          BY <4>2, <5>1, BecomeHarmless
      <4>3. CASE handler[s].pc = "getBuffer"
                 /\ Become(s, [handler[s] EXCEPT !.pc = "getArmed"])
                 /\ handler[s].kind # "capture"
        <5>1. Harmless(handler[s], [handler[s] EXCEPT !.pc = "getArmed"])
          BY <4>1, <4>3 DEF Handler, HandlerRecord, WellFormed, Harmless
        <5> QED
          BY <4>3, <5>1, BecomeHarmless
      <4> QED
        BY <2>10, <4>2, <4>3 DEF GetBuffer, Goto
    <3> QED
      BY <2>10, <3>1, HarmlessStep DEF GetBuffer, CapturesInv
  <2>11. ASSUME NEW s \in Slots, FindScripts(s)
         PROVE  CapturesInv'
    <3>1. \A t \in Slots : Harmless(handler[t], handler'[t])
      BY <2>11 DEF FindScripts, Become, Idle,
                  TypeOK, Handler, HandlerRecord, WellFormed, Harmless
    <3> QED
      BY <2>11, <3>1, HarmlessStep DEF FindScripts, CapturesInv
  <2>12. ASSUME NEW s \in Slots, Unregister(s)
         PROVE  CapturesInv'
    <3>1. \A t \in Slots : Harmless(handler[t], handler'[t])
      BY <2>12 DEF Unregister, Goto, Become, Idle,
                  TypeOK, Handler, HandlerRecord, WellFormed, Harmless
    <3> QED
      BY <2>12, <3>1, HarmlessStep DEF Unregister, CapturesInv
  <2>13. ASSUME NEW s \in Slots, Register(s)
         PROVE  CapturesInv'
    <3>1. \A t \in Slots : Harmless(handler[t], handler'[t])
      <4>1. handler[s] \in Handler
        BY DEF TypeOK
      <4>2. CASE Become(s, Idle)
        BY <4>2, BecomeHarmless DEF Idle, Harmless
      <4>3. CASE handler[s].pc = "register"
                 /\ Become(s, [handler[s] EXCEPT !.left = TTL,
                                                 !.pc = "setArmed"])
        <5>1. Harmless(handler[s], [handler[s] EXCEPT !.left = TTL,
                                                      !.pc = "setArmed"])
          BY <4>1, <4>3 DEF Handler, HandlerRecord, WellFormed, Harmless
        <5> QED
          BY <4>3, <5>1, BecomeHarmless
      <4> QED
        BY <2>13, <4>2, <4>3 DEF Register, Finish, Reply
    <3> QED
      BY <2>13, <3>1, HarmlessStep DEF Register, CapturesInv
  <2>14. ASSUME NEW s \in Slots, SetArmed(s)
         PROVE  CapturesInv'
    <3>1. \A t \in Slots : Harmless(handler[t], handler'[t])
      BY <2>14 DEF SetArmed, Goto, Become, Idle,
                  TypeOK, Handler, HandlerRecord, WellFormed, Harmless
    <3> QED
      BY <2>14, <3>1, HarmlessStep DEF SetArmed, CapturesInv
  <2>15. ASSUME NEW s \in Slots, RemoveArmed(s)
         PROVE  CapturesInv'
    <3>1. \A t \in Slots : Harmless(handler[t], handler'[t])
      BY <2>15 DEF RemoveArmed, Goto, Become, Idle,
                  TypeOK, Handler, HandlerRecord, WellFormed, Harmless
    <3> QED
      BY <2>15, <3>1, HarmlessStep DEF RemoveArmed, CapturesInv
  <2>16. ASSUME NEW s \in Slots, RemoveBuffer(s)
         PROVE  CapturesInv'
    <3>1. \A t \in Slots : Harmless(handler[t], handler'[t])
      <4>1. handler[s] \in Handler
        BY DEF TypeOK
      <4>2. CASE Become(s, Idle)
        BY <4>2, BecomeHarmless DEF Idle, Harmless
      <4>3. CASE handler[s].pc = "removeBuffer"
                 /\ Become(s, [handler[s] EXCEPT !.pc = "clearAlarm"])
        <5>1. Harmless(handler[s], [handler[s] EXCEPT !.pc = "clearAlarm"])
          BY <4>1, <4>3 DEF Handler, HandlerRecord, WellFormed, Harmless
        <5> QED
          BY <4>3, <5>1, BecomeHarmless
      <4> QED
        BY <2>16, <4>2, <4>3 DEF RemoveBuffer, Goto, Finish, Reply
    <3> QED
      BY <2>16, <3>1, HarmlessStep DEF RemoveBuffer, CapturesInv
  <2>17. ASSUME NEW s \in Slots, ClearAlarm(s)
         PROVE  CapturesInv'
    <3>1. \A t \in Slots : Harmless(handler[t], handler'[t])
      BY <2>17 DEF ClearAlarm, Goto, Become, Idle,
                  TypeOK, Handler, HandlerRecord, WellFormed, Harmless
    <3> QED
      BY <2>17, <3>1, HarmlessStep DEF ClearAlarm, CapturesInv
  <2>18. ASSUME NEW s \in Slots, CreateAlarm(s)
         PROVE  CapturesInv'
    <3>1. \A t \in Slots : Harmless(handler[t], handler'[t])
      BY <2>18 DEF CreateAlarm, Goto, Become, Idle,
                  TypeOK, Handler, HandlerRecord, WellFormed, Harmless
    <3> QED
      BY <2>18, <3>1, HarmlessStep DEF CreateAlarm, CapturesInv
  <2>19. ASSUME NEW s \in Slots, SetBadge(s)
         PROVE  CapturesInv'
    <3>1. \A t \in Slots : Harmless(handler[t], handler'[t])
      BY <2>19 DEF SetBadge, Finish, Reply, Become, Idle,
                  TypeOK, Handler, HandlerRecord, WellFormed, Harmless
    <3> QED
      BY <2>19, <3>1, HarmlessStep DEF SetBadge, CapturesInv
  <2>20. ASSUME PopupClose
         PROVE  CapturesInv'
    <3>1. \A t \in Slots : Harmless(handler[t], handler'[t])
      BY <2>20 DEF PopupClose, TypeOK, Handler, HandlerRecord, Harmless
    <3> QED
      BY <2>20, <3>1, HarmlessStep DEF PopupClose, CapturesInv
  <2>21. ASSUME Tick
         PROVE  CapturesInv'
    <3>1. \A t \in Slots : Harmless(handler[t], handler'[t])
      BY <2>21 DEF Tick, TypeOK, Handler, HandlerRecord, Harmless
    <3> QED
      BY <2>21, <3>1, HarmlessStep DEF Tick, CapturesInv
  <2>22. CASE UNCHANGED <<handler, captures, sent, admitted>>
    BY <2>22 DEF CapturesInv, CaptureHandlers
  <2> QED
    BY <2>1, <2>2, <2>3, <2>4, <2>5, <2>6, <2>7, <2>8, <2>9, <2>10, <2>11,
       <2>12, <2>13, <2>14, <2>15, <2>16, <2>17, <2>18, <2>19, <2>20, <2>21,
       <2>22
    DEF Next, Proceed, PopupArm, PopupRevoke, LoadPage, ClosePage, vars,
        running
<1> QED
  BY <1>1, <1>2, TypeCorrect, PTL DEF Spec
(* Whatever the handlers interleave, every step of the extension is a step *)
(* of ObservationWindow or leaves it alone. (background.js, whole)         *)
THEOREM WindowImplemented == Spec => ImplementsWindow
<1> USE DEF store, browser, running
<1>1. Init => Observation!Init
  BY DEF Init, Observation!Init, Window
<1>2. ASSUME TypeOK, TypeOK', CapturesInv, CapturesInv', [Next]_vars
      PROVE  [Observation!Next]_(Observation!vars)
  <2> USE <1>2
  <2>1. ASSUME UNCHANGED <<armed, captures, admitted>>
        PROVE  [Observation!Next]_(Observation!vars)
    BY <2>1 DEF Observation!vars, Window
  <2>2. ASSUME captures' = <<>>, UNCHANGED <<armed, admitted>>
        PROVE  [Observation!Next]_(Observation!vars)
    BY <2>2 DEF Observation!Next, Observation!Forget, Window
  <2>3. ASSUME Window' \in Origins \union {NoOrigin, Window},
               UNCHANGED <<captures, admitted>>
        PROVE  [Observation!Next]_(Observation!vars)
    BY <2>3 DEF Observation!Next, Observation!Open, Observation!Close,
                Observation!vars
  <2>4. ASSUME NEW s \in Slots, GetArmed(s)
        PROVE  [Observation!Next]_(Observation!vars)
    <3>1. CASE UNCHANGED admitted
      BY <2>1, <2>4, <3>1 DEF GetArmed
    <3>2. CASE ~UNCHANGED admitted
      <4> DEFINE c == handler[s].ceremony
      <4>1. /\ handler[s].kind = "capture"
            /\ handler[s].pc = "getArmed"
            /\ armed.left # Past
            /\ armed # NotArmed
            /\ admitted' = admitted \union {c}
            /\ UNCHANGED <<armed, captures>>
        BY <2>4, <3>2 DEF GetArmed
      <4>2. c \in Ceremonies /\ c \notin admitted
        BY <4>1 DEF TypeOK, Handler, HandlerRecord, WellFormed, CapturesInv,
                    CaptureHandlers
      <4>3. Window # NoOrigin /\ Window' = Window
        BY <4>1, ConstantsAssumption DEF TypeOK, Window
      <4>4. Observation!Admit(c)
        BY <4>1, <4>2, <4>3 DEF Observation!Admit
      <4> QED
        BY <4>2, <4>4 DEF Observation!Next
    <3> QED
      BY <3>1, <3>2
  <2>5. ASSUME NEW s \in Slots, SetBuffer(s)
        PROVE  [Observation!Next]_(Observation!vars)
    <3>1. handler[s].ceremony \in Ceremonies
          /\ handler[s].read \in Seq(Ceremonies)
      BY <2>5 DEF SetBuffer, TypeOK, Handler, HandlerRecord, WellFormed
    <3>2. captures' # <<>> /\ Len(captures') <= MaxCaptures
      BY <2>5, <3>1, NewestBounded DEF SetBuffer
    <3>3. /\ UNCHANGED <<armed, admitted>>
          /\ \A i \in 1..Len(captures') : captures'[i] \in admitted
      BY <2>5 DEF SetBuffer, CapturesInv
    <3>4. Observation!Keep
      BY <3>2, <3>3 DEF Observation!Keep, Observation!KeptSet, Window
    <3> QED
      BY <3>4 DEF Observation!Next
  <2>6. ASSUME NEW s \in Slots, SetArmed(s)
        PROVE  [Observation!Next]_(Observation!vars)
    BY <2>3, <2>6 DEF SetArmed, Window, TypeOK
  <2>7. ASSUME NEW s \in Slots, RemoveArmed(s)
        PROVE  [Observation!Next]_(Observation!vars)
    BY <2>3, <2>7 DEF RemoveArmed, Window
  <2>8. ASSUME NEW s \in Slots, RemoveBuffer(s)
        PROVE  [Observation!Next]_(Observation!vars)
    BY <2>2, <2>8 DEF RemoveBuffer
  <2>9. CASE Tick
    <3>1. Window' \in {NoOrigin, Window}
      BY <2>9, ConstantsAssumption DEF Tick, Window, Older, TypeOK
    <3> QED
      BY <2>3, <2>9, <3>1 DEF Tick
  <2>10. ASSUME NEW s \in Slots,
                \/ BridgeMessage(s) \/ OnAlarm(s) \/ Restart(s)
                \/ PopupSendArm(s) \/ PopupDisarm(s) \/ PopupSendDisarm(s)
                \/ GetBuffer(s) \/ FindScripts(s) \/ Unregister(s)
                \/ Register(s) \/ ClearAlarm(s) \/ CreateAlarm(s)
                \/ SetBadge(s)
         PROVE  [Observation!Next]_(Observation!vars)
    BY <2>1, <2>10
    DEF BridgeMessage, OnAlarm, Restart, PopupSendArm, PopupDisarm,
        PopupSendDisarm, GetBuffer, FindScripts, Unregister, Register,
        ClearAlarm, CreateAlarm, SetBadge
  <2>11. ASSUME NEW s \in Slots, NEW c \in Ceremonies, CaptureMessage(s, c)
         PROVE  [Observation!Next]_(Observation!vars)
    BY <2>1, <2>11 DEF CaptureMessage
  <2>12. CASE \/ \E o \in Origins : PopupArm(o)
              \/ PopupRevoke \/ PopupClose \/ LoadPage \/ ClosePage
              \/ UNCHANGED vars
    BY <2>1, <2>12 DEF PopupArm, PopupRevoke, PopupClose, LoadPage, ClosePage,
                       vars
  <2> QED
    BY <2>4, <2>5, <2>6, <2>7, <2>8, <2>9, <2>10, <2>11, <2>12
    DEF Next, Proceed
<1> QED
  BY <1>1, <1>2, TypeCorrect, CapturesCorrect, PTL
  DEF Spec, ImplementsWindow, Observation!Spec

---------------------------------------------------------------------------
(* The four records of a window.                                           *)

(* What a quiet worker leaves.                                             *)
Agree ==
  /\ scripts = armed.origin /\ badge = armed.origin
  /\ armed # NotArmed => alarm = armed.left
  /\ armed = NotArmed => alarm = Never

(* How far the disarm() that goes on as h has got: what it has undone      *)
(* stays undone, whoever else disarms.                                     *)
DisarmStage(h, sc, ar, al) ==
  /\ h.pc = "unregister" /\ h.found = NoOrigin => sc = NoOrigin
  /\ h.pc \in {"removeArmed", "removeBuffer", "clearAlarm", "badge"} =>
       sc = NoOrigin
  /\ h.pc \in {"removeBuffer", "clearAlarm", "badge"} => ar = NotArmed
  /\ h.pc = "badge" => al = Never

(* How far the arm() that goes on as h has got.                            *)
ArmStage(h, sc, ar, al) ==
  /\ h.pc = "unregister" => h.found = sc
  /\ h.pc = "register" => sc = NoOrigin
  /\ h.pc \in {"setArmed", "clearAlarm", "createAlarm", "badge"} =>
       sc = h.origin
  /\ h.pc \in {"clearAlarm", "createAlarm", "badge"} =>
       ar = [origin |-> h.origin, left |-> h.left]
  /\ h.pc = "badge" => al = h.left

(* No arm() has company, every arm() and disarm() has done what it went    *)
(* through, and the records agree unless one of them is under way.         *)
Order ==
  /\ ~Clash
  /\ \A s \in Slots : handler[s].kind = "disarm" =>
       DisarmStage(handler[s], scripts, armed, alarm)
  /\ \A s \in Slots : handler[s].kind = "arm" =>
       ArmStage(handler[s], scripts, armed, alarm)
  /\ (\A s \in Slots : handler[s].kind \notin {"arm", "disarm"}) => Agree

(* A clash may leave the four in any state; an arm() or a disarm() that    *)
(* begins on its own sets out to change all of them.                       *)
Orderly == ~clashed => Order

NoArmBut(s) == \A t \in Slots : t # s => handler[t].kind # "arm"

NoChangeBut(s) ==
  \A t \in Slots : t # s => handler[t].kind \notin {"arm", "disarm"}

(* Without a clash a disarm() has no arm() beside it, and an arm() neither.*)
LEMMA CompanyNow ==
  ASSUME Order, NEW s \in Slots
  PROVE  /\ handler[s].kind = "disarm" => NoArmBut(s)
         /\ handler[s].kind = "arm" => NoChangeBut(s)
BY DEF Order, Clash, Changing, NoArmBut, NoChangeBut

LEMMA CompanyNext ==
  ASSUME TypeOK, ~Clash', NEW s \in Slots, NEW h, Become(s, h)
  PROVE  /\ h.kind = "disarm" => NoArmBut(s)
         /\ h.kind = "arm" => NoChangeBut(s)
<1>1. handler'[s] = h /\ \A t \in Slots : t # s => handler'[t] = handler[t]
  BY DEF Become, TypeOK
<1> QED
  BY <1>1 DEF Clash, Changing, NoArmBut, NoChangeBut

(* One that begins by itself has done nothing yet.                         *)
LEMMA AloneStep ==
  ASSUME Alone'
  PROVE  Order'
<1>1. PICK s \in Slots :
        /\ handler'[s].kind \in {"arm", "disarm"}
        /\ handler'[s].pc = "findScripts"
        /\ \A t \in Slots : handler'[t].kind \in {"arm", "disarm"} => t = s
  BY DEF Alone, Changing
<1>2. ~Clash'
  BY <1>1 DEF Clash, Changing
<1>3. \A t \in Slots :
        /\ handler'[t].kind = "disarm" =>
             DisarmStage(handler'[t], scripts', armed', alarm')
        /\ handler'[t].kind = "arm" =>
             ArmStage(handler'[t], scripts', armed', alarm')
  BY <1>1 DEF DisarmStage, ArmStage
<1> QED
  BY <1>1, <1>2, <1>3 DEF Order

(* A handler that is neither changes nothing of it.                        *)
LEMMA OtherStep ==
  ASSUME TypeOK, Order, NEW s \in Slots, NEW h, Become(s, h),
         handler[s].kind \notin {"arm", "disarm"},
         h.kind \notin {"arm", "disarm"},
         UNCHANGED <<armed, scripts, alarm, badge>>
  PROVE  Order'
<1>1. handler'[s] = h /\ \A t \in Slots : t # s => handler'[t] = handler[t]
  BY DEF Become, TypeOK
<1>2. Changing' = Changing
      /\ \A t \in Changing : handler'[t] = handler[t]
  BY <1>1 DEF Changing
<1>3. ~Clash'
  BY <1>2 DEF Order, Clash
<1>4. \A t \in Slots : handler'[t].kind \in {"arm", "disarm"} =>
        handler'[t] = handler[t]
  BY <1>1
<1>5. (\A t \in Slots : handler'[t].kind \notin {"arm", "disarm"}) => Agree
  BY <1>1 DEF Order
<1>6. Agree' = Agree
  BY DEF Agree
<1> QED
  BY <1>3, <1>4, <1>5, <1>6 DEF Order

(* What one disarm() undoes no other needs.                                *)
LEMMA UndoStep ==
  ASSUME TypeOK, Order, NEW s \in Slots, NoArmBut(s), NEW h, Become(s, h),
         h.kind = "disarm", scripts' \in {scripts, NoOrigin},
         armed' \in {armed, NotArmed}, alarm' \in {alarm, Never},
         DisarmStage(h, scripts', armed', alarm')
  PROVE  Order'
<1>1. handler'[s] = h /\ \A t \in Slots : t # s => handler'[t] = handler[t]
  BY DEF Become, TypeOK
<1>2. \A t \in Slots : handler'[t].kind # "arm"
  BY <1>1 DEF NoArmBut
<1>3. ASSUME NEW t \in Slots, handler'[t].kind = "disarm"
      PROVE  DisarmStage(handler'[t], scripts', armed', alarm')
  <2>1. CASE t = s
    BY <1>1, <2>1
  <2>2. CASE t # s
    <3>1. DisarmStage(handler[t], scripts, armed, alarm)
      BY <1>1, <1>3, <2>2 DEF Order
    <3>2. handler'[t] = handler[t]
      BY <1>1, <2>2
    <3> QED
      BY <3>1, <3>2 DEF DisarmStage
  <2> QED
    BY <2>1, <2>2
<1>4. ~Clash'
  BY <1>2 DEF Clash, Changing
<1> QED
  BY <1>1, <1>2, <1>3, <1>4 DEF Order

(* Once a disarm() has ended everything is undone.                         *)
LEMMA UndoneStep ==
  ASSUME TypeOK, Order, NEW s \in Slots, Become(s, Idle),
         handler[s].kind = "disarm", handler[s].pc = "badge",
         badge' = NoOrigin, UNCHANGED <<armed, scripts, alarm>>
  PROVE  Order'
<1>1. handler'[s] = Idle /\ \A t \in Slots : t # s => handler'[t] = handler[t]
  BY DEF Become, TypeOK
<1>2. \A t \in Slots : /\ handler'[t].kind # "arm"
                       /\ handler'[t].kind = "disarm" =>
                            handler'[t] = handler[t]
  BY <1>1, CompanyNow DEF NoArmBut, Idle
<1>3. scripts = NoOrigin /\ armed = NotArmed /\ alarm = Never
  BY DEF Order, DisarmStage
<1>4. Agree'
  BY <1>3 DEF Agree
<1>5. ~Clash'
  BY <1>2 DEF Clash, Changing
<1> QED
  BY <1>2, <1>4, <1>5 DEF Order

(* An arm() that goes on has no other change beside what it has done.      *)
LEMMA ArmStep ==
  ASSUME TypeOK, NEW s \in Slots, NEW h, Become(s, h), h.kind = "arm",
         NoChangeBut(s), ArmStage(h, scripts', armed', alarm')
  PROVE  Order'
<1>1. /\ handler'[s] = h
      /\ \A t \in Slots : t # s => handler'[t].kind \notin {"arm", "disarm"}
  BY DEF Become, TypeOK, NoChangeBut
<1>2. ~Clash'
  BY <1>1 DEF Clash, Changing
<1> QED
  BY <1>1, <1>2 DEF Order

(* An arm() that ended has left the four in agreement.                     *)
LEMMA ArmedStep ==
  ASSUME TypeOK, NEW s \in Slots, Become(s, Idle), handler[s].kind = "arm",
         handler[s].pc = "badge", badge' = handler[s].origin,
         UNCHANGED <<armed, scripts, alarm>>,
         ArmStage(handler[s], scripts, armed, alarm), NoChangeBut(s)
  PROVE  Order'
<1>1. \A t \in Slots : handler'[t].kind \notin {"arm", "disarm"}
  BY DEF Become, TypeOK, NoChangeBut, Idle
<1>2. handler[s].origin # NoOrigin
  BY DEF TypeOK, Handler, WellFormed
<1>3. /\ scripts = handler[s].origin /\ alarm = handler[s].left
      /\ armed = [origin |-> handler[s].origin, left |-> handler[s].left]
  BY DEF ArmStage
<1>4. Agree'
  BY <1>2, <1>3 DEF Agree
<1>5. ~Clash'
  BY <1>1 DEF Clash, Changing
<1> QED
  BY <1>1, <1>4, <1>5 DEF Order

(* A handler begins.                                                       *)
LEMMA BeginsOrderly ==
  ASSUME TypeOK, Order, ~Clash', NEW s \in Slots,
         \/ \E c \in Ceremonies : CaptureMessage(s, c)
         \/ BridgeMessage(s) \/ OnAlarm(s)
         \/ PopupSendArm(s) \/ PopupDisarm(s) \/ PopupSendDisarm(s)
  PROVE  Order'
<1> USE DEF store, browser
<1>a. Idle.kind = "none" /\ Idle.pc = "idle"
  BY DEF Idle
<1>b. MayBegin(s) => handler[s].kind \notin {"arm", "disarm"}
  BY <1>a DEF MayBegin
<1> DEFINE d == [Idle EXCEPT !.kind = "disarm", !.pc = "findScripts"]
<1>d. d.kind = "disarm" /\ d.pc = "findScripts"
  BY DEF Idle
<1>1. ASSUME NEW c \in Ceremonies, CaptureMessage(s, c)
      PROVE  Order'
  <2> DEFINE h == [Idle EXCEPT !.kind = "capture", !.pc = "getArmed",
                               !.ceremony = c]
  <2>1. h.kind = "capture"
    BY DEF Idle
  <2>2. /\ MayBegin(s) /\ Become(s, h)
        /\ UNCHANGED <<armed, scripts, alarm, badge>>
    BY <1>1 DEF CaptureMessage
  <2> HIDE DEF h
  <2> QED
    BY <1>b, <2>1, <2>2, OtherStep
<1>2. ASSUME Begin(s, "getCaptures", "getBuffer")
               \/ Begin(s, "clear", "removeBuffer"),
             MayBegin(s), UNCHANGED <<armed, scripts, alarm, badge>>
      PROVE  Order'
  <2>1. PICK k \in {"getCaptures", "clear"}, pc \in HandlerPCs :
          Become(s, [Idle EXCEPT !.kind = k, !.pc = pc])
    BY <1>2 DEF Begin
  <2> DEFINE h == [Idle EXCEPT !.kind = k, !.pc = pc]
  <2>2. h.kind = k
    BY DEF Idle
  <2>3. Become(s, h)
    BY <2>1
  <2> HIDE DEF h
  <2> QED
    BY <1>2, <1>b, <2>2, <2>3, OtherStep
<1>3. ASSUME BeginDisarm(s), MayBegin(s), alarm' \in {alarm, Never},
             UNCHANGED <<armed, scripts>>
      PROVE  Order'
  <2>1. Become(s, d)
    BY <1>3 DEF BeginDisarm, Begin
  <2>2. DisarmStage(d, scripts', armed', alarm')
    BY <1>d DEF DisarmStage
  <2> HIDE DEF d
  <2> QED
    BY <1>3, <1>d, <2>1, <2>2, CompanyNext, UndoStep
<1>4. CASE BridgeMessage(s)
  BY <1>2, <1>3, <1>4 DEF BridgeMessage
<1>5. CASE OnAlarm(s)
  BY <1>3, <1>5 DEF OnAlarm
<1>6. CASE PopupSendDisarm(s)
  BY <1>3, <1>6 DEF PopupSendDisarm
<1>7. CASE PopupDisarm(s)
  <2> DEFINE h == [Idle EXCEPT !.kind = "getCaptures", !.pc = "getBuffer",
                               !.asker = TRUE]
  <2>1. h.kind = "getCaptures"
    BY DEF Idle
  <2>2. /\ MayBegin(s) /\ Become(s, h)
        /\ UNCHANGED <<armed, scripts, alarm, badge>>
    BY <1>7 DEF PopupDisarm
  <2> HIDE DEF h
  <2> QED
    BY <1>b, <2>1, <2>2, OtherStep
<1>8. CASE PopupSendArm(s)
  <2> DEFINE h == [Idle EXCEPT !.kind = "arm", !.pc = "findScripts",
                               !.origin = popup.origin]
  <2>1. h.kind = "arm" /\ h.pc = "findScripts"
    BY DEF Idle
  <2>2. Become(s, h)
    BY <1>8 DEF PopupSendArm
  <2>3. ArmStage(h, scripts', armed', alarm')
    BY <2>1 DEF ArmStage
  <2> HIDE DEF h
  <2> QED
    BY <2>1, <2>2, <2>3, CompanyNext, ArmStep
<1> QED
  BY <1>1, <1>4, <1>5, <1>6, <1>7, <1>8

(* A restart leaves nothing but the disarm() of onStartup.                 *)
LEMMA RestartOrderly ==
  ASSUME NEW s \in Slots, Restart(s)
  PROVE  Order'
<1> DEFINE d == [Idle EXCEPT !.kind = "disarm", !.pc = "findScripts"]
<1>1. d.kind = "disarm" /\ d.pc = "findScripts" /\ Idle.kind = "none"
  BY DEF Idle
<1>2. \A t \in Slots : handler'[t] = IF t = s THEN d ELSE Idle
  BY DEF Restart
<1> HIDE DEF d
<1>3. Changing' = {s} /\ handler'[s].pc = "findScripts"
  BY <1>1, <1>2 DEF Changing
<1> QED
  BY <1>3, AloneStep DEF Alone

(* A handler that reads or writes the buffer goes on, or finds the window  *)
(* expired and disarms.                                                    *)
LEMMA ReadsOrderly ==
  ASSUME TypeOK, Order, ~Clash', NEW s \in Slots,
         \/ GetArmed(s) \/ GetBuffer(s) \/ SetBuffer(s)
         \/ RemoveBuffer(s) /\ handler[s].kind = "clear"
  PROVE  Order'
<1> USE DEF store
<1>1. handler[s].kind \in {"capture", "getCaptures", "clear"}
  BY DEF GetArmed, GetBuffer, SetBuffer, TypeOK, Handler, HandlerRecord,
         WellFormed
<1>3. UNCHANGED <<armed, scripts, alarm, badge>>
  BY DEF GetArmed, GetBuffer, SetBuffer, RemoveBuffer
<1>4. CASE Become(s, Idle)
  <2>1. Idle.kind = "none"
    BY DEF Idle
  <2> QED
    BY <1>1, <1>3, <1>4, <2>1, OtherStep
<1>5. CASE Become(s, [Idle EXCEPT !.kind = "disarm", !.pc = "findScripts",
                                  !.asker = handler[s].asker])
  <2> DEFINE d == [Idle EXCEPT !.kind = "disarm", !.pc = "findScripts",
                               !.asker = handler[s].asker]
  <2>1. d.kind = "disarm" /\ d.pc = "findScripts"
    BY DEF Idle
  <2>2. DisarmStage(d, scripts', armed', alarm')
    BY <2>1 DEF DisarmStage
  <2>3. Become(s, d)
    BY <1>5
  <2> HIDE DEF d
  <2> QED
    BY <1>3, <2>1, <2>2, <2>3, CompanyNext, UndoStep
<1>6. CASE \E pc \in HandlerPCs : Goto(s, pc)
  <2>1. PICK pc \in HandlerPCs : Become(s, [handler[s] EXCEPT !.pc = pc])
    BY <1>6 DEF Goto
  <2> DEFINE h == [handler[s] EXCEPT !.pc = pc]
  <2>2. h.kind = handler[s].kind
    BY DEF TypeOK, Handler, HandlerRecord
  <2>3. Become(s, h)
    BY <2>1
  <2> HIDE DEF h
  <2> QED
    BY <1>1, <1>3, <2>2, <2>3, OtherStep
<1>7. CASE Become(s, [handler[s] EXCEPT !.read = captures, !.pc = "setBuffer"])
  <2> DEFINE h == [handler[s] EXCEPT !.read = captures, !.pc = "setBuffer"]
  <2>1. h.kind = handler[s].kind
    BY DEF TypeOK, Handler, HandlerRecord
  <2>2. Become(s, h)
    BY <1>7
  <2> HIDE DEF h
  <2> QED
    BY <1>1, <1>3, <2>1, <2>2, OtherStep
<1> QED
  BY <1>4, <1>5, <1>6, <1>7
     DEF GetArmed, GetBuffer, SetBuffer, RemoveBuffer, Finish, Reply

(* The next call of a disarm().                                            *)
LEMMA DisarmsOrderly ==
  ASSUME TypeOK, Order, NEW s \in Slots, Proceed(s),
         handler[s].kind = "disarm"
  PROVE  Order'
<1> USE DEF store
<1> DEFINE g == handler[s]
<1>a. NoArmBut(s)
  BY CompanyNow
<1>b. g \in HandlerRecord /\ g.origin = NoOrigin
      /\ g.pc \in {"findScripts", "unregister", "removeArmed", "removeBuffer",
                   "clearAlarm", "badge"}
  BY DEF TypeOK, Handler, WellFormed
<1>c. DisarmStage(g, scripts, armed, alarm)
  BY DEF Order
<1>d. \A pc \in HandlerPCs : LET h == [g EXCEPT !.pc = pc]
                             IN h.kind = "disarm" /\ h.pc = pc
                                /\ h.found = g.found
  BY <1>b DEF HandlerRecord
<1>1. CASE FindScripts(s)
  <2> DEFINE h == [g EXCEPT !.found = scripts, !.pc = "unregister"]
  <2>1. h.kind = "disarm" /\ h.pc = "unregister" /\ h.found = scripts
    BY <1>b DEF HandlerRecord
  <2>2. Become(s, h) /\ UNCHANGED <<scripts, armed, alarm>>
    BY <1>1 DEF FindScripts
  <2>3. DisarmStage(h, scripts', armed', alarm')
    BY <2>1, <2>2 DEF DisarmStage
  <2> HIDE DEF h
  <2> QED
    BY <1>a, <2>1, <2>2, <2>3, UndoStep
<1>2. CASE Unregister(s)
  <2> DEFINE h == [g EXCEPT !.pc = "removeArmed"]
  <2>1. h.kind = "disarm" /\ h.pc = "removeArmed"
    BY <1>d
  <2>2. /\ Become(s, h) /\ UNCHANGED <<armed, alarm>>
        /\ scripts' = NoOrigin
    BY <1>2, <1>c DEF Unregister, Goto, DisarmStage
  <2>3. DisarmStage(h, scripts', armed', alarm')
    BY <2>1, <2>2 DEF DisarmStage
  <2> HIDE DEF h
  <2> QED
    BY <1>a, <2>1, <2>2, <2>3, UndoStep
<1>3. CASE RemoveArmed(s)
  <2> DEFINE h == [g EXCEPT !.pc = "removeBuffer"]
  <2>1. h.kind = "disarm" /\ h.pc = "removeBuffer"
    BY <1>d
  <2>2. /\ Become(s, h) /\ UNCHANGED <<scripts, alarm>>
        /\ armed' = NotArmed /\ scripts = NoOrigin
    BY <1>3, <1>c DEF RemoveArmed, Goto, DisarmStage
  <2>3. DisarmStage(h, scripts', armed', alarm')
    BY <2>1, <2>2 DEF DisarmStage
  <2> HIDE DEF h
  <2> QED
    BY <1>a, <2>1, <2>2, <2>3, UndoStep
<1>4. CASE RemoveBuffer(s)
  <2> DEFINE h == [g EXCEPT !.pc = "clearAlarm"]
  <2>1. h.kind = "disarm" /\ h.pc = "clearAlarm"
    BY <1>d
  <2>2. /\ Become(s, h) /\ UNCHANGED <<scripts, armed, alarm>>
        /\ armed = NotArmed /\ scripts = NoOrigin
    BY <1>4, <1>c DEF RemoveBuffer, Goto, DisarmStage
  <2>3. DisarmStage(h, scripts', armed', alarm')
    BY <2>1, <2>2 DEF DisarmStage
  <2> HIDE DEF h
  <2> QED
    BY <1>a, <2>1, <2>2, <2>3, UndoStep
<1>5. CASE ClearAlarm(s)
  <2> DEFINE h == [g EXCEPT !.pc = "badge"]
  <2>1. h.kind = "disarm" /\ h.pc = "badge"
    BY <1>d
  <2>2. /\ Become(s, h) /\ UNCHANGED <<scripts, armed>> /\ alarm' = Never
        /\ armed = NotArmed /\ scripts = NoOrigin
    BY <1>5, <1>c DEF ClearAlarm, Goto, DisarmStage
  <2>3. DisarmStage(h, scripts', armed', alarm')
    BY <2>1, <2>2 DEF DisarmStage
  <2> HIDE DEF h
  <2> QED
    BY <1>a, <2>1, <2>2, <2>3, UndoStep
<1>6. CASE SetBadge(s)
  BY <1>6, <1>b, UndoneStep DEF SetBadge, Finish, Reply
<1> QED
  BY <1>b, <1>1, <1>2, <1>3, <1>4, <1>5, <1>6
     DEF Proceed, GetArmed, GetBuffer, SetBuffer, Register, SetArmed,
         CreateAlarm

(* The next call of an arm(): it always finds what it registers gone.      *)
LEMMA ArmsOrderly ==
  ASSUME TypeOK, Order, NEW s \in Slots, Proceed(s),
         handler[s].kind = "arm"
  PROVE  Order'
<1> USE DEF store
<1> DEFINE g == handler[s]
<1>a. NoChangeBut(s)
  BY CompanyNow
<1>b. g \in HandlerRecord
      /\ g.pc \in {"findScripts", "unregister", "register", "setArmed",
                   "clearAlarm", "createAlarm", "badge"}
  BY DEF TypeOK, Handler, WellFormed
<1>c. ArmStage(g, scripts, armed, alarm)
  BY DEF Order
<1>d. \A pc \in HandlerPCs : LET h == [g EXCEPT !.pc = pc]
                             IN /\ h.kind = "arm" /\ h.pc = pc
                                /\ h.found = g.found /\ h.left = g.left
                                /\ h.origin = g.origin
  BY <1>b DEF HandlerRecord
<1>1. CASE FindScripts(s)
  <2> DEFINE h == [g EXCEPT !.found = scripts, !.pc = "unregister"]
  <2>1. h.kind = "arm" /\ h.pc = "unregister" /\ h.found = scripts
    BY <1>b DEF HandlerRecord
  <2>2. Become(s, h) /\ UNCHANGED <<scripts, armed, alarm>>
    BY <1>1 DEF FindScripts
  <2>3. ArmStage(h, scripts', armed', alarm')
    BY <2>1, <2>2 DEF ArmStage
  <2> HIDE DEF h
  <2> QED
    BY <1>a, <2>1, <2>2, <2>3, ArmStep
<1>2. CASE Unregister(s)
  <2> DEFINE h == [g EXCEPT !.pc = "register"]
  <2>1. h.kind = "arm" /\ h.pc = "register"
    BY <1>d
  <2>2. Become(s, h) /\ scripts' = NoOrigin
    BY <1>2, <1>c DEF Unregister, Goto, ArmStage
  <2>3. ArmStage(h, scripts', armed', alarm')
    BY <2>1, <2>2 DEF ArmStage
  <2> HIDE DEF h
  <2> QED
    BY <1>a, <2>1, <2>2, <2>3, ArmStep
<1>3. CASE Register(s)
  <2> DEFINE h == [g EXCEPT !.left = TTL, !.pc = "setArmed"]
  <2>1. h.kind = "arm" /\ h.pc = "setArmed" /\ h.origin = g.origin
    BY <1>b DEF HandlerRecord
  <2>2. Become(s, h) /\ scripts' = g.origin
    BY <1>3, <1>c DEF Register, ArmStage
  <2>3. ArmStage(h, scripts', armed', alarm')
    BY <2>1, <2>2 DEF ArmStage
  <2> HIDE DEF h
  <2> QED
    BY <1>a, <2>1, <2>2, <2>3, ArmStep
<1>4. CASE SetArmed(s)
  <2> DEFINE h == [g EXCEPT !.pc = "clearAlarm"]
  <2>1. h.kind = "arm" /\ h.pc = "clearAlarm" /\ h.origin = g.origin
        /\ h.left = g.left
    BY <1>d
  <2>2. /\ Become(s, h) /\ scripts' = g.origin
        /\ armed' = [origin |-> g.origin, left |-> g.left]
    BY <1>4, <1>c DEF SetArmed, Goto, ArmStage
  <2>3. ArmStage(h, scripts', armed', alarm')
    BY <2>1, <2>2 DEF ArmStage
  <2> HIDE DEF h
  <2> QED
    BY <1>a, <2>1, <2>2, <2>3, ArmStep
<1>5. CASE ClearAlarm(s)
  <2> DEFINE h == [g EXCEPT !.pc = "createAlarm"]
  <2>1. h.kind = "arm" /\ h.pc = "createAlarm" /\ h.origin = g.origin
        /\ h.left = g.left
    BY <1>d
  <2>2. Become(s, h) /\ UNCHANGED <<scripts, armed>> /\ g.pc = "clearAlarm"
    BY <1>5 DEF ClearAlarm, Goto
  <2>3. ArmStage(h, scripts', armed', alarm')
    BY <1>c, <2>1, <2>2 DEF ArmStage
  <2> HIDE DEF h
  <2> QED
    BY <1>a, <2>1, <2>2, <2>3, ArmStep
<1>6. CASE CreateAlarm(s)
  <2> DEFINE h == [g EXCEPT !.pc = "badge"]
  <2>1. h.kind = "arm" /\ h.pc = "badge" /\ h.origin = g.origin
        /\ h.left = g.left
    BY <1>d
  <2>2. /\ Become(s, h) /\ UNCHANGED <<scripts, armed>>
        /\ alarm' = g.left /\ g.pc = "createAlarm"
    BY <1>6 DEF CreateAlarm, Goto
  <2>3. ArmStage(h, scripts', armed', alarm')
    BY <1>c, <2>1, <2>2 DEF ArmStage
  <2> HIDE DEF h
  <2> QED
    BY <1>a, <2>1, <2>2, <2>3, ArmStep
<1>7. CASE SetBadge(s)
  BY <1>7, <1>a, <1>c, ArmedStep DEF SetBadge, Finish, Reply
<1> QED
  BY <1>b, <1>1, <1>2, <1>3, <1>4, <1>5, <1>6, <1>7
     DEF Proceed, GetArmed, GetBuffer, SetBuffer, RemoveArmed, RemoveBuffer

(* A popup that goes takes nothing with it but its question.               *)
LEMMA CloseOrderly ==
  ASSUME TypeOK, Order, PopupClose
  PROVE  Order'
<1>1. \A s \in Slots :
        /\ handler'[s].kind = handler[s].kind /\ handler'[s].pc = handler[s].pc
        /\ handler'[s].found = handler[s].found
        /\ handler'[s].origin = handler[s].origin
        /\ handler'[s].left = handler[s].left
  BY DEF PopupClose, TypeOK, Handler, HandlerRecord
<1>3. UNCHANGED <<armed, scripts, alarm, badge>>
  BY DEF PopupClose, store
<1>4. ~Clash'
  BY <1>1 DEF Order, Clash, Changing
<1>5. ASSUME NEW s \in Slots, handler'[s].kind = "disarm"
      PROVE  DisarmStage(handler'[s], scripts', armed', alarm')
  BY <1>1, <1>3, <1>5 DEF Order, DisarmStage
<1>6. ASSUME NEW s \in Slots, handler'[s].kind = "arm"
      PROVE  ArmStage(handler'[s], scripts', armed', alarm')
  BY <1>1, <1>3, <1>6 DEF Order, ArmStage
<1>7. (\A s \in Slots : handler'[s].kind \notin {"arm", "disarm"}) => Agree'
  BY <1>1, <1>3 DEF Order, Agree
<1> QED
  BY <1>4, <1>5, <1>6, <1>7 DEF Order

(* Time passes for the record of the window, its alarm and the expiry an   *)
(* arm() has computed alike.                                               *)
LEMMA TickOrderly ==
  ASSUME TypeOK, Order, Tick
  PROVE  Order'
<1>1. \A s \in Slots :
        /\ handler'[s].kind = handler[s].kind /\ handler'[s].pc = handler[s].pc
        /\ handler'[s].found = handler[s].found
        /\ handler'[s].origin = handler[s].origin
        /\ handler'[s].left = Older(handler[s].left)
  BY DEF Tick, TypeOK, Handler, HandlerRecord
<1>3. /\ UNCHANGED <<scripts, badge>> /\ alarm' = Older(alarm)
      /\ armed' = [armed EXCEPT !.left = Older(armed.left)]
  BY DEF Tick
<1>4. /\ armed'.origin = armed.origin /\ armed'.left = Older(armed.left)
      /\ armed = NotArmed => armed' = NotArmed
      /\ armed # NotArmed => armed' # NotArmed
      /\ \A o, l : armed = [origin |-> o, left |-> l] =>
                     armed' = [origin |-> o, left |-> Older(l)]
  BY <1>3, ConstantsAssumption DEF TypeOK, Older
<1>5. ~Clash'
  BY <1>1 DEF Order, Clash, Changing
<1>6. alarm = Never => alarm' = Never
  BY <1>3 DEF Older
<1>7. ASSUME NEW s \in Slots, handler'[s].kind = "disarm"
      PROVE  DisarmStage(handler'[s], scripts', armed', alarm')
  BY <1>1, <1>3, <1>4, <1>6, <1>7 DEF Order, DisarmStage
<1>8. ASSUME NEW s \in Slots, handler'[s].kind = "arm"
      PROVE  ArmStage(handler'[s], scripts', armed', alarm')
  <2>1. ArmStage(handler[s], scripts, armed, alarm)
    BY <1>1, <1>8 DEF Order
  <2> QED
    BY <1>1, <1>3, <1>4, <2>1 DEF ArmStage
<1>9. (\A s \in Slots : handler'[s].kind \notin {"arm", "disarm"}) => Agree'
  <2>1. Agree => Agree'
    BY <1>3, <1>4, <1>6 DEF Agree
  <2> QED
    BY <1>1, <2>1 DEF Order
<1> QED
  BY <1>5, <1>7, <1>8, <1>9 DEF Order

(* Once the worker is quiet, the record, the scripts, the alarm and the    *)
(* badge agree, in whatever order arms and disarms by the alarm, the       *)
(* popup, the bridge, a reader of the window and a restart overlapped,     *)
(* were cut off or began again - unless an arm() shared the worker with    *)
(* another change and nothing has begun on its own since.  A clash is      *)
(* repaired by the next arm(), disarm() or restart that has no company.    *)
(* (arm(), disarm(), getArmed())                                           *)
THEOREM QuietCorrect == Spec => []QuietAgreement
<1>1. Init => Orderly
  BY DEF Init, Orderly, Order, Agree, Idle, Clash, Changing
<1>2. ASSUME TypeOK, Orderly, [Next]_vars
      PROVE  Orderly'
  <2> SUFFICES ASSUME ~clashed'
               PROVE  Order'
    BY DEF Orderly
  <2> USE DEF store, running
  <2>1. CASE \E s \in Slots : Restart(s)
    BY <2>1, RestartOrderly
  <2>2. CASE UNCHANGED <<armed, scripts, alarm, badge, running>>
    BY <1>2, <2>2 DEF Orderly, Order, Agree, Clash, Changing
  <2>3. CASE \/ \E o \in Origins : PopupArm(o)
             \/ PopupRevoke \/ LoadPage \/ ClosePage \/ UNCHANGED vars
    BY <2>2, <2>3 DEF PopupArm, PopupRevoke, LoadPage, ClosePage, vars
  <2>4. CASE PopupClose \/ Tick
    <3>1. Order
      BY <1>2, <2>4 DEF Orderly, PopupClose, Tick
    <3> QED
      BY <1>2, <2>4, <3>1, CloseOrderly, TickOrderly
  <2>5. ASSUME NEW s \in Slots, NEW h, Become(s, h)
        PROVE  ~Clash' /\ (Order \/ Alone')
    BY <1>2, <2>5 DEF Become, Orderly
  <2>6. ASSUME NEW s \in Slots,
               \/ \E c \in Ceremonies : CaptureMessage(s, c)
               \/ BridgeMessage(s) \/ OnAlarm(s)
               \/ PopupSendArm(s) \/ PopupDisarm(s) \/ PopupSendDisarm(s)
        PROVE  Order'
    <3>1. \E h : Become(s, h)
      BY <2>6 DEF CaptureMessage, BridgeMessage, OnAlarm, PopupSendArm,
                  PopupDisarm, PopupSendDisarm, BeginDisarm, Begin
    <3> QED
      BY <1>2, <2>5, <2>6, <3>1, AloneStep, BeginsOrderly
  <2>7. ASSUME NEW s \in Slots, Proceed(s)
        PROVE  Order'
    <3>1. \E h : Become(s, h)
      BY <2>7
      DEF Proceed, GetArmed, GetBuffer, SetBuffer, FindScripts, Unregister,
          Register, SetArmed, RemoveArmed, RemoveBuffer, ClearAlarm,
          CreateAlarm, SetBadge, Goto, Finish, Reply
    <3>2. ~Clash' /\ (Order \/ Alone')
      BY <2>5, <3>1
    <3>3. CASE handler[s].kind \notin {"arm", "disarm"}
      <4>1. handler[s].pc \in {"getArmed", "getBuffer", "setBuffer",
                              "removeBuffer", "idle"}
            /\ (handler[s].pc = "removeBuffer" => handler[s].kind = "clear")
        BY <1>2, <3>3 DEF TypeOK, Handler, HandlerRecord, WellFormed
      <4> QED
        BY <1>2, <2>7, <3>2, <4>1, ReadsOrderly, AloneStep
           DEF Proceed, FindScripts, Unregister, Register, SetArmed,
               RemoveArmed, RemoveBuffer, ClearAlarm, CreateAlarm, SetBadge
    <3> QED
      BY <1>2, <2>7, <3>2, <3>3, ArmsOrderly, DisarmsOrderly, AloneStep
  <2> QED
    BY <1>2, <2>1, <2>3, <2>4, <2>6, <2>7 DEF Next
<1>3. Orderly => QuietAgreement
  BY DEF Orderly, Order, Agree, QuietAgreement, AllIdle, Idle
<1> QED
  BY <1>1, <1>2, <1>3, TypeCorrect, PTL DEF Spec

=============================================================================
