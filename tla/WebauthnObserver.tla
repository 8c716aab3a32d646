------------------------- MODULE WebauthnObserver --------------------------
(***************************************************************************)
(* The browser extension that watches WebAuthn ceremonies on one origin:   *)
(* its service worker (background.js), the shim and relay it injects, the  *)
(* bridge on the debugger's pages and the popup.                           *)
(*                                                                         *)
(* Every handler of the worker is an async function.  Its only state is in *)
(* the browser's asynchronous APIs (storage.local, scripting, alarms,      *)
(* action), so a handler is a chain of calls and any other handler may run *)
(* between two of them.  One step of this module is one such call with the *)
(* code that follows it up to the next await.                              *)
(*                                                                         *)
(* Times are remaining times: an expiry is the number of clock units left, *)
(* 0 is the instant of expiry and Past is any time after it.               *)
(***************************************************************************)
EXTENDS Integers, Sequences

CONSTANTS
  Origins,      (* origins a user may observe                               *)
  Ceremonies,   (* ceremonies performed on pages, each captured once        *)
  OriginOf,     (* the origin a ceremony belongs to                         *)
  Slots,        (* invocations of handlers that may be in progress at once  *)
  TTL,          (* TTL_MS, in clock units                                   *)
  MaxCaptures,  (* MAX_CAPTURES                                             *)
  NoOrigin,     (* absence of an origin                                     *)
  NoCeremony    (* absence of a ceremony                                    *)

ASSUME ConstantsAssumption ==
  /\ TTL \in Nat \ {0}
  /\ MaxCaptures \in Nat \ {0}
  /\ OriginOf \in [Ceremonies -> Origins]
  /\ NoOrigin \notin Origins
  /\ NoCeremony \notin Ceremonies

Past == -1
Never == -2          (* no alarm, or no window                              *)
Times == Past..TTL

VARIABLES
  armed,     (* storage.local "armed": the origin and the time left         *)
  captures,  (* storage.local "captures", newest first                      *)
  scripts,   (* the origin the shim and the relay are registered for        *)
  alarm,     (* the time left of the alarm "disarm", or Never               *)
  badge,     (* the origin the toolbar badge names                          *)
  granted,   (* origins whose host permission the user has granted          *)
  pages,     (* origins with an open page that has the shim and the relay   *)
  handler,   (* what each handler in progress does next, and its locals     *)
  popup,     (* where the popup's Arm or Disarm flow is                     *)
  sent,      (* ceremonies whose capture message was sent                   *)
  admitted,  (* history: ceremonies whose handler found the window open     *)
  clashed    (* history: an arm() ran beside another arm() or a disarm(),   *)
             (* and neither has begun on its own since                      *)

store == <<armed, captures, scripts, alarm, badge>>
browser == <<granted, pages>>
running == <<handler, clashed>>
vars == <<store, browser, running, popup, sent, admitted>>

NotArmed == [origin |-> NoOrigin, left |-> Never]

HandlerPCs == {"idle", "getArmed", "getBuffer", "setBuffer", "findScripts",
               "unregister", "register", "setArmed", "removeArmed",
               "removeBuffer", "clearAlarm", "createAlarm", "badge"}

(* found: what getRegisteredContentScripts() returned; asker: the popup's  *)
(* Disarm button waits for the reply; left: the expiry arm() computed.     *)
HandlerRecord ==
  [kind: {"none", "capture", "getCaptures", "arm", "disarm", "clear"},
   pc: HandlerPCs, origin: Origins \union {NoOrigin},
   ceremony: Ceremonies \union {NoCeremony}, read: Seq(Ceremonies),
   found: Origins \union {NoOrigin}, left: Times, asker: BOOLEAN]

(* The calls each kind of handler makes, and what it was called with.      *)
WellFormed(h) ==
  /\ h.kind = "none" => h.pc = "idle"
  /\ h.kind = "capture" => h.pc \in {"getArmed", "getBuffer", "setBuffer"}
  /\ h.kind = "getCaptures" => h.pc \in {"getBuffer", "getArmed"}
  /\ h.kind = "arm" => h.pc \in {"findScripts", "unregister", "register",
                                 "setArmed", "clearAlarm", "createAlarm",
                                 "badge"}
  /\ h.kind = "disarm" => h.pc \in {"findScripts", "unregister",
                                    "removeArmed", "removeBuffer",
                                    "clearAlarm", "badge"}
  /\ h.kind = "clear" => h.pc = "removeBuffer"
  /\ h.kind = "capture" <=> h.ceremony # NoCeremony
  /\ h.kind = "arm" <=> h.origin # NoOrigin

Handler == {h \in HandlerRecord : WellFormed(h)}

Idle == [kind |-> "none", pc |-> "idle", origin |-> NoOrigin,
         ceremony |-> NoCeremony, read |-> <<>>, found |-> NoOrigin,
         left |-> Past, asker |-> FALSE]

PopupIdle == [pc |-> "idle", origin |-> NoOrigin]

TypeOK ==
  /\ armed \in {NotArmed} \union [origin: Origins, left: Times]
  /\ captures \in Seq(Ceremonies) /\ Len(captures) <= MaxCaptures
  /\ scripts \in Origins \union {NoOrigin}
  /\ alarm \in Times \union {Never}
  /\ badge \in Origins \union {NoOrigin}
  /\ granted \in SUBSET Origins
  /\ pages \in SUBSET Origins
  /\ handler \in [Slots -> Handler]
  /\ popup \in [pc: {"arm", "revoke"}, origin: Origins]
       \union [pc: {"idle", "ask", "disarm"}, origin: {NoOrigin}]
  /\ sent \in SUBSET Ceremonies
  /\ admitted \in SUBSET Ceremonies
  /\ clashed \in BOOLEAN

Init ==
  /\ armed = NotArmed
  /\ captures = <<>>
  /\ scripts = NoOrigin
  /\ alarm = Never
  /\ badge = NoOrigin
  /\ granted = {}
  /\ pages = {}
  /\ handler = [s \in Slots |-> Idle]
  /\ popup = PopupIdle
  /\ sent = {}
  /\ admitted = {}
  /\ clashed = FALSE

---------------------------------------------------------------------------
(* Handlers begin.                                                         *)

AllIdle == \A s \in Slots : handler[s] = Idle
Arming == \E s \in Slots : handler[s].kind = "arm"

(* What changes the record, the scripts, the alarm and the badge, when an  *)
(* arm() has company in it, and when one of them begins all by itself.     *)
Changing == {s \in Slots : handler[s].kind \in {"arm", "disarm"}}

Clash ==
  \E s, t \in Changing : s # t /\ handler[s].kind = "arm"

Alone ==
  \E s \in Changing : Changing = {s} /\ handler[s].pc = "findScripts"

MayBegin(s) == handler[s] = Idle

Become(s, h) ==
  /\ handler' = [handler EXCEPT ![s] = h]
  /\ clashed' = (Clash' \/ (clashed /\ ~Alone'))

Begin(s, kind, pc) == Become(s, [Idle EXCEPT !.kind = kind, !.pc = pc])

BeginDisarm(s) == Begin(s, "disarm", "findScripts")

(* Variant for checking CapturesInv: onMessage stores without getArmed().  *)
CaptureUnasked(s, c) ==
  /\ MayBegin(s) /\ OriginOf[c] \in pages /\ c \notin sent
  /\ sent' = sent \union {c}
  /\ Become(s, [Idle EXCEPT !.kind = "capture", !.pc = "getBuffer",
                            !.ceremony = c])
  /\ UNCHANGED <<store, browser, popup, admitted>>

(* The relay forwards what the shim of an open page posts; the page keeps  *)
(* its shim however the registration changes afterwards.                   *)
CaptureMessage(s, c) ==
  /\ MayBegin(s)
  /\ OriginOf[c] \in pages
  /\ c \notin sent
  /\ sent' = sent \union {c}
  /\ Become(s, [Idle EXCEPT !.kind = "capture", !.pc = "getArmed",
                            !.ceremony = c])
  /\ UNCHANGED <<store, browser, popup, admitted>>

(* The bridge maps a page's request to getCaptures, clear or disarm.       *)
BridgeMessage(s) ==
  /\ MayBegin(s)
  /\ \/ Begin(s, "getCaptures", "getBuffer")
     \/ Begin(s, "clear", "removeBuffer")
     \/ BeginDisarm(s)
  /\ UNCHANGED <<store, browser, popup, sent, admitted>>

(* onAlarm: the alarm is gone once it has fired.                           *)
OnAlarm(s) ==
  /\ MayBegin(s)
  /\ alarm \in {0, Past}
  /\ alarm' = Never
  /\ BeginDisarm(s)
  /\ UNCHANGED <<armed, captures, scripts, badge, browser, popup, sent,
                 admitted>>

(* The browser is closed and started again: handlers and pages are gone,   *)
(* storage and registrations are not, an alarm may be.  onStartup disarms. *)
Restart(s) ==
  /\ handler' = [t \in Slots |-> IF t = s
                   THEN [Idle EXCEPT !.kind = "disarm", !.pc = "findScripts"]
                   ELSE Idle]
  /\ pages' = {}
  /\ popup' = PopupIdle
  /\ alarm' \in {alarm, Never}
  /\ clashed' = FALSE
  /\ UNCHANGED <<armed, captures, scripts, badge, granted, sent, admitted>>

---------------------------------------------------------------------------
(* The popup.                                                              *)

(* The user grants the host permission; the popup then sends "arm".        *)
PopupArm(o) ==
  /\ popup = PopupIdle
  /\ granted' = granted \union {o}
  /\ popup' = [pc |-> "arm", origin |-> o]
  /\ UNCHANGED <<store, pages, running, sent, admitted>>

PopupSendArm(s) ==
  /\ popup.pc = "arm"
  /\ MayBegin(s)
  /\ Become(s, [Idle EXCEPT !.kind = "arm", !.pc = "findScripts",
                            !.origin = popup.origin])
  /\ popup' = PopupIdle
  /\ UNCHANGED <<store, browser, sent, admitted>>

(* Disarm asks what is armed first, gives that permission back, and then   *)
(* sends "disarm".                                                         *)
PopupDisarm(s) ==
  /\ popup = PopupIdle
  /\ MayBegin(s)
  /\ Become(s, [Idle EXCEPT !.kind = "getCaptures", !.pc = "getBuffer",
                            !.asker = TRUE])
  /\ popup' = [pc |-> "ask", origin |-> NoOrigin]
  /\ UNCHANGED <<store, browser, sent, admitted>>

PopupRevoke ==
  /\ popup.pc = "revoke"
  /\ granted' = granted \ {popup.origin}
  /\ popup' = [pc |-> "disarm", origin |-> NoOrigin]
  /\ UNCHANGED <<store, pages, running, sent, admitted>>

PopupSendDisarm(s) ==
  /\ popup.pc = "disarm"
  /\ MayBegin(s)
  /\ BeginDisarm(s)
  /\ popup' = PopupIdle
  /\ UNCHANGED <<store, browser, sent, admitted>>

(* A popup that loses the focus is destroyed with whatever it awaited.     *)
PopupClose ==
  /\ popup # PopupIdle
  /\ popup' = PopupIdle
  /\ handler' = [s \in Slots |-> [handler[s] EXCEPT !.asker = FALSE]]
  /\ UNCHANGED <<store, browser, sent, admitted, clashed>>

---------------------------------------------------------------------------
(* Handlers proceed, one API call at a time.                               *)

Goto(s, pc) == Become(s, [handler[s] EXCEPT !.pc = pc])

(* The handler ends; the popup learns what getCaptures answered.           *)
Reply(s, o) ==
  /\ Become(s, Idle)
  /\ popup' = IF handler[s].asker
              THEN [pc |-> IF o = NoOrigin THEN "disarm" ELSE "revoke",
                    origin |-> o]
              ELSE popup

Finish(s) == Reply(s, NoOrigin)

(* Variant for checking ImplementsWindow: getArmed() that never compares   *)
(* the expiry with the clock.                                              *)
GetArmedUntimed(s) ==
  /\ handler[s].pc = "getArmed"
  /\ IF handler[s].kind = "capture" /\ armed # NotArmed
     THEN /\ admitted' = admitted \union {handler[s].ceremony}
          /\ Goto(s, "getBuffer")
          /\ UNCHANGED popup
     ELSE Reply(s, armed.origin) /\ UNCHANGED admitted
  /\ UNCHANGED <<store, browser, sent>>

(* getArmed(): an expired window is disarmed by whoever finds it; nothing  *)
(* is armed then, so the caller has nothing more to do.                    *)
GetArmed(s) ==
  /\ handler[s].pc = "getArmed"
  /\ \/ /\ armed.left = Past
        /\ Become(s, [Idle EXCEPT !.kind = "disarm", !.pc = "findScripts",
                                  !.asker = handler[s].asker])
        /\ UNCHANGED <<popup, admitted>>
     \/ /\ armed.left # Past
        /\ handler[s].kind = "capture"
        /\ armed # NotArmed
        /\ admitted' = admitted \union {handler[s].ceremony}
        /\ Goto(s, "getBuffer")
        /\ UNCHANGED popup
     \/ /\ armed.left # Past
        /\ handler[s].kind = "capture" => armed = NotArmed
        /\ Reply(s, armed.origin)
        /\ UNCHANGED admitted
  /\ UNCHANGED <<store, browser, sent>>

GetBuffer(s) ==
  /\ handler[s].pc = "getBuffer"
  /\ \/ /\ handler[s].kind = "capture"
        /\ Become(s, [handler[s] EXCEPT !.read = captures,
                                        !.pc = "setBuffer"])
     \/ /\ handler[s].kind # "capture"
        /\ Goto(s, "getArmed")
  /\ UNCHANGED <<store, browser, popup, sent, admitted>>

(* Variant for checking TypeOK: the buffer is written back without slice(). *)
Unsliced(buffer) == buffer

(* buffer.unshift(capture), then slice(0, MAX_CAPTURES).                   *)
Newest(buffer) ==
  SubSeq(buffer, 1, IF Len(buffer) < MaxCaptures THEN Len(buffer)
                                                 ELSE MaxCaptures)

SetBuffer(s) ==
  /\ handler[s].pc = "setBuffer"
  /\ captures' = Newest(<<handler[s].ceremony>> \o handler[s].read)
  /\ Finish(s)
  /\ UNCHANGED <<armed, scripts, alarm, badge, browser, sent, admitted>>

(* unregisterAll() asks first, and unregisters only if there was something *)
(* to unregister; ids that have gone meanwhile make a rejection it drops.  *)
FindScripts(s) ==
  /\ handler[s].pc = "findScripts"
  /\ Become(s, [handler[s] EXCEPT !.found = scripts, !.pc = "unregister"])
  /\ UNCHANGED <<store, browser, popup, sent, admitted>>

Unregister(s) ==
  /\ handler[s].pc = "unregister"
  /\ scripts' = IF handler[s].found = NoOrigin THEN scripts ELSE NoOrigin
  /\ Goto(s, IF handler[s].kind = "arm" THEN "register" ELSE "removeArmed")
  /\ UNCHANGED <<armed, captures, alarm, badge, browser, popup, sent,
                 admitted>>

(* Registering an id twice rejects, and arm() stops there.                 *)
Register(s) ==
  /\ handler[s].pc = "register"
  /\ IF scripts = NoOrigin
     THEN /\ scripts' = handler[s].origin
          /\ Become(s, [handler[s] EXCEPT !.left = TTL, !.pc = "setArmed"])
          /\ UNCHANGED popup
     ELSE Finish(s) /\ UNCHANGED scripts
  /\ UNCHANGED <<armed, captures, alarm, badge, browser, sent, admitted>>

SetArmed(s) ==
  /\ handler[s].pc = "setArmed"
  /\ armed' = [origin |-> handler[s].origin, left |-> handler[s].left]
  /\ Goto(s, "clearAlarm")
  /\ UNCHANGED <<captures, scripts, alarm, badge, browser, popup, sent,
                 admitted>>

RemoveArmed(s) ==
  /\ handler[s].pc = "removeArmed"
  /\ armed' = NotArmed
  /\ Goto(s, "removeBuffer")
  /\ UNCHANGED <<captures, scripts, alarm, badge, browser, popup, sent,
                 admitted>>

RemoveBuffer(s) ==
  /\ handler[s].pc = "removeBuffer"
  /\ captures' = <<>>
  /\ IF handler[s].kind = "clear"
     THEN Finish(s)
     ELSE Goto(s, "clearAlarm") /\ UNCHANGED popup
  /\ UNCHANGED <<armed, scripts, alarm, badge, browser, sent, admitted>>

(* Variant for checking QuietAgreement: only arm() clears the alarm.       *)
ClearAlarmToArm(s) ==
  /\ handler[s].pc = "clearAlarm"
  /\ alarm' = IF handler[s].kind = "arm" THEN Never ELSE alarm
  /\ Goto(s, IF handler[s].kind = "arm" THEN "createAlarm" ELSE "badge")
  /\ UNCHANGED <<armed, captures, scripts, badge, browser, popup, sent,
                 admitted>>

ClearAlarm(s) ==
  /\ handler[s].pc = "clearAlarm"
  /\ alarm' = Never
  /\ Goto(s, IF handler[s].kind = "arm" THEN "createAlarm" ELSE "badge")
  /\ UNCHANGED <<armed, captures, scripts, badge, browser, popup, sent,
                 admitted>>

(* Variant for checking WindowCloses: arm() creates no alarm.              *)
CreateNoAlarm(s) ==
  /\ handler[s].pc = "createAlarm"
  /\ Goto(s, "badge")
  /\ UNCHANGED <<store, browser, popup, sent, admitted>>

CreateAlarm(s) ==
  /\ handler[s].pc = "createAlarm"
  /\ alarm' = handler[s].left
  /\ Goto(s, "badge")
  /\ UNCHANGED <<armed, captures, scripts, badge, browser, popup, sent,
                 admitted>>

SetBadge(s) ==
  /\ handler[s].pc = "badge"
  /\ badge' = handler[s].origin
  /\ Finish(s)
  /\ UNCHANGED <<armed, captures, scripts, alarm, browser, sent, admitted>>

Proceed(s) ==
  \/ GetArmed(s) \/ GetBuffer(s) \/ SetBuffer(s) \/ FindScripts(s)
  \/ Unregister(s) \/ Register(s) \/ SetArmed(s) \/ RemoveArmed(s)
  \/ RemoveBuffer(s) \/ ClearAlarm(s) \/ CreateAlarm(s) \/ SetBadge(s)

---------------------------------------------------------------------------
(* The browser.                                                            *)

(* A page of the observed origin is loaded while its scripts are           *)
(* registered and permitted: the shim and the relay are injected.          *)
LoadPage ==
  /\ scripts \in granted \ pages
  /\ pages' = pages \union {scripts}
  /\ UNCHANGED <<store, granted, running, popup, sent, admitted>>

ClosePage ==
  /\ pages # {}
  /\ \E o \in pages : pages' = pages \ {o}
  /\ UNCHANGED <<store, granted, running, popup, sent, admitted>>

Older(t) == IF t \in {Past, Never} THEN t ELSE t - 1

Tick ==
  /\ armed' = [armed EXCEPT !.left = Older(armed.left)]
  /\ alarm' = Older(alarm)
  /\ handler' = [s \in Slots |->
                   [handler[s] EXCEPT !.left = Older(handler[s].left)]]
  /\ UNCHANGED <<captures, scripts, badge, browser, popup, sent, admitted,
                 clashed>>

Next ==
  \/ \E s \in Slots :
       \/ \E c \in Ceremonies : CaptureMessage(s, c)
       \/ BridgeMessage(s)
       \/ OnAlarm(s)
       \/ Restart(s)
       \/ PopupSendArm(s)
       \/ PopupDisarm(s)
       \/ PopupSendDisarm(s)
       \/ Proceed(s)
  \/ \E o \in Origins : PopupArm(o)
  \/ PopupRevoke
  \/ PopupClose
  \/ LoadPage
  \/ ClosePage
  \/ Tick

(* Browser API calls return, time passes and a due alarm is delivered.     *)
(* Nothing obliges a user, a page or a restart to act.                     *)
Fairness ==
  /\ \A s \in Slots : WF_vars(Proceed(s))
  /\ WF_vars(Tick)
  /\ SF_vars(\E s \in Slots : OnAlarm(s))

Spec == Init /\ [][Next]_vars
FairSpec == Spec /\ Fairness

---------------------------------------------------------------------------
(* Properties.                                                             *)

Window == IF armed.left \in 0..TTL THEN armed.origin ELSE NoOrigin

Observation ==
  INSTANCE ObservationWindow WITH window <- Window, kept <- captures

(* The worker implements the promise of ObservationWindow in spite of the  *)
(* calls its handlers interleave.  (background.js, whole)                  *)
ImplementsWindow == Observation!Spec

(* Past its getArmed() a capture handler holds an admitted ceremony, before *)
(* it one that was not, no two handlers hold the same, and all that is in  *)
(* the buffer, or in the copy of it a handler has read, was admitted.      *)
(* (the "capture" branch of onMessage)                                     *)
CaptureHandlers == {s \in Slots : handler[s].kind = "capture"}

CapturesInv ==
  /\ admitted \subseteq sent
  /\ \A s \in Slots :
       /\ Len(handler[s].read) <= MaxCaptures
       /\ \A i \in 1..Len(handler[s].read) : handler[s].read[i] \in admitted
  /\ \A s \in CaptureHandlers :
       /\ handler[s].ceremony \in sent
       /\ handler[s].pc = "getArmed" <=> handler[s].ceremony \notin admitted
       /\ \A t \in CaptureHandlers :
            handler[s].ceremony = handler[t].ceremony => s = t
  /\ \A i \in 1..Len(captures) : captures[i] \in admitted

(* Once every handler has ended, what is recorded as armed, the scripts    *)
(* registered, the alarm that will end the window and the badge agree,     *)
(* unless an arm() ran beside another arm() or a disarm() and neither has  *)
(* begun on its own since: the code has nothing to keep them apart.        *)
(* (arm() and disarm() change the four one after the other)                *)
QuietAgreement ==
  AllIdle /\ ~clashed =>
    /\ scripts = armed.origin
    /\ badge = armed.origin
    /\ armed # NotArmed => alarm = armed.left
    /\ armed = NotArmed => alarm = Never

NoRestart == [][\A s \in Slots : ~Restart(s)]_vars

(* A window closes with nobody's help, if from some time on nobody arms,   *)
(* the last arm() ran clear of others or an arm() or a disarm() begins on  *)
(* its own after it, and the browser is not restarted again.               *)
(* (disarm() by the alarm, by a reader of the window and by a restart)     *)
WindowCloses ==
  <>[](~Arming /\ ~clashed) /\ <>NoRestart => []<>(armed = NotArmed)

(* The same of every window, whatever ran beside its arm(): "TTL expiry /  *)
(* browser restart -> disarmed, needs nobody".  (background.js:10)         *)
ClosesByItself ==
  <>[](~Arming) /\ <>NoRestart => []<>(armed = NotArmed)
=============================================================================
