---------------------------- MODULE CaepSession ----------------------------
(***************************************************************************)
(* The session a CAEP event is about (client/src/caep_session.js): what an *)
(* event the page offers would say, whether the session allows it, and what*)
(* it does to it.                                                          *)
(*                                                                         *)
(* Assurance, compliance and risk are told apart by the levels they take,  *)
(* numbered in the order of suggest(): 0 is what a session nothing was said*)
(* about is taken to be at.  Who the session is, its claims and its        *)
(* credentials are left out.                                               *)
(***************************************************************************)
EXTENDS Integers

CONSTANT Aspects  (* of a session that move, among those suggest() knows   *)

ASSUME AspectsAssumption == Aspects \subseteq {"assurance", "compliance", "risk"}

Levels == 0..2
Unsaid == -1

(* resets: how many times the session was reset (history).                 *)
Sessions == [state: {"established", "presented", "revoked"},
             level: [Aspects -> Levels \union {Unsaid}],
             total: Nat, resets: Nat]

NewSession == [state |-> "established",
               level |-> [a \in Aspects |-> Unsaid],
               total |-> 0, resets |-> 0]

CaepKinds == {"session-established", "session-presented",
              "session-revoked", "no change"}
CaepEvents == [kind: CaepKinds]
                \union [kind: {"change"}, aspect: Aspects,
                        previous: Levels, current: Levels]

(* suggest(): the move the page offers, from where the session is.         *)
Held(session, a) ==
  IF session.level[a] = Unsaid THEN 0 ELSE session.level[a]

(* Variant for checking TypeOK: every change is one up.                    *)
LevelUp(a, l) == l + 1

NextLevel(a, l) == IF l # 1 THEN 1 ELSE IF a = "risk" THEN 2 ELSE 0

(* Variant for checking EachSaysWhatWasHeld: the levels are constants.     *)
ConstantChange(session, a) ==
  [kind |-> "change", aspect |-> a, previous |-> 0, current |-> 1]

SuggestedChange(session, a) ==
  [kind |-> "change", aspect |-> a, previous |-> Held(session, a),
   current |-> NextLevel(a, Held(session, a))]

Suggested(session) ==
  [kind: CaepKinds] \union {SuggestedChange(session, a) : a \in Aspects}

(* apply(): the one refusal, and the state and the levels after an event.  *)
(* An event of another kind is "no change".                                *)
SessionRefuses(session, event) ==
  session.state = "revoked" /\ event.kind = "session-presented"

Stated == [k \in {"session-established", "session-presented",
                  "session-revoked"} |->
             CASE k = "session-established" -> "established"
               [] k = "session-presented" -> "presented"
               [] k = "session-revoked" -> "revoked"]

AfterCaep(session, event) ==
  IF event.kind \in DOMAIN Stated
  THEN [session EXCEPT !.state = Stated[event.kind]]
  ELSE IF event.kind = "change"
  THEN [session EXCEPT !.level[event.aspect] = event.current]
  ELSE session

(* record() and reset(), which keeps who the session is.                   *)
SessionCounted(session) == [session EXCEPT !.total = session.total + 1]

SessionReset(session) ==
  [NewSession EXCEPT !.resets = session.resets + 1]
=============================================================================
