------------------------------ MODULE Handoff ------------------------------
(***************************************************************************)
(* The one-shot hand-offs of client/src/token_handoff.js and               *)
(* client/src/session_handoff.js, with the pages that start, fill and      *)
(* empty them: ssf.js and scim.js ask and collect, oauth2_oidc_1.js shows  *)
(* the request, oauth2_oidc_2.js delivers what its responses carried, and  *)
(* saml_response.js, wsfed_response.js and spnego.js deliver a session.    *)
(*                                                                         *)
(* Both slots are in sessionStorage, so the state is that of one browser   *)
(* tab, and one page is loaded at a time: what is hard is the order in     *)
(* which a reader may visit the pages.  A token is named by the answer it  *)
(* came in.  Scopes, labels and what a session descriptor says are left    *)
(* out, and a store that refuses to write is not modelled.                 *)
(***************************************************************************)
EXTENDS Naturals, Sequences, SequencesExt

CONSTANTS
  Answers,    (* sign-ins and grants, each used once                        *)
  User,       (* the user each was about                                    *)
  None,       (* no token                                                   *)
  Bare,       (* the session of a grant that issued no ID Token             *)
  MaxAsks     (* bound on how often a page asks                             *)

ASSUME HandoffAssumption ==
  /\ None \notin Answers
  /\ Bare \notin Answers \union {None}
  /\ MaxAsks \in Nat

VARIABLES
  page,          (* the page the tab shows                                  *)
  token,         (* sessionStorage: the slot of token_handoff.js            *)
  session,       (* sessionStorage: the slot of session_handoff.js          *)
  response,      (* the authorization response in the browser's history     *)
  savedToken,    (* localStorage: token_access_token, token_id_token        *)
  savedRefresh,  (* localStorage: refresh_access_token, _id_, _refresh_     *)
  issued,        (* history: the answers that were obtained so far          *)
  asks,          (* history: what had been obtained when a page asked       *)
  taken          (* history: what was collected                             *)

saved == <<savedToken, savedRefresh>>
history == <<asks, taken>>
vars == <<page, token, session, response, saved, issued, history>>

Pages == {"ssf", "scim", "authorize", "results", "detail", "signin"}

(* A slot is active when it has an ask; what is delivered carries the ask  *)
(* that was current then.  `stale': it has been there for over TTL_MS.     *)
EmptySlot == [ask |-> 0, what |-> None, of |-> 0, id |-> None, idOf |-> 0,
              stale |-> FALSE]

NoTokens == [access |-> None, id |-> None]
NoRefresh == [access |-> None, id |-> None, refresh |-> FALSE]

Tokens == [access: Answers \union {None}, id: Answers \union {None}]

(* What a slot holds, and what was taken, once a page has asked n times.   *)
Slots(n) ==
  [ask: 0..n, what: Answers \union {None, Bare}, of: 0..n,
   id: Answers \union {None}, idOf: 0..n, stale: BOOLEAN]

Takes(n) ==
  [kind: {"token", "session"}, ask: 1..n, what: Answers \union {Bare},
   id: Answers \union {None}]

TypeOK ==
  /\ page \in Pages
  /\ token \in Slots(Len(asks))
  /\ session \in Slots(Len(asks))
  /\ response \in Tokens
  /\ savedToken \in Tokens
  /\ savedRefresh \in [access: Answers \union {None},
                       id: Answers \union {None}, refresh: BOOLEAN]
  /\ issued \subseteq Answers
  /\ asks \in Seq(SUBSET Answers)
  /\ taken \in Seq(Takes(Len(asks)))

Init ==
  /\ page = "ssf"
  /\ token = EmptySlot
  /\ session = EmptySlot
  /\ response = NoTokens
  /\ savedToken = NoTokens
  /\ savedRefresh = NoRefresh
  /\ issued = {}
  /\ asks = <<>>
  /\ taken = <<>>

---------------------------------------------------------------------------
(* The slots.                                                              *)

(* Variant for checking SlotAnswersLatestAsk: what was delivered stays.    *)
StartedKeeping(slot, n) == [slot EXCEPT !.ask = n]

(* Whatever an abandoned hand-off left is dropped.                         *)
Started(slot, n) == [EmptySlot EXCEPT !.ask = n]

(* Refused where nobody waits or nothing is there; the rest of the set is  *)
(* only written when it carries something.                                 *)
Delivered(slot, what, id, carries) ==
  IF slot.ask = 0 \/ what = None THEN slot
  ELSE [slot EXCEPT !.what = what, !.of = slot.ask, !.stale = FALSE,
                    !.id = IF carries THEN id ELSE @,
                    !.idOf = IF carries THEN slot.ask ELSE @]

(* Variant for checking TypeOK: an empty slot is collected from too.       *)
CollectedAnyway(kind, slot) ==
  IF slot.stale THEN <<>>
  ELSE <<[kind |-> kind, ask |-> slot.of, what |-> slot.what,
          id |-> slot.id]>>

(* What a take() hands out: nothing, if it has been there for too long.    *)
Collected(kind, slot) ==
  IF slot.what = None \/ slot.stale THEN <<>>
  ELSE <<[kind |-> kind, ask |-> slot.of, what |-> slot.what,
          id |-> slot.id]>>

(* Variant for checking OneAnswerPerAsk: the slot stays active.            *)
ClearedActive(slot) == [EmptySlot EXCEPT !.ask = slot.ask]

Cleared(slot) == EmptySlot

---------------------------------------------------------------------------
(* The pages that ask.                                                     *)

AskToken ==
  /\ page \in {"ssf", "scim"}
  /\ Len(asks) < MaxAsks
  /\ asks' = Append(asks, issued)
  /\ token' = Started(token, Len(asks'))
  /\ page' = "authorize"
  /\ UNCHANGED <<session, response, saved, issued, taken>>

AskSession ==
  /\ page = "ssf"
  /\ Len(asks) < MaxAsks
  /\ asks' = Append(asks, issued)
  /\ session' = Started(session, Len(asks'))
  /\ page' = "signin"
  /\ UNCHANGED <<token, response, saved, issued, taken>>

(* The OAuth2 / OIDC sign-in is the one that starts both.                  *)
AskBoth ==
  /\ page = "ssf"
  /\ Len(asks) + 1 < MaxAsks
  /\ asks' = asks \o <<issued, issued>>
  /\ session' = Started(session, Len(asks) + 1)
  /\ token' = Started(token, Len(asks) + 2)
  /\ page' = "authorize"
  /\ UNCHANGED <<response, saved, issued, taken>>

(* The Shared Signals page takes from both slots on every load...          *)
LoadSsf ==
  /\ page' = "ssf"
  /\ taken' = taken \o Collected("token", token)
                    \o Collected("session", session)
  /\ token' = Cleared(token)
  /\ session' = Cleared(session)
  /\ UNCHANGED <<response, saved, issued, asks>>

(* ...the SCIM page only from a slot that has been filled.                 *)
LoadScim ==
  /\ page' = "scim"
  /\ IF token.what = None
       THEN UNCHANGED <<token, taken>>
       ELSE /\ taken' = taken \o Collected("token", token)
            /\ token' = Cleared(token)
  /\ UNCHANGED <<session, response, saved, issued, asks>>

(* The Back button can show the page as it was left, without loading it    *)
(* again: window.onload, which is all the page has, does not run.          *)
BackToSsf ==
  /\ page # "ssf"
  /\ page' = "ssf"
  /\ UNCHANGED <<token, session, response, saved, issued, history>>

---------------------------------------------------------------------------
(* The pages that deliver.                                                 *)

(* The link in the banner, which is there when a token is asked for.       *)
CancelHandoff ==
  /\ page = "authorize"
  /\ token.ask # 0
  /\ token' = Cleared(token)
  /\ UNCHANGED <<page, session, response, saved, issued, asks, taken>>

OfferedSession(slot, id) ==
  Delivered(slot, IF id = None THEN Bare ELSE id, None, FALSE)

(* The session goes with the token, each to its own slot.                  *)
OfferTokenToHandoff(access, id, carries) ==
  /\ session' = OfferedSession(session, id)
  /\ token' = Delivered(token, access, id, carries)

(* The results page opens on an authorization response that carries        *)
(* tokens, for the first time or again (a reload, the Back button).        *)
OpenResponse(tokens) ==
  /\ tokens # NoTokens
  /\ page' = "results"
  /\ response' = tokens
  /\ savedToken' = tokens
  /\ savedRefresh' = NoRefresh
  /\ OfferTokenToHandoff(tokens.access, tokens.id, tokens.id # None)
  /\ UNCHANGED history

AuthorizationAnswer(g) ==
  /\ g \notin issued
  /\ issued' = issued \union {g}
  /\ \E access \in {g, None}, id \in {g, None} :
       OpenResponse([access |-> access, id |-> id])

ReopenResponse == OpenResponse(response) /\ UNCHANGED issued

(* The OIDC branch stores the ID Token it got, or that there was none.     *)
TokenAnswer(g) ==
  /\ page = "results"
  /\ g \notin issued
  /\ issued' = issued \union {g}
  /\ \E id \in {g, None}, oidc \in BOOLEAN :
       /\ savedToken' = [access |-> g,
                         id |-> IF oidc THEN id ELSE savedToken.id]
       /\ OfferTokenToHandoff(g, id, TRUE)
  /\ UNCHANGED <<page, response, savedRefresh, history>>

(* recreateRefreshTokenDisplay(): what a refresh did not return is filled  *)
(* in from the refresh before.                                             *)
OverSaved(answer) ==
  [access |-> IF answer.access = None THEN savedRefresh.access
                                      ELSE answer.access,
   id |-> IF answer.id = None THEN savedRefresh.id ELSE answer.id,
   refresh |-> answer.refresh \/ savedRefresh.refresh]

Carries(all) == all.id # None \/ all.refresh

RefreshAnswer(g) ==
  /\ page = "results"
  /\ g \notin issued
  /\ issued' = issued \union {g}
  /\ \E id \in {g, None}, refresh \in BOOLEAN :
       LET all == OverSaved([access |-> g, id |-> id, refresh |-> refresh])
       IN /\ savedRefresh' = all
          /\ OfferTokenToHandoff(all.access, all.id, Carries(all))
  /\ UNCHANGED <<page, response, savedToken, history>>

(* Back from the token detail page: the panes are drawn from what is in    *)
(* localStorage, and drawing one offers its token.  Which are drawn, and   *)
(* with what, goes by the grant type selected.                             *)
ReturnFromDetail(access, id, refresh) ==
  /\ page = "detail"
  /\ page' = "results"
  /\ LET back == [access |-> IF access THEN savedToken.access ELSE None,
                  id |-> IF id THEN savedToken.id ELSE None]
         all == OverSaved(NoRefresh)
         drawn == refresh /\ all.access # None
         t1 == Delivered(token, back.access, back.id, back.id # None)
         s1 == IF back = NoTokens THEN session
                                  ELSE OfferedSession(session, back.id)
     IN /\ token' = IF drawn THEN Delivered(t1, all.access, all.id,
                                            Carries(all))
                             ELSE t1
        /\ session' = IF drawn THEN OfferedSession(s1, all.id) ELSE s1
  /\ UNCHANGED <<response, saved, issued, history>>

(* A SAML, WS-Federation or SPNEGO sign-in.                                *)
SignIn(g) ==
  /\ page = "signin"
  /\ g \notin issued
  /\ issued' = issued \union {g}
  /\ session' = Delivered(session, g, None, FALSE)
  /\ UNCHANGED <<page, token, response, saved, history>>

---------------------------------------------------------------------------
(* Any page may be visited; the results page, opened afresh and without a  *)
(* response, forgets the tokens it had.                                    *)
Visit(p) ==
  /\ page' = p
  /\ IF p = "results"
       THEN savedToken' = NoTokens /\ savedRefresh' = NoRefresh
       ELSE UNCHANGED saved
  /\ UNCHANGED <<token, session, response, issued, history>>

(* Half an hour goes by.                                                   *)
Tick ==
  /\ token' = [token EXCEPT !.stale = token.what # None]
  /\ session' = [session EXCEPT !.stale = session.what # None]
  /\ UNCHANGED <<page, response, saved, issued, history>>

ReturnKinds ==
  {<<FALSE, FALSE, TRUE>>, <<TRUE, FALSE, TRUE>>, <<FALSE, TRUE, TRUE>>,
   <<TRUE, TRUE, TRUE>>, <<TRUE, FALSE, FALSE>>}

Next ==
  \/ AskToken
  \/ AskSession
  \/ AskBoth
  \/ LoadSsf
  \/ LoadScim
  \/ BackToSsf
  \/ CancelHandoff
  \/ \E g \in Answers : \/ AuthorizationAnswer(g)
                        \/ TokenAnswer(g)
                        \/ RefreshAnswer(g)
                        \/ SignIn(g)
  \/ ReopenResponse
  \/ \E k \in ReturnKinds : ReturnFromDetail(k[1], k[2], k[3])
  \/ \E p \in {"authorize", "results", "detail", "signin"} : Visit(p)
  \/ Tick

Spec == Init /\ [][Next]_vars

---------------------------------------------------------------------------
(* Properties that hold.                                                   *)

(* What is in a slot, ID Token included, was delivered to its present ask. *)
AnswersLatest(slot) ==
  /\ slot.what # None => slot.ask # 0 /\ slot.of = slot.ask
  /\ slot.id # None => slot.what # None /\ slot.idOf = slot.ask

(* Whatever waits in a slot, token and ID Token alike, was delivered since *)
(* the last start() there: nothing of an abandoned hand-off is left.       *)
(* (token_handoff.js, start())                                             *)
SlotAnswersLatestAsk == AnswersLatest(token) /\ AnswersLatest(session)

(* A page that asks once is handed at most one thing, however many grants  *)
(* are run and however often the pages are opened.  (session_handoff.js,   *)
(* "a session collected twice is two workflows believing they own one")    *)
OneAnswerPerAsk ==
  \A i, j \in DOMAIN taken : taken[i].ask = taken[j].ask => i = j

---------------------------------------------------------------------------
(* Properties the documentation states and the code does not keep.         *)

(* The ID Token handed over with an access token names the same user.      *)
(* (ssf_history.js, "WHO THIS TOKEN SAYS YOU ARE")                         *)
TokenSaysWhoYouAre ==
  \A i \in DOMAIN taken :
     taken[i].id # None => User[taken[i].id] = User[taken[i].what]
=============================================================================
