# TLA+ models of id-proto-debugger

This directory holds specifications of the parts of id-proto-debugger whose
correctness depends on the order in which things happen, the TLC configurations
that check them on small instances, and TLAPS proofs about them for every
instance. `PROJECT.json` lists components, runs, the source lines each
definition stands for, findings, hazards and theorems; this file explains them.

To check a run: `tlc -config <run>.cfg <module>.tla`. To check the proofs:
`tlapm <component>_proofs.tla`.

## 1. The system

id-proto-debugger is a teaching and debugging tool for identity protocols:

| part | where | state it keeps | how it talks |
|---|---|---|---|
| workflow pages | `client/src/*.js`, one bundle per page | module variables, `localStorage` (histories, tokens, form values), `sessionStorage` (hand-offs) | `fetch`/XHR to the api or directly to a provider; redirects to other pages and to providers |
| api | `api/*.js` | the push inboxes, in memory; otherwise none between calls | HTTP from the pages; HTTP, LDAP, gRPC, TLS or Kerberos to the target |
| browser extension | `extension/src/*.js` | `storage.local`, registered content scripts, one alarm, the badge, host permissions | runtime messages between popup, service worker, content scripts and the debugger's pages |
| shared libraries | `common/` | none | called by both sides |
| edge functions, servers, infrastructure | `infra/`, `client/server.js`, `deploy/` | none | HTTP |

Most of its 390 000 lines build, parse, sign and draw documents, one request at
a time; nothing there depends on order. The parts below do, and carry the logic
that is particular to this program.

### Components with hard behaviour

**The WebAuthn observer** (`extension/`). A user arms one origin; a shim copies
the ceremonies of that origin's pages into a buffer the debugger reads; a
window ends by its clock, by an alarm, by a restart, by the popup or by the
debugger's page. Every handler of the service worker is an `async` function with
up to seven awaits, and all its state is behind those awaits: any other handler
may run between two of them. It is correct when nothing is kept that did not
arrive in an open window, when the pieces of its state agree once it falls
quiet, and when a window ends without anybody's help.

**Push inboxes** (`api/ssf_receiver.js`). RFC 8935 endpoints hosted for pages,
which cannot be endpoints themselves: bounded rings with a lifetime, swept when
some call touches the module. Correct when each holds the newest of what it
accepted, in order, when everything dropped is counted and when its bounds hold.

**The page that reads an inbox** (`client/src/ssf.js`). Create, collect and
delete are fetches whose continuations set the page's inbox and cursor; several
may be under way, be lost or be answered in another order. Correct when the
cursor never claims what was not collected, and what stays is collected.

**Poll delivery and the message history** (`client/src/ssf.js`,
`ssf_history.js`). A poll acknowledges what an earlier answer brought; tokens
are recorded in a capped history in `localStorage` that may be out of quota.
Correct when what is acknowledged was stored, or could not be, and everything is
acknowledged in the end.

**Simulated sessions and accounts** (`ssf.js`, `caep_session.js`,
`risc_account.js`). A press of a CAEP or RISC button moves the model of a
session or an account, signs the event and pushes it; only when the push has
ended is the press counted. Meanwhile the reader may press again, seed another
session, reset this one or leave. Correct when each count is of the object's own
events, when what is said of an object never contradicts what was said before,
and when an account falls silent by the event that announces it and no other.

**The one-shot hand-offs** (`client/src/token_handoff.js`,
`session_handoff.js`). A page asks, another workflow delivers, the asker
collects: two slots of one tab, many pages, any order of visits. Correct when
nothing of an abandoned hand-off is left in a slot, nothing is collected twice,
and what is collected is what was asked for, by whoever asked.

**The outbound calls of the api** (`krb5_relay.js`, `ldap_client.js`,
`tls_probe.js`, `spiffe_client.js`, `connect_timeout.js`, `ssrf_guard.js`). A
page asks for one exchange with a host it names; the client resolves the name,
refuses private addresses, dials the address it judged, and runs several timers
against a socket whose events may come in any order, or not at all. Correct
when every call is answered once, in the time its timers allow, with nothing
left armed or open, and when the answer says truly how far the call had got.

**The OAuth2 / OIDC flow and its RFC 9700 mode** (`oauth2_oidc_1.js`,
`oauth2_oidc_2.js`, `rfc9700.js`). One page sends requests, another receives
answers, exchanges codes and refreshes; the mode remembers a transaction and a
list of spent values across them, and may be switched at any moment, from
either page. Buttons stay enabled and answers overtake each other. Correct when
a code goes out once, a state is accepted once and used up by that alone, and
what is kept answers the last request.

**The Operations History** (`op_history.js` and its nine users). A row is
recorded as `Sent` by the page that makes a call and closed by whoever learns
how it went: the same handler, a status line, another page after a redirect, or
another tab through `localStorage`. Correct when no row stays `Sent` that the
code did not give up, and when an outcome, once written, stands.

**Not modelled yet, with order of their own**: one-time indices of hash-based
signatures (`hbs.js`), the token panes of `oauth2_oidc_2.js` and deferred
credential issuance. They are the plan of section 9.

**Not going to be modelled**: encoders, parsers, cryptography, forms and
drawing (no order to get wrong); static servers, build, infrastructure. Each is
listed in `PROJECT.json` with its reason. `sts/` is a submodule that is not part
of the repository; it is the transmitter and identity provider the tests run
against and appears here only as an external actor.

## 2. The modules

| module | models | extends / instances |
|---|---|---|
| `ObservationWindow` | the promise of the WebAuthn observer | |
| `WebauthnObserver` | `background.js`, `popup.js`, and the messages of `bridge.js`, `relay.js`, `shim.js` | implements `ObservationWindow` |
| `SsfReceiver` | `api/ssf_receiver.js` | |
| `SsfPushPage` | the inbox part of `client/src/ssf.js` with the api's routes | composes `SsfReceiver` |
| `SsfPoll` | poll delivery of `client/src/ssf.js` with `ssf_history.js` and a transmitter | |
| `CaepSession`, `RiscAccount` | `caep_session.js` and `risc_account.js`: what an event says, refuses and changes | |
| `SsfSimulate` | the CAEP and the RISC pane of `client/src/ssf.js` and the push behind a press | extends both |
| `Handoff` | `token_handoff.js`, `session_handoff.js` and the pages that use them | |
| `OutboundCall` | the promise of every outbound call | |
| `ApiCall` | what the api's clients share: one call, its timers, its socket, the name lookup and the address guard | |
| `Krb5Relay`, `LdapClient`, `TlsProbe`, `SpiffeClient` | one client each | extend `ApiCall` |
| `ApiCalls` | a call to any of the four | composes them; implements `OutboundCall` |
| `Rfc9700` | what the mode remembers, and the checks that read it | |
| `CodeFlow` | the two pages of the flow, the reader and the provider | extends `Rfc9700` |
| `CallLog` | the promise of an Operations History | |
| `OpHistory` | the store of `op_history.js` | |
| `KerberosHistory`, `DirectHistory`, `RedirectHistory` | the three ways the workflows use it | extend `OpHistory` |
| `OpHistories` | the store under each of them | composes them; implements `CallLog` |
| `*_proofs` | theorems about `WebauthnObserver`, `SsfPushPage` with the `SsfReceiver` it is composed with, `SsfPoll`, `SsfSimulate`, `Handoff`, `ApiCalls`, `CodeFlow` and `OpHistories` | extend their component and TLAPS |
| `MC*` | constants and symmetry for TLC | extend their component |

An operator whose comment begins with "Variant for checking" is not part of the
model: it is a plausible mistake in the definition that follows it, and the
property it names fails when it takes that definition's place.

### WebauthnObserver

One step is one browser API call together with the code that runs from its
return to the next await. `handler[s]` is one invocation of a handler, with its
kind, its program counter (named after the call it makes next) and its locals.

| state | code |
|---|---|
| `armed`, `captures` | `storage.local`, keys `armed` and `captures` |
| `scripts`, `granted`, `pages` | `chrome.scripting` registrations, host permissions, tabs already injected |
| `alarm`, `badge` | `chrome.alarms` "disarm", the toolbar badge |
| `handler` | the async functions in progress: `onMessage` branches, `arm()`, `disarm()`, `getArmed()` |
| `popup` | the awaits of `popup.js` between a click and its message |
| `sent`, `admitted` | history: which ceremonies were sent, which were found in an open window |
| `clashed` | history: an `arm()` ran beside another `arm()` or a `disarm()`, and neither has begun on its own since |

`CaptureMessage`, `BridgeMessage`, `OnAlarm`, `Restart`, `PopupSendArm`,
`PopupDisarm` and `PopupSendDisarm` begin handlers; `GetArmed` ...
`SetBadge` are their calls; `Goto`, `Finish` and `Reply` say what follows one.
A call that the browser rejects (registering an id that exists) ends the
handler, as the rejected promise does. Nothing keeps two handlers apart, in the
code or in the model. What two that overlap may leave behind is told apart by
`clashed`: `Become`, through which every handler changes, sets it when an `arm()`
has company (`Clash`) and clears it when an `arm()` or a `disarm()` begins with
nothing else under way (`Alone`), because each of the two puts right whatever it
finds. A restart ends all handlers and clears it too.

`ObservationWindow` is the abstract specification: a window that opens and
closes, ceremonies admitted while it is open, a buffer that holds some of the
admitted ones. The refinement mapping reads `window` off the record `armed` and
its clock, and `kept` is the buffer. `Keep` lets the buffer lose an admitted
ceremony: two captures that read the same buffer do, and the code promises
nothing about it.

### SsfReceiver and SsfPushPage

An inbox is a record: time left, counts, and the ring `events`. A token is the
number of its arrival, so that "the newest, in order" can be stated. `Swept` is
the lazy sweep every entry point makes first; `Expired` inboxes stay until then.
`SsfPushPage` adds the page (`inbox`, `inboxSeen`) and the fetches: `Send` when
a button is pressed, `Serve` when the api handles it, `Take` when the
continuation runs, `Lose` for a network error at any point, `Reload` for a page
that goes away. The history variable `collected` is what was drawn. The receiver has
no run of its own: `SsfPushPage` calls it in every way a page and a transmitter
can, `Others` being the calls of pages that act on nothing of this page's. No
page presses `Clear`, so what is said of it is said by the proofs alone.

### SsfPoll

`PollOnce` sends the page's `pendingAcks` with the stream it polls; `ServePoll`
is the transmitter; `TakeAnswer` is the continuation: it records every token
through `Recorded` (the cap, the quota, the refused write), and sets
`pendingAcks` to what this answer brought. One step stands for a loop over the
tokens of an answer because nothing is awaited inside it. A row is its jti.
`GivenUp` is the write for which there is no room even for half a history:
`recordMessage()` does not tell its caller, so the token waits to be acknowledged
like any other. `stored` and `refused` are histories: what was ever written, and
what was given up and never came to be written.

### SsfSimulate

| state | code |
|---|---|
| `sessions`, `accounts` | the objects `caepModel` and `riscModel` ever referred to; the last of each is the one shown |
| `log` | history: the presses, what each said, which object it was about, and how far its push is |

A press keeps the object it changed in the closure of `pushEventAsync().then`,
so an object goes on being counted after another has taken its place.
`CaepSimulate` and `RiscSimulate` are the handlers up to the push, and `Pressed`
writes their entry of the log. A push is `pending` until `CaepEnded` or
`RiscEnded`: then it was `sent`, to a receiver that may have refused it or never
answered, or it was `unsent`, because it could not be signed or had no endpoint.
A press for which that is known at once ends in the same step. A push that a
reload overtakes is `gone`, and one that the gate held back `suppressed`. What was
sent or went unsent is counted. `PressRefused` and `RiscSuppressed` are the
two early returns. `CaepFillFromToken`, `RiscFillFromToken` and `Reload` put a
new object in place; `ResetCaepSession` and `ResetRiscAccount` change the object
itself, which is why `era` and `counted` record how many resets it had seen.

### Handoff

`token` and `session` are the slots: `ask` is the number of the `start()` that
activated it (0: inactive), `what` what was delivered, `of` the ask it was
delivered to, `id` and `idOf` the same for the ID Token in `SET`, `stale` that
`TTL_MS` has passed. `page` is what the tab shows. Which tokens an answer
carries is chosen freely; an answer is a sign-in of one user and is used once.
`ReturnFromDetail` covers the grant types the results page can be returned to
with; `BackToSsf` is the browser showing the page again from its cache without
loading it, which is the case in which `start()` finds a filled slot.
`asks`, `taken` and `issued` are histories.

### ApiCalls

Calls of the api share no state, so one call is modelled, of a kind chosen at
the start. `phase` names the await the client's code is at, `sock` the state of
its socket, `timer` the ticks left of each timer (`Off` when it is not armed),
`answer` what the promise was settled with, `reached` how far the far end was
ever heard of: that last one is history, for `BlameTrue`. `Tick` lets time pass only
while no timer is at zero, so a callback that is due runs before the next
instant, but network events due at the same instant may run before it: that is
what races in the code.

| module | actions | code |
|---|---|---|
| `ApiCall` | `Refuse`, `Resolve` and the answers of the resolver, `DnsDeadline` | input checks, `withConnectDeadline()`, the guard's lookup |
| `Krb5Relay` | `KrbDial`, `KrbConnected`, `Krb...` | `sendTcp()`, `sendUdp()` and their `finish()` |
| `LdapClient` | connect, bind, operation, unbind | `withConnection()`; `ldapjs` by its events and its two timeouts |
| `TlsProbe` | handshake, grace, request, second handshake, verdict | `handshake()`, `probe()`, `probeMutual()` |
| `SpiffeClient` | `Rpc...` | `invoke()`; gRPC by its events and its deadline |

`OutboundCall` is the abstract specification: a call works, time passes up to a
bound, and one step answers it and lets go of everything. The refinement maps
`answered` to `answer # None` and `holding` to an armed timer or an open socket.
A TLS server's policy on client certificates is chosen at the start. In the
handshake it refuses by an alert or by a reset, which the probe does not tell
apart from a host that is not there; after it by an alert or by hanging up. What
the server does for a reason of its own is recorded in `unrelated`, and a refusal
that no report saw in `missed`: one that came after the grace, or one that showed
only in a request that could not be written (`TlsWriteFailed`). The verdict is
claimed only where neither happened.

### Rfc9700 and CodeFlow

| state | code |
|---|---|
| `mode`, `txn`, `spent` | the switch in `localStorage`; the transaction record and the spent list in `sessionStorage` |
| `page`, `pair`, `code`, `field`, `current`, `grant` | the page shown and its form fields |
| `calls` | token requests under way; a reload drops them |
| `shown` | which grant the tokens on the page came from, and whether they are this tab's |
| `codePair`, `minted` | the provider: the pair each code was issued for, the refresh tokens it gave out |

A state and a nonce are drawn together (`regenerateState()`,
`regenerateNonce()`), so one number stands for both. `Deliver` is page two
being loaded with an answer, any answer the provider ever gave, once more or for
the first time; it checks, consumes and fills the field in one step because
nothing is awaited. `GetToken` and `Refresh` are the buttons with the gates the
mode puts before them; `CodeAnswered`, `DeviceAnswered`, `RefreshAnswered` and
`AnswerLost` are the continuations. With the mode on, the ID Token of an answer
is held to the record (`IdTokenOk`: it can be read, and its nonce and issuer are
the record's; a refreshed one may leave the nonce out) and an answer that fails
is thrown away, a refreshed one included. The rules about the text of a request (TLS,
PKCE, metadata, issuer, scope) are abstracted into whether it passes.

### OpHistory and its three uses

`rows[i]` is the result of the i-th call ever recorded and `kept` the calls the
log holds, so that a dropped row can still be spoken of. `Record`, `Update`,
`ResolvePending` and `Clear` are the store's operations; each reads and writes
`localStorage` in one step, and each write may be refused without anybody being
told. `excused` is history: the rows the code itself has given up, namely those
superseded on their line, left behind with their page, overwritten in the
WS-Trust exchange, whose write was refused, or whose handler ended on a pending
status.

* `KerberosHistory`: `open` is the map from status line to row that `begin()`
  fills and `settle()` empties. `settle()` is called for every status any code
  writes on the line, so handlers that share a line close each other's rows;
  `KrbReport` is such a write, of a handler under way or on its way out.
  `KrbEndQuietly` is a presentation that ends on a pending status and closes
  nothing (`kerberos_ap.js:374-381`). `Quiet`, `Early`, `Chained` and `Described`
  name the lines on which the pages do something particular.
* `DirectHistory`: LDAP, SPIFFE, SCIM, Shared Signals and PKI keep the row's
  number in the closure that waits for the answer.
* `RedirectHistory`: SAML and WS-Federation resolve the newest `Sent` row of an
  operation on the response page; WS-Trust passes the row's number along with
  the answer and forgets it when it has been used.

`CallLog` is the abstract specification: a log in the order of the calls, from
which the oldest may be dropped, and whose outcomes stand.

## 3. Runs that pass

| run | question | instance |
|---|---|---|
| `WebauthnObserver_window` | when every handler has ended, do record, scripts, alarm and badge agree (`QuietAgreement`)? does every window close by itself (`WindowCloses`)? | one origin, no ceremonies, two handlers, everything may overlap, restarts at any moment |
| `WebauthnObserver_overlap` | whatever overlaps, is only what arrived in an open window kept, within the cap (`TypeOK`, `CapturesInv`, `ImplementsWindow`)? | one origin, two ceremonies, two handlers, buffer of one |
| `SsfPushPage` | do rings hold the newest, in order, with every loss counted (`RingHoldsNewest`)? are bounds kept (`InboxesBounded`) and does every call sweep (`EveryCallSweeps`)? does the cursor ever claim what was not collected (`CursorSound`)? is what stays in an inbox collected (`NextPollCatchesUp`)? | one inbox at a time with two ids for it, two fetches, a ring of two, three pushes each |
| `SsfPoll` | was what is acknowledged stored, or given up for want of room (`AckedWasStored`)? is everything acknowledged in the end (`TakenIsAcknowledged`)? | one stream, two tokens, two polls, cap two, room for no row, one or three |
| `SsfSimulate` | does every press end up in the right count (`CountsAddUp`)? does each event start from where the one before left off (`EachSaysWhatWasHeld`)? is a revoked session used, or a purged account enabled (`NothingContradicted`)? is an event held back exactly after the opt-out event that takes effect (`SilenceAnnounced`)? | three presses over both panes, the aspect with three levels, one turn (a seed, a reset or a reload) |
| `Handoff` | is a slot ever left with something old (`SlotAnswersLatestAsk`)? is an ask answered twice (`OneAnswerPerAsk`)? | two asks, two answers, six pages |
| `ApiCalls` | is every call answered (`EveryCallAnswered`), in time (`AnsweredInTime`), with nothing left behind (`NothingLeftOver`, `ImplementsOutboundCall`)? is what the caller is told true (`BlameTrue`, `VerdictSound`, `StoppedTruthfully`)? | five kinds of call, every event at every instant, budgets of 2, 3 and 4 ticks |
| `CodeFlow` | does a code go out once (`CodeOnce`)? is a state accepted once (`StateOnce`) and used up by that alone (`RefusalKeepsState`)? do the tokens kept answer the last request (`KeptAnswersRequest`)? | two pairs, one code, two refresh tokens, two requests open together, a spent list of two |
| `OpHistories` | can a row stay `Sent` with no handler at work that will close it, unless the code gave it up (`SentIsWatched`)? do two lines watch one row, or a line a closed one (`WatchedIsSent`)? does an outcome stand (`ImplementsCallLog`)? | two pages with two lines each, three calls of two operations, a log of two |

Some properties name an exception, because the code does otherwise there. But for
the one stream of `SsfPoll`, none is made by keeping the model from going there:
the exception is in the property's text, its states are reached in the run, and
section 4 says what the code does in them.

* `QuietAgreement` and `WindowCloses` except an `arm()` that ran beside another
  `arm()` or a `disarm()` (`clashed`), until one of the two begins on its own. The
  violated run `WebauthnObserver_needsNobody` is `WindowCloses` without that.
* `CursorSound` and `NextPollCatchesUp` are stated up to the first shift of the
  ring, `Overfull` in the one and `dropped = 0` in `Waiting`.
* `AckedWasStored` excepts a token whose writing was given up. `SsfPoll` has one
  stream; with two see section 4.
* The properties of `SsfSimulate` speak of an object between two of its resets:
  the pane says what a reset does, and a receiver is not told. `CountsAddUp` says
  that everything sent is counted, and that nothing more is unless a press about
  that object went unsent. `SilenceAnnounced` says when an event is held back as
  long as every opt-out event about the account was sent; that opt-out events are
  never held back it says of all.
* `VerdictSound` excepts handshakes that something other than the server's policy
  ended, which the probe cannot see (`tls_probe.js:1445`), and refusals no report
  saw. `unknown` is allowed for one policy only: both handshakes refused, the
  first by a reset.
* `BlameTrue` says of the probe's handshake deadline that the far end had
  accepted, and leaves open whether the handshake had finished.
* `CodeOnce` holds until the list has had to forget something, and `StateOnce`
  unless a device request started a transaction with a pair that had been used.
* `SentIsWatched` excepts the rows in `excused`. A row whose handler has ended is
  not otherwise excepted because some line still points at it.

### Bounds

* Two handlers, two fetches, two polls: every race named in the hazards is
  between two; a handler that ends leaves its slot to the next, so behaviours
  with any number of handlers one after the other are included.
* `TTL = 1` clock unit: with 0 (the instant of expiry) and Past it gives the
  three answers a comparison with the clock has.
* Buffers and rings of one or two. `WebauthnObserver_overlap` and `SsfPushPage`
  have more arrivals than these hold, so each overflows. The room in `SsfPoll`
  changes between none, one row and three around a cap of two: the cap cuts, the
  quota cuts, and a write is given up, in any order.
* `WebauthnObserver_window` has one origin, which keeps its liveness property
  within reach; it cannot tell the scripts of one origin beside the record of
  another. `QuietCorrect` says that of any set of origins. Ceremonies play no part
  in either property.
* `SsfPushPage`: a limit of one inbox is reached while an expired one is still
  held, and the second id is what a page gets after that.
* `SsfSimulate`: a contradiction or a gap needs two events of one object and one
  between; three presses have that, with a push of the first still pending over
  a turn.
* `MaxPushes` and `MaxAsks` end the counters. An ask that is abandoned and one
  that follows are two; an answer before and one after are two.
* Symmetry is used over handlers and over ids where no liveness property is
  checked.
* `ApiCalls`: the three budgets differ, so that each timer is once the first to
  run out; `StreamTimeout` passes `CallTimeout`. `Horizon` is past the longest
  budget: the clock never reaches it.
* `CodeFlow`: a second pair, a second slot and a spent list shorter than what is
  spent are what its hazards are about. One code is delivered any number of
  times; two codes in one tab are two pairs.
* `OpHistories`: three calls over a log of two drop the oldest; two lines on two
  pages have overlaps on a line, across lines and across tabs.
* Deadlock is checked in every run but `ApiCalls`, where a call that has been
  answered does nothing more.

### Fairness

* `WebauthnObserver`: API calls return, time passes, and an alarm that is due is
  delivered (strongly fair: it competes for handler slots). Nothing is assumed
  of users, pages or restarts. Service workers are kept alive while an event is
  handled, and alarms wake them.
* `SsfPushPage`: a fetch settles; the reader goes on pressing Collect; the api
  does serve it and answers are not lost for ever.
* `ApiCalls`: the endpoint's own continuations run, its timers fire and time
  passes. Nothing is assumed of the resolver, the network or the far end.
* `SsfPoll`: the reader goes on polling every stream; a poll ends; the network
  does not fail for ever. `TakenIsAcknowledged` assumes in its text that from
  some time on the box stays ticked and the page is not reloaded.
* `SsfSimulate`, `Handoff`, `CodeFlow` and `OpHistories` state no liveness: a push
  may never be answered, and whether a reader ever comes back is up to the
  reader.

## 4. Runs that are violated

Each checks one sentence of the documentation, a comment or the text the
program shows, which the code does not keep. The quotations are in
`PROJECT.json`, findings.

| run | what happens |
|---|---|
| `WebauthnObserver_needsNobody` | a `disarm()` that was overtaken by an `arm()` deletes the new window's alarm (`background.js:149`, after 133-134): the window stays recorded and its scripts registered past its time, until somebody asks for it or the browser restarts |
| `Handoff_identity` | an access token of one user is handed over with the ID Token of another answer |
| `CodeFlow_device` | with the mode on, a compliant device answer is discarded: its ID Token is held to a nonce that was never sent |

Differences that the models show, or that can be read off the code, and that
have no run of their own:

*WebAuthn observer*

* Past its time a window without an alarm (the run above) admits nothing, since
  every reader looks at the clock (64); but the shim is still put into the pages
  that are opened.
* A capture that read the buffer before `disarm()` removed it writes it back
  afterwards, against `background.js:145-148`.
* `docs/webauthn-plan.md:71` says the permission is revoked when a window ends;
  only the popup's Disarm does (`popup.js:99`). Line 70 says the shim is on the
  armed origin alone; pages of the origin armed before keep theirs, and the
  worker does not compare origins (`background.js:197`).

*Shared Signals and the hand-offs*

* `pendingAcks` is one list for the page and not one per stream: what a poll of
  one stream brought is acknowledged to whichever is polled next, and is handed
  out for ever by its own. `client/public/ssf.html:962` says of the Poll button
  that it acknowledges everything it takes.
* The cursor of a page that has collected a full ring is the ring's length, and
  stays there: a shifted ring never yields another token, though
  `api/ssf_receiver.js:361-363` says the next poll catches up. Without the
  conjunct `inboxes[id].dropped = 0` of `Waiting` the run of `SsfPushPage` shows it.
* `ssf.js:2011` says a receiver acknowledges what it has stored. When there is no
  room even for half a history, `write()` gives up (`ssf_history.js:147-153`),
  `recordMessage()` does not look, and the token is acknowledged all the same.
* `ssf.js:4060-4062` and `docs/risc.md:241` say an event that is not sent must not
  move the model. The gate is asked first, but an event that then has no key, no
  endpoint or no answer has moved it. For `opt-out-effective` this means that
  everything after it is held back with nobody told, against
  `risc_account.js:511-516`: the one way into silence that `SilenceAnnounced`
  does not cover.
* `ssf.js:3513-3514` and 4065, `docs/caep.md:287`, `docs/risc.md:245` and the
  column headed Sent (`ssf.js:3427`) say the count is of what was sent;
  `record()` counts every press whose push ended, one that was never sent
  included. This is why `CountsAddUp` bounds the count from both sides only where
  nothing went unsent.
* A subject composed for `identifier-changed` names the new address: `apply()`
  comes before `subjectFor()` (`ssf.js:4100-4101`), and `risc_account.js:351-352`
  says it must carry the old value. One press shows it, so it is left to a test.
  The new address lasts until the pane is next drawn: the field `risc_email`
  still has the old one and is put back over it (`ssf.js:3769-3778`).
* A push still pending when its session is reset is counted after the reset.
  Start over resets the CAEP session and leaves the RISC account
  (`ssf.js:4243`).
* A response reopened from the browser's history answers an ask made after it
  (`session_handoff.js:361-364`).
* `ssf_history.js:352` says a token that comes twice must not have two rows;
  `takeReceivedToken()` always appends (`ssf.js:2201`).
* `oauth2_oidc_2.js:4287` says the first token is carried back to the workflow
  that asked; every later one replaces it (`token_handoff.js:337`), and the
  first of `ssf.html` and `scim.html` to be opened collects it.
* `oauth2_oidc_1.js:1371` says nothing will be sent anywhere after a
  cancellation; the session hand-off started along with the token's stays active.

*Outbound calls*

* `tls_probe.js:938` says the call rejects only when there was no handshake to
  report on; the deadline of the call while a handshake is settling rejects
  (986-992) and drops the report. A second handshake that is rejected drops the
  report of the first. The message then says that the handshake did not finish,
  which is untrue after `secureConnect`.
* A server that refuses by a reset in both handshakes gets the verdict `unknown`,
  and the reader is told that neither connection reached a TLS handshake
  (`tls_probe.js:1471-1476`).
* `tls_probe.js:1273-1277` calls a request that could not be written the rejection
  arriving in its third form; the report carries no error for it, and
  `handshakeUsable()` takes it for an accepted connection.
* `spiffe_client.js` says a stream that has produced messages and was stopped by
  the deadline is a success; gRPC's own deadline falls on the same instant as
  the timer (1634-1636) and, if it comes first, makes it a failure.
* `krb5_relay.js:347-351` calls its two timers additive; they run side by side.
* The verdict `required` is inferred from any failure of the handshake without
  the certificate, one that has nothing to do with it included.

*OAuth2 / OIDC*

* Refresh pressed twice before the first answer sends a token that the first
  request replaces (`oauth2_oidc_2.js:2102-2118`), against requirement 9.1 of
  the mode. `noteRefreshRotated()` marks what is in the field when the answer
  comes (2209), not what was sent. An answer to another grant marks the refresh
  token of the earlier one as spent (1776).
* Switching the mode off on page one clears the transaction
  (`oauth2_oidc_1.js:3231`); on page two it does not (`oauth2_oidc_2.js:6923`).
* A device request does not draw a new pair, so it starts a transaction with one
  that may have been used. An answer without an ID Token is checked against no
  nonce.

*Operations History*

* `kerberos_ap.js:247-248` says every exit sets a status and that this closes the row. When
  the service sends nothing back and mutual authentication is off, the status is
  `krb-pending` (380), and the row says `Sent` for good.
* `kerberos_history.js` says only a status on its own line closes a row: so does
  any other handler that reports on that line, and the choice of an expired
  ticket (`kerberos_ap.js:148-153`) closes a presentation under way as a failure.
* The row of a SPNEGO handshake that goes on with a `mechListMIC` is superseded
  by the row of that message (`spnego.js:1033`), and stays `Sent` though it was
  answered.
* `saml_response.js:316` says only a response that just arrived closes a row.
  The api does not consume what it holds (`server.js:1537-1543`), so a reload of
  the response page resolves an older row that is still `Sent`; a wresult pasted
  into the WS-Federation page does too. An unreadable SAML answer closes the
  newest `Sent` row whatever it was about.
* WS-Trust keeps one exchange for all tabs: the row of an answer that another
  tab's answer overwrites stays `Sent`.

## 5. What is proved

For every value of the constants that satisfies the modules' assumptions:

| theorem | statement |
|---|---|
| `WebauthnObserver_proofs!TypeCorrect` | `Spec => []TypeOK`, the buffer's cap included |
| `WebauthnObserver_proofs!CapturesCorrect` | `Spec => []CapturesInv` |
| `WebauthnObserver_proofs!WindowImplemented` | `Spec => ImplementsWindow` |
| `WebauthnObserver_proofs!QuietCorrect` | `Spec => []QuietAgreement`, with any number of handlers overlapping |
| `SsfPushPage_proofs!RingCorrect` | `ReceiverSpec => []RingHoldsNewest` |
| `SsfPushPage_proofs!BoundCorrect` | `ReceiverSpec => []InboxesBounded` |
| `SsfPushPage_proofs!SweepCorrect` | `ReceiverSpec => EveryCallSweeps` |
| `SsfPushPage_proofs!TypeCorrect` | `Spec => []TypeOK` |
| `SsfPushPage_proofs!ServesReceiver` | `Spec => ReceiverSpec`: the api behind the page is the receiver, so that the three theorems above hold of it (`ReceiverKept`) |
| `SsfPushPage_proofs!CursorCorrect` | `Spec => []CursorSound` |
| `SsfPoll_proofs!TypeCorrect` | `Spec => []TypeOK`, the history's cap included |
| `SsfPoll_proofs!AckedCorrect` | `Spec => []AckedWasStored`, for any number of streams and whatever room there is |
| `SsfSimulate_proofs!TypeCorrect` | `Spec => []TypeOK` |
| `SsfSimulate_proofs!HeldCorrect` | `Spec => []EachSaysWhatWasHeld` |
| `SsfSimulate_proofs!ContradictionFree` | `Spec => []NothingContradicted` |
| `SsfSimulate_proofs!SilenceCorrect` | `Spec => []SilenceAnnounced` |
| `SsfSimulate_proofs!CountsCorrect` | `Spec => []CountsAddUp` |
| `Handoff_proofs!TypeCorrect` | `Spec => []TypeOK` |
| `Handoff_proofs!SlotsCorrect` | `Spec => []SlotAnswersLatestAsk` |
| `Handoff_proofs!AnsweredOnce` | `Spec => []OneAnswerPerAsk` |
| `ApiCalls_proofs!NothingHeld` | `Spec => []NothingLeftOver` |
| `ApiCalls_proofs!InBudget` | `Spec => []AnsweredInTime` |
| `ApiCalls_proofs!KeepsPromise` | every behaviour of `Spec` is one of `OutboundCall` (its safety part) |
| `ApiCalls_proofs!StopsTruthfully` | `Spec => []StoppedTruthfully` |
| `ApiCalls_proofs!TypeCorrect` | `Spec => []TypeOK`: each client keeps to its phases, and no timer is armed for longer than it is given |
| `ApiCalls_proofs!BlameCorrect` | `Spec => []BlameTrue` |
| `ApiCalls_proofs!VerdictCorrect` | `Spec => []VerdictSound` |
| `CodeFlow_proofs!TypeCorrect` | `Spec => []TypeOK`, the spent list's cap included |
| `CodeFlow_proofs!CodeSentOnce` | `Spec => []CodeOnce` |
| `CodeFlow_proofs!StateAcceptedOnce` | `Spec => []StateOnce` |
| `CodeFlow_proofs!RefusalBurnsNothing` | `Spec => []RefusalKeepsState` |
| `CodeFlow_proofs!KeptIsOurs` | `Spec => []KeptAnswersRequest` |
| `OpHistories_proofs!TypeCorrect` | `Spec => []TypeOK`, the log's cap included |
| `OpHistories_proofs!NoRowForgotten` | `Spec => []SentIsWatched` |
| `OpHistories_proofs!LineWatchesItsRow` | `Spec => []WatchedIsSent` |
| `OpHistories_proofs!KeepsTheLog` | `Spec => ImplementsCallLog` |

**Observer.** `TypeOK` is inductive, because it says of each kind of handler
which calls it can be at (`WellFormed`). `CapturesInv` is inductive with it: a
capture handler holds an admitted ceremony exactly when it is past `getArmed()`,
no two hold the same, and everything in the buffer *or in a handler's copy of
it* was admitted; without the copies a step that writes one back could not be
justified. Most steps are discharged by one lemma (`HarmlessStep`): they take no
capture past its check and add nothing. The refinement maps each step to a step
of `ObservationWindow`: `SetArmed` opens, `RemoveArmed` and `Tick` close,
`GetArmed` of a capture admits, `SetBuffer` keeps, `RemoveBuffer` forgets, all
others stutter.

`QuietAgreement` speaks only of states in which no handler runs, so it says
nothing about how they are reached. `Orderly` does: unless `clashed`, an `arm()`
has no `arm()` or `disarm()` beside it, and whatever handler is at some call of
one of them finds the records as its own earlier calls left them (`ArmStage`,
`DisarmStage`). Several `disarm()` may overlap, and do, with the alarm, the popup
and the bridge all ending one window: each undoes what the others undo, so none
disturbs another's stage. Only the last may leave with the records agreeing, and
the stage it has reached says that they do. `clashed` is cleared by a handler at
its first call with nothing beside it: that stage asks nothing of the records, so
`Orderly` holds again however they were left, which is why agreement returns
after a clash (`AloneStep`).

**Receiver.** `BoxOK` relates an inbox's counts to its ring and says which
tokens the ring holds. Three lemmas show that it survives the shift of a full
ring, an append to one with room, and `clear()`; the sweep only removes. The
bound on inboxes needs the store to be finite besides; `EveryCallSweeps` is
proved of each operation, none of which keeps anything but `Swept`.

**The page.** `Typed` is inductive with the receiver's own invariant. Every step
of the composition is a step of the receiver or leaves it alone, which is the
refinement. For the cursor, no page clears a ring, so one that has dropped
anything is full and its newest is past the cap (`RingsUnspoiled`); then what a
drain hands out, from wherever it was asked to start, is known once it was taken
(`CallSound` for the answers in flight, `Known` for the page's own cursor),
also when the request was about an inbox the page has let go since.

**Poll delivery.** What an answer does to the history, and what is left of a
transmitter's queue, are recursive functions over the tokens, so even the types
of what they yield need an induction over data. The library's induction rules
take an operator and cannot be used here, but the well-foundedness of `<` on the
naturals is a plain fact: from it `LeastNumber` and `Induction` are stated with a
set instead, and `Iteration` says that a function defined step by step exists.
With those, `HistoriesAre` and `LeftTyped` say what the two recursions yield, and
`TypeOK` is inductive. `AcksStored` strengthens `AckedWasStored` to what is
waiting to be acknowledged and to what polls under way carry: with two polls open
an acknowledgement may be in several places at once. `WrittenAre` is the reason
why every token of an answer is in one of the two histories: after the cap, or
after the cut to half that answers a full storage, the newest row is still there,
so a token that was not given up was in the history at some time, though later
ones may have pushed it out since.

**Simulated sessions and accounts.** Every step is of one of four kinds: one
press about a session, one about an account, one held back, or a step that adds
nothing to the log (`StepKinds`). `ObjectsAsSaid` says that what the log says of
an object since its last reset is what the object is: its state if a revocation
was said last, its level, its purge, its opt-out. None of the properties is
inductive without it, since what a press says is taken from the object and not
from the log. For the silence, `SilencePronounced` says of every press, sent or
not, that it was held back exactly if the last opt-out event pressed took effect;
where all of them were sent, pressed and announced are the same (`LastOptOut`).
For the counts a push that has ended is added to the set of those of its object,
and everything else leaves both the set and the count alone (`Tallied`);
`CountedOK` says that nothing is counted before it ends. `CountOfAll` then takes
from the set what went unsent.

**Hand-offs.** `SlotAnswersLatestAsk` alone would be inductive but the other two
are not. `Good` adds that no ask was answered whose slot still waits (`Unused`)
and that the two slots never wait for the same ask. `take()` then uses up an ask
and `start()` begins one nobody has seen.

**Outbound calls.** `IInv` has four parts: `Types` (which phases each kind of
call has), `Released` (a call is over exactly when it is answered, and then has
no timer and no socket), `Clock` (the time passed and what the timer of the
present phase has left stay within what this phase is allowed: the reason why a
call is in time although each timer knows only its own share), and `Room` (a
stream that goes on still wants a message). There is a lemma for each client.
`StopInv` carries `StoppedTruthfully`: only an answered call was stopped by
something.

`BlameTrue` looks at an answer, and what made it true is gone by then. `Progress`
keeps it, per phase: how far the connection has got, which timers may be armed,
and, while a connection is being waited for, that the connect timer is the
shorter of the two (`Racing`), which is why a host that never accepts is never
reported as one that fell silent; this is where `ConnectTimeout < CallTimeout` is
used. One lemma (`FinishBlame`) says when a `finish()` with a given code is
deserved, and each client's steps are shown to finish only so. `VerdictSound`
needs what the first of the two handshakes saw to still be true of the server
when the second reports (`FirstSound`: it was usable exactly if the server asks
for no certificate or accepts this one); the second report is then a case split
over the server's policy. The bound on timers in `TypeOK` is an invariant of its
own (`Bounded`): a step leaves a timer alone, lets it run on, stops it or gives
it its own time.

**Flow.** `TypeOK` is inductive. `TxnInv` is about the record: pairs are drawn in
increasing order, so a new one was never accepted (`Fresh`); a record that is not
consumed is of a pair nothing was accepted for, unless restarted (`Once`); while
the switch stayed on, the record is of the last request or of a later one that
did not leave (`SteadyRecord`). `ListInv` says that every code sent in mode is in
the list until the list has lost something. They are proved one after the other,
each from those before it.

**Operations History.** Three lemmas say what a record, an update and a
`resolvePending()` do to the log, and that each is a step of `CallLog`; the cap
is proved from the cardinality of what is newer than the oldest row kept.
`IInv` adds to the properties that only the Kerberos pages watch lines, that the
row a direct call keeps is `Sent` and kept by no other call, and that the row of
the WS-Trust exchange is `Sent` or has the exchange's own outcome. Without these
an update might overwrite an outcome. The proof has one lemma per workflow and
one for the operations they share.

## 6. What is only model-checked

* Liveness under fairness (`WindowCloses`, `NextPollCatchesUp`,
  `TakenIsAcknowledged`, `EveryCallAnswered`, and the liveness part of
  `ImplementsOutboundCall`): out of the prover's reach.

Every invariant of the passing runs is also a theorem, and so is every other of
their properties that is not about liveness. TLC checks them besides, on the same
definitions.

## 7. Hazards

`PROJECT.json` lists each with its line and the properties that cover it; where a
property covers only part of one, a note says which. Six have none. Two captures
that read the same buffer lose one of them, and one that `disarm()` overtook is
written back: nothing is promised about either. The other four are places where
the code goes wrong, each with a note in the list and an entry in section 4: the
acknowledgements of two streams, a response reopened after a new hand-off was
started, two refreshes at once, and the subject of `identifier-changed`.

## 8. What is left out inside the modelled parts

* What a ceremony, a token or a session says, and every verdict on it.
* The CI-only `autoarm.json` of the extension and the popup's Uninstall button.
* The receiver's feature switch; request sizes and content types.
* A message's signature note, written into its row later.
* Of `SsfSimulate`: the buttons of the Transmit pane, which push whatever is in
  its boxes; who a session and an account are, their addresses, claims, credentials,
  former identifiers and flags, and the fields they are filled from; the text of warnings and outcomes;
  the check of a payload against the catalogue, which what the page builds passes.
* The bytes of a reply, a directory entry, a certificate or a message: a chunk is
  what it makes of the buffer, an answer is its outcome.
* The grants that get tokens from the authorization endpoint, and the panes that
  show, introspect and revoke tokens. The provider of `CodeFlow` may answer any
  code; one that does not rotate repeats the refresh token. Two values whose hashes collide in the spent list.
* Columns of the Operations History other than its operation; `finish()`, which
  nobody calls.
* Scopes, labels and return addresses of a hand-off; a `sessionStorage` that
  refuses to write (`session_handoff.start()` reports success then, and a token
  whose `META` could not be written never expires); a tab that is duplicated with its `sessionStorage`.

## 9. Plan

1. `TokenPanes`: the token sets of `oauth2_oidc_2.js` (4834-5141, 5934-6000),
   which one is shown, which one Introspect and Revoke act on, and the wipe.
2. `HbsKey`: a one-time index is used at most once.
3. Deferred credential issuance: polling with an interval across pages.
4. Proofs: that a poll which fails loses no acknowledgement, and the refinement
   of a lossless delivery by `SsfPoll` with one stream.
