------------------------ MODULE SsfSimulate_proofs -------------------------
(***************************************************************************)
(* Proofs about the CAEP and the RISC pane, for any aspects and any number *)
(* of presses, seeds and resets.                                           *)
(***************************************************************************)
EXTENDS SsfSimulate, FiniteSetTheorems, TLAPS

(* The last of a sequence put in another's place, and one more.            *)
LEMMA PutTyped ==
  ASSUME NEW S, NEW s \in Seq(S), NEW m \in 1..Len(s), NEW x \in S
  PROVE  /\ Put(s, m, x) \in Seq(S)
         /\ Len(Put(s, m, x)) = Len(s)
         /\ Put(s, m, x)[m] = x
         /\ \A k \in 1..Len(s) : k # m => Put(s, m, x)[k] = s[k]
BY DEF Put

(* One more at the end of a sequence.                                      *)
LEMMA AppendTyped ==
  ASSUME NEW S, NEW s \in Seq(S), NEW x \in S
  PROVE  /\ Append(s, x) \in Seq(S)
         /\ Len(Append(s, x)) = Len(s) + 1
         /\ Append(s, x)[Len(s) + 1] = x
         /\ \A k \in 1..Len(s) : Append(s, x)[k] = s[k]
OBVIOUS

(* Counting and resetting a session leave a session.                       *)
LEMMA SessionTyped ==
  ASSUME NEW s \in Sessions
  PROVE  /\ SessionCounted(s) \in Sessions /\ SessionReset(s) \in Sessions
         /\ NewSession \in Sessions
<1>1. s.total \in Nat /\ s.resets \in Nat
  BY DEF Sessions
<1> QED
  BY <1>1 DEF SessionCounted, SessionReset, NewSession, Sessions

(* An event the page offers is one of the profile, and leaves a session.   *)
LEMMA CaepTyped ==
  ASSUME NEW s \in Sessions, NEW event \in Suggested(s)
  PROVE  event \in CaepEvents /\ AfterCaep(s, event) \in Sessions
<1>1. /\ s.state \in {"established", "presented", "revoked"}
      /\ s.level \in [Aspects -> Levels \union {Unsaid}]
      /\ s.total \in Nat /\ s.resets \in Nat
  BY DEF Sessions
<1>2. ASSUME NEW a \in Aspects
      PROVE  SuggestedChange(s, a) \in CaepEvents
  <2>1. Held(s, a) \in Levels
    BY <1>1 DEF Held, Levels, Unsaid
  <2>2. NextLevel(a, Held(s, a)) \in Levels
    BY DEF NextLevel, Levels
  <2> QED
    BY <2>1, <2>2 DEF SuggestedChange, CaepEvents
<1>3. event \in CaepEvents
  BY <1>2 DEF Suggested, CaepEvents
<1>4. AfterCaep(s, event) \in Sessions
  <2>1. CASE event.kind \in DOMAIN Stated
    BY <2>1 DEF AfterCaep, Stated, Sessions
  <2>2. CASE event.kind = "change"
    <3>1. event.aspect \in Aspects /\ event.current \in Levels
      BY <1>3, <2>2 DEF CaepEvents, CaepKinds
    <3> DEFINE l == [s.level EXCEPT ![event.aspect] = event.current]
    <3>2. l \in [Aspects -> Levels \union {Unsaid}]
      BY <1>1, <3>1
    <3>3. AfterCaep(s, event) = [s EXCEPT !.level = l]
      BY <2>2, <3>1 DEF AfterCaep, Stated
    <3> HIDE DEF l
    <3> QED
      BY <3>2, <3>3 DEF Sessions
  <2>3. CASE event.kind \notin DOMAIN Stated /\ event.kind # "change"
    BY <2>3 DEF AfterCaep
  <2> QED
    BY <2>1, <2>2, <2>3
<1> QED
  BY <1>3, <1>4

(* Whatever is done to an account leaves an account.                       *)
LEMMA RiscTyped ==
  ASSUME NEW a \in Accounts
  PROVE  /\ \A kind \in RiscKinds : AfterRisc(a, kind) \in Accounts
         /\ NewAccount \in Accounts
         /\ AccountCounted(a) \in Accounts /\ AccountSuppressed(a) \in Accounts
         /\ AccountReset(a) \in Accounts
<1>1. NewAccount \in Accounts
  BY DEF NewAccount, Accounts
<1>2. /\ a.lifecycle \in {"active", "disabled", "purged"}
      /\ a.optOut \in {"opt-in", "opt-out-initiated", "opt-out"}
      /\ a.total \in Nat /\ a.suppressed \in Nat
      /\ a.resets \in Nat
  BY DEF Accounts
<1>3. ASSUME NEW kind \in RiscKinds
      PROVE  AfterRisc(a, kind) \in Accounts
  <2> DEFINE l == LifecycleAfter(a, kind)
             o == IF kind \in OptOutEvents THEN Declared(kind) ELSE a.optOut
  <2>1. l \in {"active", "disabled", "purged"}
    BY <1>2 DEF LifecycleAfter
  <2>2. o \in {"opt-in", "opt-out-initiated", "opt-out"}
    BY <1>2 DEF Declared
  <2>3. AfterRisc(a, kind) = [a EXCEPT !.lifecycle = l, !.optOut = o]
    BY DEF AfterRisc, Accounts
  <2> HIDE DEF l, o
  <2> QED
    BY <2>1, <2>2, <2>3 DEF Accounts
<1>4. AccountCounted(a) \in Accounts /\ AccountSuppressed(a) \in Accounts
  BY <1>2 DEF AccountCounted, AccountSuppressed, Accounts
<1>5. AccountReset(a) \in Accounts
  BY <1>2 DEF AccountReset, NewAccount, Accounts
<1> QED
  BY <1>1, <1>3, <1>4, <1>5

---------------------------------------------------------------------------
(* The log.                                                                *)

PressOf(pane, models, event, state) ==
  LET resets == models[Len(models)].resets
  IN [pane |-> pane, event |-> event,
      push |-> [model |-> Len(models), era |-> resets,
                counted |-> IF state = "unsent" THEN resets ELSE NotCounted,
                state |-> state]]

(* What the properties look at in an entry stays as it is.                 *)
SameEntry(p, q) ==
  /\ q.pane = p.pane /\ q.event = p.event
  /\ q.push.model = p.push.model /\ q.push.era = p.push.era
  /\ q.push.state = "suppressed" <=> p.push.state = "suppressed"

(* What an entry of the log is made of.                                    *)
LEMMA PressMembers ==
  ASSUME NEW p \in Presses
  PROVE  /\ p.push \in Pushes
         /\ p.push.model \in Nat \ {0} /\ p.push.era \in Nat
         /\ p.push.counted \in Nat \union {NotCounted}
         /\ p.pane \in {"caep", "risc"}
         /\ p.pane = "caep" => p.event \in CaepEvents
         /\ p.pane = "risc" => p.event \in RiscEvents
BY DEF Presses, Pushes

(* An entry whose push is replaced stays what it was otherwise.            *)
LEMMA PushReplaced ==
  ASSUME NEW p \in Presses, NEW push \in Pushes
  PROVE  /\ [p EXCEPT !.push = push] \in Presses
         /\ [p EXCEPT !.push = push].push = push
         /\ [p EXCEPT !.push = push].pane = p.pane
         /\ [p EXCEPT !.push = push].event = p.event
BY DEF Presses

(* A press of either pane makes an entry of the log.                       *)
LEMMA PressTyped ==
  ASSUME NEW S, NEW models \in Seq(S), models # <<>>,
         models[Len(models)].resets \in Nat,
         NEW pane, NEW event,
         \/ pane = "caep" /\ event \in CaepEvents
         \/ pane = "risc" /\ event \in RiscEvents,
         NEW state \in {"pending", "sent", "unsent", "suppressed", "gone"}
  PROVE  PressOf(pane, models, event, state) \in Presses
<1> DEFINE push == [model |-> Len(models), era |-> models[Len(models)].resets,
                    counted |-> IF state = "unsent"
                                THEN models[Len(models)].resets
                                ELSE NotCounted,
                    state |-> state]
<1>1. push \in Pushes
  BY DEF Pushes
<1> HIDE DEF push
<1>2. [pane |-> pane, event |-> event, push |-> push] \in Presses
  BY <1>1 DEF Presses
<1> QED
  BY <1>2 DEF PressOf, push

(* The push of one entry comes to an end.                                  *)
LEMMA EndedLog ==
  ASSUME TypeOK, NEW models, NEW i \in 1..Len(log),
         NEW ending \in Endings, Ended(i, ending, models),
         models[log[i].push.model].resets \in Nat
  PROVE  /\ log' \in Seq(Presses) /\ Len(log') = Len(log)
         /\ \A k \in 1..Len(log) : k # i => log'[k] = log[k]
         /\ SameEntry(log[i], log'[i])
         /\ log'[i].push.counted = models[log[i].push.model].resets
         /\ log[i].push.state = "pending" /\ log'[i].push.state = ending
<1> DEFINE r == models[log[i].push.model].resets
           push == [log[i].push EXCEPT !.state = ending, !.counted = r]
           p == [log[i] EXCEPT !.push = push]
<1>1. log \in Seq(Presses) /\ log[i] \in Presses /\ log[i].push \in Pushes
  BY PressMembers DEF TypeOK
<1>2. log' = [log EXCEPT ![i] = p]
  BY <1>1 DEF Ended, Presses, Pushes
<1>3. /\ push \in Pushes /\ push.state = ending /\ push.counted = r
      /\ push.model = log[i].push.model /\ push.era = log[i].push.era
  BY <1>1 DEF Pushes, Endings
<1> HIDE DEF push
<1>4. p \in Presses /\ p.push = push /\ p.pane = log[i].pane
      /\ p.event = log[i].event
  BY <1>1, <1>3, PushReplaced
<1> HIDE DEF p
<1>5. log[i].push.state = "pending"
  BY DEF Ended
<1>6. log' \in Seq(Presses) /\ Len(log') = Len(log) /\ log'[i] = p
      /\ \A k \in 1..Len(log) : k # i => log'[k] = log[k]
  BY <1>1, <1>2, <1>4
<1> QED
  BY <1>3, <1>4, <1>5, <1>6 DEF SameEntry, Endings

(* A load of the page leaves no push pending, and changes no more.         *)
LEMMA ReloadedLog ==
  ASSUME TypeOK, Reload
  PROVE  /\ log' \in Seq(Presses) /\ Len(log') = Len(log)
         /\ \A i \in 1..Len(log) :
              /\ SameEntry(log[i], log'[i])
              /\ log'[i].push.counted = log[i].push.counted
<1> DEFINE Gone(p) == [p EXCEPT !.push.state = "gone"]
<1>1. ASSUME NEW p \in Presses, p.push.state = "pending"
      PROVE  /\ Gone(p) \in Presses /\ SameEntry(p, Gone(p))
             /\ Gone(p).push.counted = p.push.counted
  <2> DEFINE push == [p.push EXCEPT !.state = "gone"]
  <2>1. /\ p.push \in Pushes /\ push \in Pushes /\ push.state = "gone"
        /\ push.model = p.push.model /\ push.era = p.push.era
        /\ push.counted = p.push.counted
    BY PressMembers DEF Pushes
  <2>2. Gone(p) = [p EXCEPT !.push = push]
    OBVIOUS
  <2> HIDE DEF push
  <2> QED
    BY <1>1, <2>1, <2>2, PushReplaced DEF SameEntry
<1>2. log' = [i \in 1..Len(log) |-> IF log[i].push.state = "pending"
                                    THEN Gone(log[i]) ELSE log[i]]
  BY DEF Reload
<1>3. log \in Seq(Presses)
  BY DEF TypeOK
<1>4. ASSUME NEW i \in 1..Len(log)
      PROVE  /\ log'[i] \in Presses /\ SameEntry(log[i], log'[i])
             /\ log'[i].push.counted = log[i].push.counted
  <2>1. log[i] \in Presses
    BY <1>3
  <2>2. CASE log[i].push.state = "pending"
    BY <1>1, <1>2, <2>1, <2>2
  <2>3. CASE log[i].push.state # "pending"
    BY <1>2, <2>1, <2>3 DEF SameEntry
  <2> QED
    BY <2>2, <2>3
<1>5. log' \in [1..Len(log) -> Presses]
  <2> HIDE DEF Gone
  <2> QED
    BY <1>2, <1>4
<1> QED
  BY <1>3, <1>4, <1>5

---------------------------------------------------------------------------
(* What a step does, as far as the properties tell.                        *)

SessionKept(s, t) ==
  t.resets = s.resets /\ t.state = s.state /\ t.level = s.level
SessionFresh(t) ==
  t.state # "revoked" /\ \A a \in Aspects : t.level[a] = Unsaid

AccountKept(a, b) ==
  b.resets = a.resets /\ b.lifecycle = a.lifecycle /\ b.optOut = a.optOut
AccountFresh(b) == b.lifecycle # "purged" /\ b.optOut # "opt-out"

SessionsQuiet ==
  /\ Len(sessions') >= Len(sessions)
  /\ \A m \in 1..Len(sessions') :
       \/ m <= Len(sessions) /\ SessionKept(sessions[m], sessions'[m])
       \/ /\ SessionFresh(sessions'[m])
          /\ m <= Len(sessions) => sessions'[m].resets > sessions[m].resets
AccountsQuiet ==
  /\ Len(accounts') >= Len(accounts)
  /\ \A m \in 1..Len(accounts') :
       \/ m <= Len(accounts) /\ AccountKept(accounts[m], accounts'[m])
       \/ /\ AccountFresh(accounts'[m])
          /\ m <= Len(accounts) => accounts'[m].resets > accounts[m].resets

LogKept == /\ Len(log') = Len(log)
           /\ \A i \in 1..Len(log) : SameEntry(log[i], log'[i])
LogGrown(pane, model, era) ==
  LET p == log'[Len(log) + 1]
  IN /\ Len(log') = Len(log) + 1
     /\ \A i \in 1..Len(log) : log'[i] = log[i]
     /\ p.pane = pane /\ p.push.model = model /\ p.push.era = era

QuietStep == LogKept /\ SessionsQuiet /\ AccountsQuiet
CaepStep ==
  LET n == Len(sessions)
      p == log'[Len(log) + 1]
  IN /\ LogGrown("caep", n, caepModel.resets) /\ AccountsQuiet
     /\ p.event \in Suggested(caepModel) /\ ~SessionRefuses(caepModel, p.event)
     /\ p.push.state # "suppressed"
     /\ Len(sessions') = n
     /\ SessionKept(AfterCaep(caepModel, p.event), sessions'[n])
     /\ \A m \in 1..n : m # n => sessions'[m] = sessions[m]
RiscStep ==
  LET n == Len(accounts)
      p == log'[Len(log) + 1]
  IN /\ LogGrown("risc", n, riscModel.resets) /\ SessionsQuiet
     /\ ~AccountRefuses(riscModel, p.event.kind)
     /\ Gate(riscModel, p.event.kind, p.event.honour)
     /\ p.push.state # "suppressed"
     /\ Len(accounts') = n
     /\ AccountKept(AfterRisc(riscModel, p.event.kind), accounts'[n])
     /\ \A m \in 1..n : m # n => accounts'[m] = accounts[m]
HeldStep ==
  LET p == log'[Len(log) + 1]
  IN /\ LogGrown("risc", Len(accounts), riscModel.resets)
     /\ SessionsQuiet /\ AccountsQuiet
     /\ p.push.state = "suppressed" /\ p.event.honour
     /\ ~Gate(riscModel, p.event.kind, TRUE)

(* What TypeOK says of the objects and the entries one by one.             *)
LEMMA ModelsTyped ==
  ASSUME TypeOK
  PROVE  /\ Len(sessions) \in 1..Len(sessions) /\ caepModel \in Sessions
         /\ Len(accounts) \in 1..Len(accounts) /\ riscModel \in Accounts
         /\ \A m \in 1..Len(sessions) :
              sessions[m] \in Sessions /\ sessions[m].resets \in Nat
         /\ \A m \in 1..Len(accounts) :
              accounts[m] \in Accounts /\ accounts[m].resets \in Nat
         /\ log \in Seq(Presses) /\ Len(log) \in Nat
         /\ \A i \in 1..Len(log) : log[i] \in Presses
<1>1. /\ sessions \in Seq(Sessions) /\ sessions # <<>>
      /\ accounts \in Seq(Accounts) /\ accounts # <<>>
      /\ log \in Seq(Presses)
  BY DEF TypeOK
<1>2. Len(sessions) \in 1..Len(sessions) /\ Len(accounts) \in 1..Len(accounts)
  BY <1>1
<1>3. /\ \A m \in 1..Len(sessions) : sessions[m] \in Sessions
      /\ \A m \in 1..Len(accounts) : accounts[m] \in Accounts
      /\ \A i \in 1..Len(log) : log[i] \in Presses
  BY <1>1
<1>4. /\ \A s \in Sessions : s.resets \in Nat
      /\ \A a \in Accounts : a.resets \in Nat
  BY DEF Sessions, Accounts
<1> QED
  BY <1>1, <1>2, <1>3, <1>4 DEF caepModel, riscModel

(* What has not changed is quiet.                                          *)
LEMMA Stillness ==
  /\ TypeOK /\ sessions' = sessions => SessionsQuiet
  /\ TypeOK /\ accounts' = accounts => AccountsQuiet
  /\ TypeOK /\ log' = log => LogKept
BY DEF TypeOK, SessionsQuiet, AccountsQuiet, LogKept, SessionKept, AccountKept,
       SameEntry

(* One object put in the place of another.                                 *)
LEMMA OneSession ==
  ASSUME TypeOK, NEW m \in 1..Len(sessions), NEW s \in Sessions,
         sessions' = Put(sessions, m, s),
         \/ SessionKept(sessions[m], s)
         \/ SessionFresh(s) /\ s.resets > sessions[m].resets
  PROVE  SessionsQuiet
<1>1. /\ sessions' \in Seq(Sessions) /\ Len(sessions') = Len(sessions)
      /\ sessions'[m] = s
      /\ \A k \in 1..Len(sessions) : k # m => sessions'[k] = sessions[k]
  <2>1. sessions \in Seq(Sessions)
    BY DEF TypeOK
  <2> QED
    BY <2>1 DEF Put
<1>2. ASSUME NEW k \in 1..Len(sessions'), k # m
      PROVE  SessionKept(sessions[k], sessions'[k])
  BY <1>1, <1>2 DEF SessionKept
<1> QED
  BY <1>1, <1>2, ModelsTyped DEF SessionsQuiet

(* One account put in the place of another.                                *)
LEMMA OneAccount ==
  ASSUME TypeOK, NEW m \in 1..Len(accounts), NEW a \in Accounts,
         accounts' = Put(accounts, m, a),
         \/ AccountKept(accounts[m], a)
         \/ AccountFresh(a) /\ a.resets > accounts[m].resets
  PROVE  AccountsQuiet
<1>1. /\ accounts' \in Seq(Accounts) /\ Len(accounts') = Len(accounts)
      /\ accounts'[m] = a
      /\ \A k \in 1..Len(accounts) : k # m => accounts'[k] = accounts[k]
  <2>1. accounts \in Seq(Accounts)
    BY DEF TypeOK
  <2> QED
    BY <2>1 DEF Put
<1>2. ASSUME NEW k \in 1..Len(accounts'), k # m
      PROVE  AccountKept(accounts[k], accounts'[k])
  BY <1>1, <1>2 DEF AccountKept
<1> QED
  BY <1>1, <1>2, ModelsTyped DEF AccountsQuiet

(* A new object at the end.                                                *)
LEMMA NewSessionQuiet ==
  ASSUME TypeOK, sessions' = Append(sessions, NewSession)
  PROVE  SessionsQuiet /\ sessions' \in Seq(Sessions) /\ sessions' # <<>>
         /\ Len(sessions') = Len(sessions) + 1
<1>1. SessionFresh(NewSession)
  BY DEF SessionFresh, NewSession
<1>2. /\ sessions' \in Seq(Sessions) /\ Len(sessions') = Len(sessions) + 1
      /\ sessions'[Len(sessions) + 1] = NewSession
      /\ \A k \in 1..Len(sessions) : sessions'[k] = sessions[k]
  <2>1. NewSession \in Sessions /\ sessions \in Seq(Sessions)
    BY DEF NewSession, Sessions, TypeOK
  <2> QED
    BY <2>1, AppendTyped
<1>3. ASSUME NEW k \in 1..Len(sessions)
      PROVE  SessionKept(sessions[k], sessions'[k])
  BY <1>2 DEF SessionKept
<1>4. ASSUME NEW k \in 1..Len(sessions')
      PROVE  k \in 1..Len(sessions) \/ (k = Len(sessions) + 1)
  BY <1>2, ModelsTyped
<1>5. SessionsQuiet
  BY <1>1, <1>2, <1>3, <1>4, ModelsTyped DEF SessionsQuiet
<1> QED
  BY <1>2, <1>5, ModelsTyped

(* A new account at the end.                                               *)
LEMMA NewAccountQuiet ==
  ASSUME TypeOK, accounts' = Append(accounts, NewAccount)
  PROVE  AccountsQuiet /\ accounts' \in Seq(Accounts) /\ accounts' # <<>>
         /\ Len(accounts') = Len(accounts) + 1
<1>1. AccountFresh(NewAccount)
  BY DEF AccountFresh, NewAccount
<1>2. /\ accounts' \in Seq(Accounts) /\ Len(accounts') = Len(accounts) + 1
      /\ accounts'[Len(accounts) + 1] = NewAccount
      /\ \A k \in 1..Len(accounts) : accounts'[k] = accounts[k]
  <2>1. NewAccount \in Accounts /\ accounts \in Seq(Accounts)
    BY DEF NewAccount, Accounts, TypeOK
  <2> QED
    BY <2>1, AppendTyped
<1>3. ASSUME NEW k \in 1..Len(accounts)
      PROVE  AccountKept(accounts[k], accounts'[k])
  BY <1>2 DEF AccountKept
<1>4. ASSUME NEW k \in 1..Len(accounts')
      PROVE  k \in 1..Len(accounts) \/ (k = Len(accounts) + 1)
  BY <1>2, ModelsTyped
<1>5. AccountsQuiet
  BY <1>1, <1>2, <1>3, <1>4, ModelsTyped DEF AccountsQuiet
<1> QED
  BY <1>2, <1>5, ModelsTyped

(* A press at the end of the log.                                          *)
LEMMA PressAppended ==
  ASSUME TypeOK, NEW S, NEW models \in Seq(S), models # <<>>,
         models[Len(models)].resets \in Nat,
         NEW pane, NEW event,
         \/ pane = "caep" /\ event \in CaepEvents
         \/ pane = "risc" /\ event \in RiscEvents,
         NEW state \in {"pending", "unsent", "suppressed"},
         Pressed(pane, models, event, state)
  PROVE  /\ log' \in Seq(Presses)
         /\ LogGrown(pane, Len(models), models[Len(models)].resets)
         /\ log'[Len(log) + 1].event = event
         /\ log'[Len(log) + 1].push.state = state
<1> DEFINE p == PressOf(pane, models, event, state)
<1>1. p \in Presses
  BY PressTyped
<1>2. /\ p.pane = pane /\ p.event = event /\ p.push.model = Len(models)
      /\ p.push.era = models[Len(models)].resets /\ p.push.state = state
  BY DEF PressOf
<1>3. log' = Append(log, p)
  BY DEF Pressed, PressOf
<1> HIDE DEF p
<1>4. /\ log' \in Seq(Presses) /\ Len(log') = Len(log) + 1
      /\ log'[Len(log) + 1] = p
      /\ \A k \in 1..Len(log) : log'[k] = log[k]
  BY <1>1, <1>3, AppendTyped, ModelsTyped
<1> QED
  BY <1>2, <1>4 DEF LogGrown

(* An entry is about an object there is.                                   *)
LEMMA LogTyped ==
  ASSUME TypeOK,
         sessions' \in Seq(Sessions), Len(sessions') >= Len(sessions),
         accounts' \in Seq(Accounts), Len(accounts') >= Len(accounts),
         log' \in Seq(Presses),
         \/ LogKept
         \/ LogGrown("caep", Len(sessions), caepModel.resets)
         \/ LogGrown("risc", Len(accounts), riscModel.resets)
  PROVE  TypeOK'
<1>1. /\ Len(sessions') \in Nat /\ Len(accounts') \in Nat
      /\ Len(sessions) \in Nat /\ Len(accounts) \in Nat /\ Len(log) \in Nat
      /\ Len(sessions) >= 1 /\ Len(accounts) >= 1
  BY ModelsTyped
<1>2. ASSUME NEW i \in 1..Len(log), SameEntry(log[i], log'[i])
      PROVE  log'[i].push.model <= Len(IF log'[i].pane = "caep" THEN sessions'
                                                             ELSE accounts')
  <2>1. log[i] \in Presses /\ log[i].push.model \in Nat
    BY ModelsTyped, PressMembers
  <2>2. log[i].push.model <= Len(IF log[i].pane = "caep" THEN sessions
                                                         ELSE accounts)
    BY DEF TypeOK
  <2> QED
    BY <1>1, <1>2, <2>1, <2>2 DEF SameEntry
<1>3. ASSUME NEW i \in 1..Len(log')
      PROVE  log'[i].push.model <= Len(IF log'[i].pane = "caep" THEN sessions'
                                                             ELSE accounts')
  <2>1. CASE LogKept
    BY <1>2, <2>1 DEF LogKept
  <2>2. ASSUME NEW pane, NEW n, NEW r, LogGrown(pane, n, r)
        PROVE  \/ i \in 1..Len(log) /\ SameEntry(log[i], log'[i])
               \/ i = Len(log) + 1
    BY <1>1, <2>2 DEF LogGrown, SameEntry
  <2>3. CASE LogGrown("caep", Len(sessions), caepModel.resets)
    <3>1. CASE i = Len(log) + 1
      BY <1>1, <2>3, <3>1 DEF LogGrown
    <3> QED
      BY <1>2, <2>2, <2>3, <3>1
  <2>4. CASE LogGrown("risc", Len(accounts), riscModel.resets)
    <3>1. CASE i = Len(log) + 1
      BY <1>1, <2>4, <3>1 DEF LogGrown
    <3> QED
      BY <1>2, <2>2, <2>4, <3>1
  <2> QED
    BY <2>1, <2>3, <2>4
<1>4. sessions' # <<>> /\ accounts' # <<>>
  BY <1>1
<1> QED
  BY <1>3, <1>4 DEF TypeOK

---------------------------------------------------------------------------
(* Each action is one of the four kinds of step, and keeps the types.      *)

(* A press of a CAEP button.                                               *)
LEMMA CaepPressKind ==
  ASSUME TypeOK, NEW event \in Suggested(caepModel), CaepSimulate(event)
  PROVE  TypeOK' /\ CaepStep
<1> DEFINE s == AfterCaep(caepModel, event)
           n == Len(sessions)
<1>1. /\ n \in 1..n /\ caepModel \in Sessions /\ sessions \in Seq(Sessions)
      /\ sessions # <<>> /\ caepModel.resets \in Nat
      /\ caepModel = sessions[n]
  BY ModelsTyped DEF TypeOK, caepModel
<1>2. event \in CaepEvents /\ s \in Sessions /\ SessionCounted(s) \in Sessions
  BY <1>1, CaepTyped, SessionTyped
<1>3. SessionKept(s, s) /\ SessionKept(s, SessionCounted(s))
  BY <1>2 DEF SessionKept, SessionCounted, Sessions
<1> HIDE DEF s
<1>4. PICK t \in {s, SessionCounted(s)}, state \in {"pending", "unsent"} :
        sessions' = Put(sessions, n, t) /\ Pressed("caep", sessions, event, state)
  BY DEF CaepSimulate, s
<1>5. t \in Sessions /\ SessionKept(s, t)
  BY <1>2, <1>3, <1>4
<1>6. /\ sessions' \in Seq(Sessions) /\ Len(sessions') = n /\ sessions'[n] = t
      /\ \A m \in 1..n : m # n => sessions'[m] = sessions[m]
  BY <1>1, <1>4, <1>5 DEF Put
<1>7. /\ log' \in Seq(Presses) /\ LogGrown("caep", n, caepModel.resets)
      /\ log'[Len(log) + 1].event = event
      /\ log'[Len(log) + 1].push.state # "suppressed"
  <2>1. /\ Pressed("caep", sessions, event, state)
        /\ sessions[Len(sessions)].resets \in Nat
        /\ state \in {"pending", "unsent", "suppressed"} /\ state # "suppressed"
    BY <1>1, <1>4
  <2> QED
    BY <1>1, <1>2, <2>1, PressAppended
<1>8. ~SessionRefuses(caepModel, event) /\ UNCHANGED accounts
  BY DEF CaepSimulate
<1>9. accounts' \in Seq(Accounts)
  BY <1>8 DEF TypeOK
<1>10. TypeOK'
  BY <1>6, <1>7, <1>8, <1>9, LogTyped, ModelsTyped
<1>11. SessionKept(AfterCaep(caepModel, log'[Len(log) + 1].event), sessions'[n])
  BY <1>5, <1>6, <1>7 DEF s
<1> QED
  BY <1>6, <1>7, <1>8, <1>10, <1>11, Stillness DEF CaepStep

(* A press of a RISC button that sends an event.                           *)
LEMMA RiscPressKind ==
  ASSUME TypeOK, NEW kind \in RiscKinds, NEW honour \in BOOLEAN,
         RiscSimulate(kind, honour)
  PROVE  TypeOK' /\ RiscStep
<1> DEFINE a == AfterRisc(riscModel, kind)
           event == [kind |-> kind, honour |-> honour]
           n == Len(accounts)
<1>1. /\ n \in 1..n /\ riscModel \in Accounts /\ accounts \in Seq(Accounts)
      /\ accounts # <<>> /\ riscModel.resets \in Nat
      /\ riscModel = accounts[n]
  BY ModelsTyped DEF TypeOK, riscModel
<1>3. a \in Accounts /\ AccountCounted(a) \in Accounts
  BY <1>1, RiscTyped
<1>4. event \in RiscEvents /\ event.kind = kind /\ event.honour = honour
  BY DEF RiscEvents
<1> HIDE DEF a, event
<1>6. AccountKept(a, AccountCounted(a)) /\ AccountKept(a, a)
  BY <1>3 DEF AccountKept, AccountCounted, Accounts
<1>8. PICK t \in {a, AccountCounted(a)}, state \in {"pending", "unsent"} :
        accounts' = Put(accounts, n, t) /\ Pressed("risc", accounts, event, state)
  BY DEF RiscSimulate, a, event
<1>9. t \in Accounts /\ AccountKept(a, t)
  BY <1>3, <1>6, <1>8
<1>10. /\ accounts' \in Seq(Accounts) /\ Len(accounts') = n /\ accounts'[n] = t
       /\ \A m \in 1..n : m # n => accounts'[m] = accounts[m]
  BY <1>1, <1>8, <1>9 DEF Put
<1>11. /\ log' \in Seq(Presses) /\ LogGrown("risc", n, riscModel.resets)
       /\ log'[Len(log) + 1].event = event
       /\ log'[Len(log) + 1].push.state # "suppressed"
  <2>1. /\ Pressed("risc", accounts, event, state)
        /\ accounts[Len(accounts)].resets \in Nat
        /\ state \in {"pending", "unsent", "suppressed"} /\ state # "suppressed"
    BY <1>1, <1>8
  <2> QED
    BY <1>1, <1>4, <2>1, PressAppended
<1>12. /\ ~AccountRefuses(riscModel, kind) /\ Gate(riscModel, kind, honour)
       /\ UNCHANGED sessions
  BY DEF RiscSimulate
<1>13. sessions' \in Seq(Sessions)
  BY <1>12 DEF TypeOK
<1>14. TypeOK'
  BY <1>10, <1>11, <1>12, <1>13, LogTyped, ModelsTyped
<1>15. AccountKept(AfterRisc(riscModel, log'[Len(log) + 1].event.kind), accounts'[n])
  BY <1>4, <1>9, <1>10, <1>11 DEF a
<1> QED
  BY <1>4, <1>10, <1>11, <1>12, <1>14, <1>15, Stillness DEF RiscStep

(* A press the opt-out holds back.                                         *)
LEMMA SuppressedKind ==
  ASSUME TypeOK, NEW kind \in RiscKinds, RiscSuppressed(kind)
  PROVE  TypeOK' /\ HeldStep
<1> DEFINE a == AccountSuppressed(riscModel)
           event == [kind |-> kind, honour |-> TRUE]
           n == Len(accounts)
<1>1. /\ n \in 1..n /\ riscModel \in Accounts /\ accounts \in Seq(Accounts)
      /\ accounts # <<>> /\ riscModel.resets \in Nat
      /\ riscModel = accounts[n]
  BY ModelsTyped DEF TypeOK, riscModel
<1>2. a \in Accounts
  BY <1>1, RiscTyped
<1>3. AccountKept(accounts[n], a)
  BY <1>1 DEF AccountKept, AccountSuppressed, Accounts
<1>4. event \in RiscEvents /\ event.kind = kind /\ event.honour = TRUE
  BY DEF RiscEvents
<1> HIDE DEF event
<1>5. /\ accounts' = Put(accounts, n, a)
      /\ Pressed("risc", accounts, event, "suppressed")
      /\ ~Gate(riscModel, kind, TRUE)
      /\ UNCHANGED sessions
  BY DEF RiscSuppressed, event
<1> HIDE DEF a
<1>6. accounts' \in Seq(Accounts) /\ Len(accounts') = n
  BY <1>1, <1>2, <1>5 DEF Put
<1>7. AccountsQuiet
  BY <1>1, <1>2, <1>3, <1>5, OneAccount
<1>8. /\ log' \in Seq(Presses) /\ LogGrown("risc", n, riscModel.resets)
      /\ log'[Len(log) + 1].event = event
      /\ log'[Len(log) + 1].push.state = "suppressed"
  BY <1>1, <1>4, <1>5, PressAppended
<1>9. TypeOK'
  <2>1. sessions' \in Seq(Sessions)
    BY <1>5 DEF TypeOK
  <2> QED
    BY <1>5, <1>6, <1>8, <2>1, LogTyped, ModelsTyped
<1> QED
  BY <1>4, <1>5, <1>7, <1>8, <1>9, Stillness DEF HeldStep

(* A push that ends moves a counter, of the object the press was about.    *)
LEMMA CaepEndedKind ==
  ASSUME TypeOK, NEW i \in 1..Len(log), NEW ending \in Endings,
         CaepEnded(i, ending)
  PROVE  TypeOK' /\ QuietStep
<1> DEFINE m == log[i].push.model
           s == SessionCounted(sessions[m])
<1>1. m \in 1..Len(sessions)
  BY ModelsTyped, PressMembers DEF TypeOK, CaepEnded
<1>2. /\ sessions[m] \in Sessions /\ sessions[m].resets \in Nat
      /\ sessions \in Seq(Sessions)
  BY <1>1, ModelsTyped DEF TypeOK
<1>3. s \in Sessions /\ SessionKept(sessions[m], s)
  BY <1>2, SessionTyped DEF SessionKept, SessionCounted, Sessions
<1>4. /\ Ended(i, ending, sessions) /\ sessions' = Put(sessions, m, s)
      /\ UNCHANGED accounts
  BY DEF CaepEnded
<1>5. /\ log' \in Seq(Presses) /\ Len(log') = Len(log)
      /\ \A k \in 1..Len(log) : k # i => log'[k] = log[k]
      /\ SameEntry(log[i], log'[i])
  BY <1>2, <1>4, EndedLog
<1>6. LogKept
  BY <1>5 DEF LogKept, SameEntry
<1> HIDE DEF m, s
<1>7. SessionsQuiet
  BY <1>1, <1>3, <1>4, OneSession
<1>8. sessions' \in Seq(Sessions) /\ Len(sessions') = Len(sessions)
  BY <1>1, <1>2, <1>3, <1>4 DEF Put
<1>9. accounts' \in Seq(Accounts)
  BY <1>4 DEF TypeOK
<1> QED
  BY <1>4, <1>5, <1>6, <1>7, <1>8, <1>9, LogTyped, ModelsTyped, Stillness
     DEF QuietStep

(* The same for an account.                                                *)
LEMMA RiscEndedKind ==
  ASSUME TypeOK, NEW i \in 1..Len(log), NEW ending \in Endings,
         RiscEnded(i, ending)
  PROVE  TypeOK' /\ QuietStep
<1> DEFINE m == log[i].push.model
           a == AccountCounted(accounts[m])
<1>1. m \in 1..Len(accounts)
  <2>1. log[i].pane = "risc" /\ log[i] \in Presses
    BY ModelsTyped DEF RiscEnded
  <2> QED
    BY <2>1, ModelsTyped, PressMembers DEF TypeOK
<1>2. /\ accounts[m] \in Accounts /\ accounts[m].resets \in Nat
      /\ accounts \in Seq(Accounts)
  BY <1>1, ModelsTyped DEF TypeOK
<1>3. a \in Accounts /\ AccountKept(accounts[m], a)
  BY <1>2, RiscTyped DEF AccountKept, AccountCounted, Accounts
<1>4. /\ Ended(i, ending, accounts) /\ accounts' = Put(accounts, m, a)
      /\ UNCHANGED sessions
  BY DEF RiscEnded
<1>5. /\ log' \in Seq(Presses) /\ Len(log') = Len(log)
      /\ \A k \in 1..Len(log) : k # i => log'[k] = log[k]
      /\ SameEntry(log[i], log'[i])
  BY <1>2, <1>4, EndedLog
<1>6. LogKept
  BY <1>5 DEF LogKept, SameEntry
<1> HIDE DEF m, a
<1>7. AccountsQuiet
  BY <1>1, <1>3, <1>4, OneAccount
<1>8. accounts' \in Seq(Accounts) /\ Len(accounts') = Len(accounts)
  BY <1>1, <1>2, <1>3, <1>4 DEF Put
<1>9. sessions' \in Seq(Sessions)
  BY <1>4 DEF TypeOK
<1> QED
  BY <1>4, <1>5, <1>6, <1>7, <1>8, <1>9, LogTyped, ModelsTyped, Stillness
     DEF QuietStep

(* The actions that leave the log as it is.                                *)
LEMMA TurnKind ==
  ASSUME TypeOK,
         \/ CaepFillFromToken \/ RiscFillFromToken
         \/ ResetCaepSession \/ ResetRiscAccount
         \/ UNCHANGED vars
  PROVE  TypeOK' /\ QuietStep
<1>1. /\ sessions \in Seq(Sessions) /\ accounts \in Seq(Accounts)
      /\ log \in Seq(Presses)
      /\ Len(sessions) \in 1..Len(sessions) /\ caepModel \in Sessions
      /\ Len(accounts) \in 1..Len(accounts) /\ riscModel \in Accounts
      /\ caepModel = sessions[Len(sessions)]
      /\ riscModel = accounts[Len(accounts)]
  BY ModelsTyped DEF TypeOK, caepModel, riscModel
<1>4. CASE CaepFillFromToken
  <2>1. /\ sessions' = Append(sessions, NewSession)
        /\ UNCHANGED <<accounts, log>>
    BY <1>4 DEF CaepFillFromToken
  <2> QED
    BY <1>1, <2>1, NewSessionQuiet, LogTyped, Stillness DEF QuietStep
<1>5. CASE ResetCaepSession
  <2>1. /\ sessions' = Put(sessions, Len(sessions), SessionReset(caepModel))
        /\ UNCHANGED <<accounts, log>>
    BY <1>5 DEF ResetCaepSession
  <2>2. /\ SessionReset(caepModel) \in Sessions
        /\ SessionFresh(SessionReset(caepModel))
        /\ SessionReset(caepModel).resets > caepModel.resets
    <3>1. SessionReset(caepModel) \in Sessions /\ caepModel.resets \in Nat
      BY <1>1, SessionTyped DEF Sessions
    <3>2. SessionReset(caepModel) = [state |-> "established",
                                     level |-> [a \in Aspects |-> Unsaid],
                                     total |-> 0,
                                     resets |-> caepModel.resets + 1]
      BY DEF SessionReset, NewSession
    <3> QED
      BY <3>1, <3>2 DEF SessionFresh
  <2>3. SessionsQuiet
    BY <1>1, <2>1, <2>2, OneSession
  <2>4. sessions' \in Seq(Sessions) /\ Len(sessions') = Len(sessions)
    BY <1>1, <2>1, <2>2 DEF Put
  <2> QED
    BY <1>1, <2>1, <2>3, <2>4, LogTyped, Stillness DEF QuietStep
<1>6. CASE ResetRiscAccount
  <2> DEFINE a == AccountReset(riscModel)
  <2>1. a \in Accounts
    BY <1>1, RiscTyped
  <2>2. AccountFresh(a) /\ a.resets > riscModel.resets
    BY <1>1 DEF AccountFresh, AccountReset, NewAccount, Accounts
  <2>3. /\ accounts' = Put(accounts, Len(accounts), a)
        /\ UNCHANGED <<sessions, log>>
    BY <1>6 DEF ResetRiscAccount
  <2> HIDE DEF a
  <2>4. accounts' \in Seq(Accounts) /\ Len(accounts') = Len(accounts)
    BY <1>1, <2>1, <2>3 DEF Put
  <2>5. AccountsQuiet
    BY <1>1, <2>1, <2>2, <2>3, OneAccount
  <2> QED
    BY <1>1, <2>3, <2>4, <2>5, LogTyped, Stillness DEF QuietStep
<1>8. CASE RiscFillFromToken
  <2>1. /\ accounts' = Append(accounts, NewAccount)
        /\ UNCHANGED <<sessions, log>>
    BY <1>8 DEF RiscFillFromToken
  <2> QED
    BY <1>1, <2>1, NewAccountQuiet, LogTyped, Stillness DEF QuietStep
<1>10. CASE UNCHANGED vars
  BY <1>1, <1>10, LogTyped, Stillness DEF QuietStep, vars
<1> QED
  BY <1>4, <1>5, <1>6, <1>8, <1>10

(* The page is loaded again.                                               *)
LEMMA ReloadKind ==
  ASSUME TypeOK, Reload
  PROVE  TypeOK' /\ QuietStep
<1>2. /\ sessions' = Append(sessions, NewSession)
      /\ accounts' = Append(accounts, NewAccount)
  BY DEF Reload
<1>3. LogKept /\ log' \in Seq(Presses)
  BY ReloadedLog DEF LogKept
<1> QED
  BY <1>2, <1>3, NewSessionQuiet, NewAccountQuiet, LogTyped, ModelsTyped
     DEF QuietStep

(* Every step is of one of the four kinds.                                 *)
LEMMA StepKinds ==
  ASSUME TypeOK, [Next]_vars
  PROVE  /\ TypeOK'
         /\ QuietStep \/ CaepStep \/ RiscStep \/ HeldStep
<1>1. ASSUME NEW event \in Suggested(caepModel), CaepSimulate(event)
      PROVE  TypeOK' /\ CaepStep
  BY <1>1, CaepPressKind
<1>2. ASSUME NEW kind \in RiscKinds, RiscSuppressed(kind)
      PROVE  TypeOK' /\ HeldStep
  BY <1>2, SuppressedKind
<1>3. ASSUME NEW kind \in RiscKinds, NEW honour \in Honour(kind),
             RiscSimulate(kind, honour)
      PROVE  TypeOK' /\ RiscStep
  <2>1. honour \in BOOLEAN
    BY DEF Honour
  <2> QED
    BY <1>3, <2>1, RiscPressKind
<1>4. ASSUME NEW i \in 1..Len(log), NEW ending \in Endings,
             CaepEnded(i, ending) \/ RiscEnded(i, ending)
      PROVE  TypeOK' /\ QuietStep
  BY <1>4, CaepEndedKind, RiscEndedKind
<1>5. CASE Reload
  BY <1>5, ReloadKind
<1> QED
  BY <1>1, <1>2, <1>3, <1>4, <1>5, TurnKind DEF Next, PressRefused

(* THEOREM: every object is one of the kind modelled, and every entry of   *)
(* the log is about an object there is: a push never ends about a session  *)
(* or an account that was not made.  (record() is given the model)         *)
THEOREM TypeCorrect == Spec => []TypeOK
<1>1. Init => TypeOK
  <2> SUFFICES ASSUME Init PROVE TypeOK
    OBVIOUS
  <2>1. NewSession \in Sessions /\ NewAccount \in Accounts
    BY DEF NewSession, Sessions, NewAccount, Accounts
  <2>2. /\ sessions \in Seq(Sessions) /\ sessions # <<>>
        /\ accounts \in Seq(Accounts) /\ accounts # <<>>
    BY <2>1 DEF Init
  <2> QED
    BY <2>2 DEF Init, TypeOK
<1>2. TypeOK /\ [Next]_vars => TypeOK'
  BY StepKinds
<1> QED
  BY <1>1, <1>2, PTL DEF Spec

---------------------------------------------------------------------------
(* What the log says of an object since its last reset is what it is.      *)

EraOK ==
  \A i \in 1..Len(log) :
    LET m == log[i].push.model
    IN log[i].push.era <= IF log[i].pane = "caep" THEN sessions[m].resets
                                                  ELSE accounts[m].resets

About(pane, i, m, resets) ==
  log[i].pane = pane /\ log[i].push.model = m /\ log[i].push.era = resets

RevokedSaid ==
  \A m \in 1..Len(sessions), i \in 1..Len(log) :
    /\ About("caep", i, m, sessions[m].resets)
    /\ log[i].event.kind = "session-revoked"
    /\ \A k \in i+1..Len(log) :
         ~(Together(i, k) /\ log[k].event.kind = "session-established")
    => sessions[m].state = "revoked"

LevelSaid ==
  \A m \in 1..Len(sessions), i \in 1..Len(log), a \in Aspects :
    /\ About("caep", i, m, sessions[m].resets) /\ Changes(i, a)
    /\ \A k \in i+1..Len(log) : ~(Together(i, k) /\ Changes(k, a))
    => sessions[m].level[a] = log[i].event.current

PurgedSaid ==
  \A m \in 1..Len(accounts), i \in 1..Len(log) :
    /\ About("risc", i, m, accounts[m].resets) /\ Built(i)
    /\ log[i].event.kind = "account-purged"
    => accounts[m].lifecycle = "purged"

Effective(i, m) ==
  /\ About("risc", i, m, accounts[m].resets)
  /\ log[i].event.kind = "opt-out-effective"
  /\ \A k \in i+1..Len(log) :
       Together(i, k) => log[k].event.kind \notin OptOutEvents
OptOutSaid ==
  \A m \in 1..Len(accounts) :
    accounts[m].optOut = "opt-out" <=> \E i \in 1..Len(log) : Effective(i, m)

(* A step keeps the entries there are, and moves the object one press is   *)
(* about at most.                                                          *)
Prefix == /\ Len(log') \in Nat /\ Len(log') >= Len(log)
          /\ \A i \in 1..Len(log) : SameEntry(log[i], log'[i])
SessionStill ==
  /\ SessionsQuiet
  /\ \A k \in 1..Len(log') : k > Len(log) => log'[k].pane = "risc"
AccountStill ==
  /\ AccountsQuiet
  /\ \A k \in 1..Len(log') :
       k > Len(log) => \/ log'[k].pane = "caep"
                       \/ /\ log'[k].push.state = "suppressed"
                          /\ log'[k].event.kind \notin OptOutEvents

(* A log that grows keeps its entries.                                     *)
LEMMA GrownPrefix ==
  ASSUME TypeOK, NEW pane, NEW m, NEW r, LogGrown(pane, m, r)
  PROVE  Prefix /\ \A k \in 1..Len(log') : k > Len(log) => k = Len(log) + 1
BY ModelsTyped DEF LogGrown, Prefix, SameEntry

(* What a step does to the objects of each pane.                           *)
LEMMA StepMoves ==
  ASSUME TypeOK, [Next]_vars
  PROVE  /\ TypeOK' /\ Prefix
         /\ SessionStill \/ CaepStep
         /\ AccountStill \/ RiscStep
<1>1. CASE QuietStep
  BY <1>1, StepKinds, ModelsTyped
     DEF QuietStep, LogKept, Prefix, SessionStill, AccountStill
<1>2. CASE CaepStep
  BY <1>2, StepKinds, GrownPrefix DEF CaepStep, LogGrown, AccountStill
<1>3. CASE RiscStep
  BY <1>3, StepKinds, GrownPrefix DEF RiscStep, LogGrown, SessionStill
<1>4. CASE HeldStep
  BY <1>4, StepKinds, GrownPrefix
     DEF HeldStep, LogGrown, SessionStill, AccountStill, Gate
<1> QED
  BY <1>1, <1>2, <1>3, <1>4, StepKinds

(* The last thing said of the opt-out of the account of press i, before    *)
(* it, is that it is effective.                                            *)
Pronounced(i) ==
  \E j \in 1..i-1 :
    /\ Together(i, j)
    /\ log[j].event.kind = "opt-out-effective"
    /\ \A k \in j+1..i-1 :
         Together(i, k) => log[k].event.kind \notin OptOutEvents

(* Of the entries there were, the properties say what they said.           *)
LEMMA OldEntries ==
  ASSUME TypeOK, TypeOK', Prefix, NEW i \in 1..Len(log)
  PROVE  /\ i \in 1..Len(log')
         /\ log'[i].pane = log[i].pane /\ log'[i].event = log[i].event
         /\ log'[i].push.model = log[i].push.model
         /\ log'[i].push.era = log[i].push.era
         /\ Built(i)' <=> Built(i)
         /\ \A j \in 1..Len(log) : Together(i, j)' <=> Together(i, j)
         /\ \A a : Changes(i, a)' <=> Changes(i, a)
         /\ Pronounced(i)' <=> Pronounced(i)
<1>1. ASSUME NEW j \in 1..Len(log)
      PROVE  SameEntry(log[j], log'[j])
  BY DEF Prefix
<1>2. /\ \A j \in 1..Len(log) : Together(i, j)' <=> Together(i, j)
      /\ \A j \in 1..Len(log), k \in 1..Len(log) :
           Together(j, k)' <=> Together(j, k)
  BY <1>1 DEF Together, SameEntry
<1>3. Pronounced(i)' <=> Pronounced(i)
  <2>1. \A j \in 1..i-1 : j \in 1..Len(log) /\ log'[j].event = log[j].event
    BY <1>1, ModelsTyped DEF SameEntry
  <2>2. \A j \in 1..i-1 : \A k \in j+1..i-1 : k \in 1..i-1
    BY ModelsTyped
  <2> QED
    BY <1>2, <2>1, <2>2 DEF Pronounced
<1> QED
  BY <1>1, <1>2, <1>3, ModelsTyped DEF SameEntry, Built, Changes, Prefix

(* What is pressed is about the object shown, as it is.                    *)
LEMMA NewEntry ==
  ASSUME TypeOK, [Next]_vars, NEW k \in 1..Len(log'), k > Len(log)
  PROVE  /\ k = Len(log) + 1
         /\ \/ /\ log'[k].pane = "caep" /\ log'[k].push.model = Len(sessions)
               /\ log'[k].push.era = caepModel.resets
            \/ /\ log'[k].pane = "risc" /\ log'[k].push.model = Len(accounts)
               /\ log'[k].push.era = riscModel.resets
<1>1. CASE QuietStep
  BY <1>1, ModelsTyped DEF QuietStep, LogKept
<1>2. ASSUME NEW pane, NEW m, NEW r, LogGrown(pane, m, r)
      PROVE  /\ k = Len(log) + 1 /\ log'[k].pane = pane
             /\ log'[k].push.model = m /\ log'[k].push.era = r
  BY <1>2, GrownPrefix DEF LogGrown
<1>3. CASE CaepStep
  BY <1>2, <1>3 DEF CaepStep
<1>4. CASE RiscStep
  BY <1>2, <1>4 DEF RiscStep
<1>5. CASE HeldStep
  BY <1>2, <1>5 DEF HeldStep
<1> QED
  BY <1>1, <1>3, <1>4, <1>5, StepKinds

(* An object is never reset less often than it was.                        *)
LEMMA ResetsGrow ==
  ASSUME TypeOK, [Next]_vars
  PROVE  /\ \A m \in 1..Len(sessions) :
              /\ m \in 1..Len(sessions')
              /\ sessions'[m].resets \in Nat /\ sessions[m].resets \in Nat
              /\ sessions'[m].resets >= sessions[m].resets
         /\ \A m \in 1..Len(accounts) :
              /\ m \in 1..Len(accounts')
              /\ accounts'[m].resets \in Nat /\ accounts[m].resets \in Nat
              /\ accounts'[m].resets >= accounts[m].resets
<1>1. /\ TypeOK'
      /\ SessionStill \/ CaepStep
      /\ AccountStill \/ RiscStep
  BY StepMoves
<1>2. /\ \A m \in 1..Len(sessions') : sessions'[m].resets \in Nat
      /\ \A m \in 1..Len(accounts') : accounts'[m].resets \in Nat
  <2>1. sessions' \in Seq(Sessions) /\ accounts' \in Seq(Accounts)
    BY <1>1 DEF TypeOK
  <2>2. /\ \A s \in Sessions : s.resets \in Nat
        /\ \A a \in Accounts : a.resets \in Nat
    BY DEF Sessions, Accounts
  <2> QED
    BY <2>1, <2>2
<1>3. ASSUME NEW m \in 1..Len(sessions)
      PROVE  m \in 1..Len(sessions') /\ sessions'[m].resets >= sessions[m].resets
  <2>1. CASE SessionStill
    <3>1. m \in 1..Len(sessions')
      BY <2>1, ModelsTyped, <1>1 DEF SessionStill, SessionsQuiet, TypeOK
    <3> QED
      BY <2>1, <3>1, <1>2, ModelsTyped
         DEF SessionStill, SessionsQuiet, SessionKept
  <2>2. CASE CaepStep
    <3>1. m \in 1..Len(sessions')
      BY <2>2 DEF CaepStep
    <3>2. CASE m # Len(sessions)
      BY <2>2, <3>1, <3>2, ModelsTyped DEF CaepStep
    <3>3. CASE m = Len(sessions)
      <4> DEFINE e == log'[Len(log) + 1].event
      <4>1. AfterCaep(caepModel, e).resets = caepModel.resets
        BY ModelsTyped DEF AfterCaep, Sessions
      <4>2. sessions'[m].resets = sessions[m].resets
        BY <2>2, <3>3, <4>1 DEF CaepStep, SessionKept, caepModel
      <4> QED
        BY <3>1, <4>2, ModelsTyped
    <3> QED
      BY <3>2, <3>3
  <2> QED
    BY <1>1, <2>1, <2>2
<1>4. ASSUME NEW m \in 1..Len(accounts)
      PROVE  m \in 1..Len(accounts') /\ accounts'[m].resets >= accounts[m].resets
  <2>1. CASE AccountStill
    <3>1. m \in 1..Len(accounts')
      BY <2>1, ModelsTyped, <1>1 DEF AccountStill, AccountsQuiet, TypeOK
    <3> QED
      BY <2>1, <3>1, <1>2, ModelsTyped
         DEF AccountStill, AccountsQuiet, AccountKept
  <2>2. CASE RiscStep
    <3>1. m \in 1..Len(accounts')
      BY <2>2 DEF RiscStep
    <3>2. CASE m # Len(accounts)
      BY <2>2, <3>1, <3>2, ModelsTyped DEF RiscStep
    <3>3. CASE m = Len(accounts)
      <4> DEFINE e == log'[Len(log) + 1].event
      <4>1. AfterRisc(riscModel, e.kind).resets = riscModel.resets
        BY ModelsTyped DEF AfterRisc, Accounts
      <4>2. accounts'[m].resets = accounts[m].resets
        BY <2>2, <3>3, <4>1 DEF RiscStep, AccountKept, riscModel
      <4> QED
        BY <3>1, <4>2, ModelsTyped
    <3> QED
      BY <3>2, <3>3
  <2> QED
    BY <1>1, <2>1, <2>2
<1> QED
  BY <1>2, <1>3, <1>4, ModelsTyped

(* No entry is of an era its object has yet to come to.                    *)
LEMMA EraStep ==
  ASSUME TypeOK, EraOK, [Next]_vars
  PROVE  EraOK'
<1>1. TypeOK' /\ Prefix
  BY StepMoves
<1>2. ASSUME NEW i \in 1..Len(log)
      PROVE  log'[i].push.era <= IF log'[i].pane = "caep"
                                 THEN sessions'[log'[i].push.model].resets
                                 ELSE accounts'[log'[i].push.model].resets
  <2>1. /\ log[i] \in Presses /\ log[i].push.era \in Nat
        /\ log[i].push.model \in Nat \ {0}
        /\ log[i].push.model <= Len(IF log[i].pane = "caep" THEN sessions
                                                            ELSE accounts)
    BY ModelsTyped, PressMembers DEF TypeOK
  <2>2. /\ log'[i].pane = log[i].pane
        /\ log'[i].push.model = log[i].push.model
        /\ log'[i].push.era = log[i].push.era
    BY <1>1, OldEntries
  <2>3. log[i].push.era <= IF log[i].pane = "caep"
                           THEN sessions[log[i].push.model].resets
                           ELSE accounts[log[i].push.model].resets
    BY DEF EraOK
  <2>4. CASE log[i].pane = "caep"
    <3>1. log[i].push.model \in 1..Len(sessions)
      BY <2>1, <2>4, ModelsTyped
    <3>2. /\ sessions'[log[i].push.model].resets \in Nat
          /\ sessions[log[i].push.model].resets \in Nat
          /\ sessions'[log[i].push.model].resets
               >= sessions[log[i].push.model].resets
      BY <3>1, ResetsGrow
    <3> QED
      BY <2>1, <2>2, <2>3, <2>4, <3>2
  <2>5. CASE log[i].pane # "caep"
    <3>1. log[i].push.model \in 1..Len(accounts)
      BY <2>1, <2>5, ModelsTyped
    <3>2. /\ accounts'[log[i].push.model].resets \in Nat
          /\ accounts[log[i].push.model].resets \in Nat
          /\ accounts'[log[i].push.model].resets
               >= accounts[log[i].push.model].resets
      BY <3>1, ResetsGrow
    <3> QED
      BY <2>1, <2>2, <2>3, <2>5, <3>2
  <2> QED
    BY <2>4, <2>5
<1>3. ASSUME NEW i \in 1..Len(log'), i > Len(log)
      PROVE  log'[i].push.era <= IF log'[i].pane = "caep"
                                 THEN sessions'[log'[i].push.model].resets
                                 ELSE accounts'[log'[i].push.model].resets
  BY <1>3, NewEntry, ResetsGrow, ModelsTyped DEF caepModel, riscModel
<1>4. \A i \in 1..Len(log') : i \in 1..Len(log) \/ i > Len(log)
  BY <1>1, ModelsTyped DEF Prefix
<1> QED
  BY <1>2, <1>3, <1>4 DEF EraOK

(* The object an entry tells of as a step ends is the one it told of as it *)
(* began, as it was or as one press has left it.                           *)
LEMMA SessionEra ==
  ASSUME TypeOK, EraOK, [Next]_vars,
         NEW m \in 1..Len(sessions'), NEW i \in 1..Len(log),
         About("caep", i, m, sessions[m].resets)'
  PROVE  /\ m \in 1..Len(sessions)
         /\ About("caep", i, m, sessions[m].resets)
         /\ sessions'[m].resets = sessions[m].resets
         /\ \/ SessionStill /\ SessionKept(sessions[m], sessions'[m])
            \/ CaepStep /\ m # Len(sessions) /\ sessions'[m] = sessions[m]
            \/ CaepStep /\ m = Len(sessions)
<1>1. /\ TypeOK' /\ Prefix
      /\ SessionStill \/ CaepStep
  BY StepMoves
<1>2. /\ log'[i].pane = log[i].pane
      /\ log'[i].push.model = log[i].push.model
      /\ log'[i].push.era = log[i].push.era
  BY <1>1, OldEntries
<1>3. /\ log[i].pane = "caep" /\ log[i].push.model = m
      /\ log[i].push.era = sessions'[m].resets
  BY <1>2 DEF About
<1>4. m \in 1..Len(sessions)
  BY <1>3, ModelsTyped DEF TypeOK
<1>5. sessions'[m].resets <= sessions[m].resets
  BY <1>3 DEF EraOK
<1>6. sessions'[m].resets = sessions[m].resets
  BY <1>4, <1>5, ResetsGrow
<1>7. CASE SessionStill
  <2>1. \/ SessionKept(sessions[m], sessions'[m])
        \/ m <= Len(sessions) => sessions'[m].resets > sessions[m].resets
    BY <1>7 DEF SessionStill, SessionsQuiet
  <2>2. m <= Len(sessions) /\ sessions[m].resets \in Nat
    BY <1>4, ModelsTyped
  <2>3. SessionKept(sessions[m], sessions'[m])
    BY <1>6, <2>1, <2>2
  <2> QED
    BY <1>3, <1>4, <1>6, <1>7, <2>3 DEF About
<1>8. CASE CaepStep
  BY <1>3, <1>4, <1>6, <1>8 DEF CaepStep, About
<1> QED
  BY <1>1, <1>4, <1>6, <1>7, <1>8

(* The same for an account.                                                *)
LEMMA AccountEra ==
  ASSUME TypeOK, EraOK, [Next]_vars,
         NEW m \in 1..Len(accounts'), NEW i \in 1..Len(log),
         About("risc", i, m, accounts[m].resets)'
  PROVE  /\ m \in 1..Len(accounts)
         /\ About("risc", i, m, accounts[m].resets)
         /\ accounts'[m].resets = accounts[m].resets
         /\ \/ AccountStill /\ AccountKept(accounts[m], accounts'[m])
            \/ RiscStep /\ m # Len(accounts) /\ accounts'[m] = accounts[m]
            \/ RiscStep /\ m = Len(accounts)
<1>1. /\ TypeOK' /\ Prefix
      /\ AccountStill \/ RiscStep
  BY StepMoves
<1>2. /\ log'[i].pane = log[i].pane
      /\ log'[i].push.model = log[i].push.model
      /\ log'[i].push.era = log[i].push.era
  BY <1>1, OldEntries
<1>3. /\ log[i].pane = "risc" /\ log[i].push.model = m
      /\ log[i].push.era = accounts'[m].resets
  BY <1>2 DEF About
<1>4. m \in 1..Len(accounts)
  BY <1>3, ModelsTyped DEF TypeOK
<1>5. accounts'[m].resets <= accounts[m].resets
  BY <1>3 DEF EraOK
<1>6. accounts'[m].resets = accounts[m].resets
  BY <1>4, <1>5, ResetsGrow
<1>7. CASE AccountStill
  <2>1. \/ AccountKept(accounts[m], accounts'[m])
        \/ m <= Len(accounts) => accounts'[m].resets > accounts[m].resets
    BY <1>7 DEF AccountStill, AccountsQuiet
  <2>2. m <= Len(accounts) /\ accounts[m].resets \in Nat
    BY <1>4, ModelsTyped
  <2>3. AccountKept(accounts[m], accounts'[m])
    BY <1>6, <2>1, <2>2
  <2> QED
    BY <1>3, <1>4, <1>6, <1>7, <2>3 DEF About
<1>8. CASE RiscStep
  BY <1>3, <1>4, <1>6, <1>8 DEF RiscStep, About
<1> QED
  BY <1>1, <1>4, <1>6, <1>7, <1>8

(* The entry a press of the pane adds, and what it makes of the session.   *)
LEMMA CaepEntry ==
  ASSUME TypeOK, [Next]_vars, CaepStep, NEW N, N = Len(log) + 1
  PROVE  LET n == Len(sessions)
             e == log'[N].event
         IN /\ N \in 1..Len(log') /\ N > Len(log)
            /\ \A k \in 1..Len(log') : k \in 1..Len(log) \/ k = N
            /\ log'[N].pane = "caep" /\ log'[N].push.model = n
            /\ log'[N].push.era = sessions[n].resets
            /\ e \in CaepEvents /\ e \in Suggested(sessions[n])
            /\ sessions[n] \in Sessions
            /\ ~SessionRefuses(sessions[n], e)
            /\ SessionKept(AfterCaep(sessions[n], e), sessions'[n])
            /\ sessions'[n].resets = sessions[n].resets
            /\ \A i \in 1..Len(log) :
                 About("caep", i, n, sessions[n].resets) => Together(i, N)'
<1> DEFINE n == Len(sessions)
           e == log'[N].event
<1>1. LogGrown("caep", n, caepModel.resets)
  BY DEF CaepStep
<1>2. /\ N \in 1..Len(log') /\ N > Len(log) /\ Prefix
      /\ \A k \in 1..Len(log') : k \in 1..Len(log) \/ k = N
  BY <1>1, GrownPrefix, ModelsTyped DEF LogGrown
<1>3. /\ log'[N].pane = "caep" /\ log'[N].push.model = n
      /\ log'[N].push.era = sessions[n].resets
  BY <1>1 DEF LogGrown, caepModel
<1>4. /\ e \in Suggested(sessions[n]) /\ ~SessionRefuses(sessions[n], e)
      /\ SessionKept(AfterCaep(sessions[n], e), sessions'[n])
  BY DEF CaepStep, caepModel
<1>5. sessions[n] \in Sessions /\ e \in CaepEvents
  BY <1>4, ModelsTyped, CaepTyped DEF caepModel
<1>6. sessions'[n].resets = sessions[n].resets
  BY <1>4, <1>5 DEF SessionKept, AfterCaep, Sessions
<1>7. ASSUME NEW i \in 1..Len(log), About("caep", i, n, sessions[n].resets)
      PROVE  Together(i, N)'
  BY <1>1, <1>3, <1>7 DEF LogGrown, About, Together
<1> QED
  BY <1>2, <1>3, <1>4, <1>5, <1>6, <1>7

(* A session stays revoked until it is said to be established.             *)
LEMMA RevokedStep ==
  ASSUME TypeOK, EraOK, RevokedSaid, [Next]_vars
  PROVE  RevokedSaid'
<1> DEFINE n == Len(sessions)
<1> PICK N : N = Len(log) + 1
  OBVIOUS
<1>1. /\ TypeOK' /\ Prefix
      /\ SessionStill \/ CaepStep
  BY StepMoves
<1> SUFFICES ASSUME NEW m \in 1..Len(sessions'), NEW i \in 1..Len(log'),
                    About("caep", i, m, sessions[m].resets)',
                    log'[i].event.kind = "session-revoked",
                    \A k \in i+1..Len(log') :
                      ~(/\ Together(i, k)'
                        /\ log'[k].event.kind = "session-established")
             PROVE  sessions'[m].state = "revoked"
  BY DEF RevokedSaid
<1>2. CASE i \in 1..Len(log)
  <2>1. /\ m \in 1..Len(sessions)
        /\ About("caep", i, m, sessions[m].resets)
    BY <1>2, SessionEra
  <2>2. log[i].event.kind = "session-revoked"
    BY <1>1, <1>2, OldEntries
  <2>3. ASSUME NEW k \in i+1..Len(log)
        PROVE  ~(Together(i, k) /\ log[k].event.kind = "session-established")
    <3>1. k \in 1..Len(log) /\ k \in i+1..Len(log')
      BY <1>1, <1>2, ModelsTyped DEF Prefix
    <3> QED
      BY <1>1, <1>2, <3>1, OldEntries
  <2>4. sessions[m].state = "revoked"
    BY <1>2, <2>1, <2>2, <2>3 DEF RevokedSaid
  <2>5. CASE SessionKept(sessions[m], sessions'[m]) \/ sessions'[m] = sessions[m]
    BY <2>4, <2>5 DEF SessionKept
  <2>6. CASE CaepStep /\ m = n
    <3> DEFINE e == log'[N].event
    <3>1. Together(i, N)' /\ N \in i+1..Len(log')
      BY <1>2, <2>1, <2>6, CaepEntry, ModelsTyped
    <3>2. e.kind # "session-established"
      BY <3>1
    <3>3. /\ SessionKept(AfterCaep(sessions[n], e), sessions'[n])
          /\ ~SessionRefuses(sessions[n], e) /\ sessions[n] \in Sessions
      BY <2>6, CaepEntry
    <3>4. e.kind # "session-presented"
      BY <2>4, <2>6, <3>3 DEF SessionRefuses
    <3>5. AfterCaep(sessions[n], e).state = "revoked"
      BY <2>4, <2>6, <3>2, <3>3, <3>4 DEF AfterCaep, Stated, Sessions
    <3> QED
      BY <2>6, <3>3, <3>5 DEF SessionKept
  <2> QED
    BY <1>2, <2>5, <2>6, SessionEra
<1>3. CASE i \notin 1..Len(log)
  <2>1. i > Len(log) /\ log'[i].pane = "caep" /\ log'[i].push.model = m
    BY <1>3, ModelsTyped DEF About
  <2>2. CaepStep
    BY <1>1, <2>1 DEF SessionStill
  <2>3. i = N /\ m = n
    BY <1>3, <2>1, <2>2, CaepEntry
  <2>4. SessionKept(AfterCaep(sessions[n], log'[N].event), sessions'[n])
        /\ sessions[n] \in Sessions
    BY <2>2, CaepEntry
  <2>5. AfterCaep(sessions[n], log'[N].event).state = "revoked"
    BY <2>3, <2>4 DEF AfterCaep, Stated, Sessions
  <2> QED
    BY <2>3, <2>4, <2>5 DEF SessionKept
<1> QED
  BY <1>2, <1>3

(* A level stays until an event says another.                              *)
LEMMA LevelStep ==
  ASSUME TypeOK, EraOK, LevelSaid, [Next]_vars
  PROVE  LevelSaid'
<1> DEFINE n == Len(sessions)
<1> PICK N : N = Len(log) + 1
  OBVIOUS
<1>1. /\ TypeOK' /\ Prefix
      /\ SessionStill \/ CaepStep
  BY StepMoves
<1> SUFFICES ASSUME NEW m \in 1..Len(sessions'), NEW i \in 1..Len(log'),
                    NEW a \in Aspects,
                    About("caep", i, m, sessions[m].resets)',
                    Changes(i, a)',
                    \A k \in i+1..Len(log') :
                      ~(Together(i, k)' /\ Changes(k, a)')
             PROVE  sessions'[m].level[a] = log'[i].event.current
  BY DEF LevelSaid
<1>2. CASE i \in 1..Len(log)
  <2>1. /\ m \in 1..Len(sessions)
        /\ About("caep", i, m, sessions[m].resets)
    BY <1>2, SessionEra
  <2>2. Changes(i, a) /\ log'[i].event = log[i].event
    BY <1>1, <1>2, OldEntries
  <2>3. ASSUME NEW k \in i+1..Len(log)
        PROVE  ~(Together(i, k) /\ Changes(k, a))
    <3>1. k \in 1..Len(log) /\ k \in i+1..Len(log')
      BY <1>1, <1>2, ModelsTyped DEF Prefix
    <3> QED
      BY <1>1, <1>2, <3>1, OldEntries
  <2>4. sessions[m].level[a] = log'[i].event.current
    BY <1>2, <2>1, <2>2, <2>3 DEF LevelSaid
  <2>5. CASE SessionKept(sessions[m], sessions'[m]) \/ sessions'[m] = sessions[m]
    BY <2>4, <2>5 DEF SessionKept
  <2>6. CASE CaepStep /\ m = n
    <3> DEFINE e == log'[N].event
    <3>1. Together(i, N)' /\ N \in i+1..Len(log')
      BY <1>2, <2>1, <2>6, CaepEntry, ModelsTyped
    <3>2. ~Changes(N, a)'
      BY <3>1
    <3>3. /\ SessionKept(AfterCaep(sessions[n], e), sessions'[n])
          /\ log'[N].pane = "caep" /\ sessions[n] \in Sessions
          /\ e \in CaepEvents
      BY <2>6, CaepEntry
    <3>4. ~(e.kind = "change" /\ e.aspect = a)
      BY <3>2, <3>3 DEF Changes
    <3>5. AfterCaep(sessions[n], e).level[a] = sessions[n].level[a]
      BY <3>3, <3>4 DEF AfterCaep, Stated, Sessions
    <3> QED
      BY <2>4, <2>6, <3>3, <3>5 DEF SessionKept
  <2> QED
    BY <1>2, <2>5, <2>6, SessionEra
<1>3. CASE i \notin 1..Len(log)
  <2> DEFINE e == log'[N].event
  <2>1. i > Len(log) /\ log'[i].pane = "caep" /\ log'[i].push.model = m
    BY <1>3, ModelsTyped DEF About
  <2>2. CaepStep
    BY <1>1, <2>1 DEF SessionStill
  <2>3. i = N /\ m = n
    BY <1>3, <2>1, <2>2, CaepEntry
  <2>4. SessionKept(AfterCaep(sessions[n], e), sessions'[n])
        /\ sessions[n] \in Sessions
    BY <2>2, CaepEntry
  <2>5. e.kind = "change" /\ e.aspect = a
    BY <2>3 DEF Changes
  <2>6. AfterCaep(sessions[n], e).level[a] = e.current
    BY <2>4, <2>5 DEF AfterCaep, Stated, Sessions
  <2> QED
    BY <2>3, <2>4, <2>6 DEF SessionKept
<1> QED
  BY <1>2, <1>3

(* The entry a press of the other pane adds, and what it makes of the      *)
(* account.                                                                *)
LEMMA RiscEntry ==
  ASSUME TypeOK, [Next]_vars, RiscStep, NEW N, N = Len(log) + 1
  PROVE  LET n == Len(accounts)
             e == log'[N].event
         IN /\ N \in 1..Len(log') /\ N > Len(log)
            /\ \A k \in 1..Len(log') : k \in 1..Len(log) \/ k = N
            /\ log'[N].pane = "risc" /\ log'[N].push.model = n
            /\ log'[N].push.era = accounts[n].resets
            /\ log'[N].push.state # "suppressed"
            /\ n \in 1..n /\ Len(accounts') = n /\ accounts[n] \in Accounts
            /\ ~AccountRefuses(accounts[n], e.kind)
            /\ Gate(accounts[n], e.kind, e.honour)
            /\ accounts'[n].resets = accounts[n].resets
            /\ accounts'[n].lifecycle = LifecycleAfter(accounts[n], e.kind)
            /\ accounts'[n].optOut = IF e.kind \in OptOutEvents
                                     THEN Declared(e.kind)
                                     ELSE accounts[n].optOut
            /\ \A i \in 1..Len(log) :
                 About("risc", i, n, accounts[n].resets) => Together(i, N)'
<1> DEFINE n == Len(accounts)
           e == log'[N].event
<1>1. LogGrown("risc", n, riscModel.resets)
  BY DEF RiscStep
<1>2. /\ N \in 1..Len(log') /\ N > Len(log)
      /\ \A k \in 1..Len(log') : k \in 1..Len(log) \/ k = N
  BY <1>1, GrownPrefix, ModelsTyped DEF LogGrown
<1>3. /\ log'[N].pane = "risc" /\ log'[N].push.model = n
      /\ log'[N].push.era = accounts[n].resets
  BY <1>1 DEF LogGrown, riscModel
<1>4. /\ log'[N].push.state # "suppressed" /\ Len(accounts') = n
      /\ ~AccountRefuses(accounts[n], e.kind)
      /\ Gate(accounts[n], e.kind, e.honour)
  BY DEF RiscStep, riscModel
<1>5. n \in 1..n /\ accounts[n] \in Accounts
  BY ModelsTyped
<1>6. AccountKept(AfterRisc(accounts[n], e.kind), accounts'[n])
  BY DEF RiscStep, riscModel
<1>7. /\ accounts'[n].resets = accounts[n].resets
      /\ accounts'[n].lifecycle = LifecycleAfter(accounts[n], e.kind)
      /\ accounts'[n].optOut = IF e.kind \in OptOutEvents
                               THEN Declared(e.kind) ELSE accounts[n].optOut
  BY <1>5, <1>6 DEF AccountKept, AfterRisc, Accounts
<1>8. ASSUME NEW i \in 1..Len(log), About("risc", i, n, accounts[n].resets)
      PROVE  Together(i, N)'
  BY <1>1, <1>3, <1>8 DEF LogGrown, About, Together
<1> QED
  BY <1>2, <1>3, <1>4, <1>5, <1>7, <1>8

(* An account stays purged until it is reset.                              *)
LEMMA PurgedStep ==
  ASSUME TypeOK, EraOK, PurgedSaid, [Next]_vars
  PROVE  PurgedSaid'
<1> DEFINE n == Len(accounts)
<1> PICK N : N = Len(log) + 1
  OBVIOUS
<1>1. /\ TypeOK' /\ Prefix
      /\ AccountStill \/ RiscStep
  BY StepMoves
<1> SUFFICES ASSUME NEW m \in 1..Len(accounts'), NEW i \in 1..Len(log'),
                    About("risc", i, m, accounts[m].resets)', Built(i)',
                    log'[i].event.kind = "account-purged"
             PROVE  accounts'[m].lifecycle = "purged"
  BY DEF PurgedSaid
<1>2. CASE i \in 1..Len(log)
  <2>1. /\ m \in 1..Len(accounts)
        /\ About("risc", i, m, accounts[m].resets)
    BY <1>2, AccountEra
  <2>2. Built(i) /\ log[i].event.kind = "account-purged"
    BY <1>1, <1>2, OldEntries
  <2>3. accounts[m].lifecycle = "purged"
    BY <1>2, <2>1, <2>2 DEF PurgedSaid
  <2>4. CASE AccountKept(accounts[m], accounts'[m]) \/ accounts'[m] = accounts[m]
    BY <2>3, <2>4 DEF AccountKept
  <2>5. CASE RiscStep /\ m = n
    <3> DEFINE kind == log'[N].event.kind
    <3>1. /\ accounts'[n].lifecycle = LifecycleAfter(accounts[n], kind)
          /\ ~AccountRefuses(accounts[n], kind)
      BY <2>5, RiscEntry
    <3> QED
      BY <2>3, <2>5, <3>1 DEF LifecycleAfter, AccountRefuses
  <2> QED
    BY <1>2, <2>4, <2>5, AccountEra
<1>3. CASE i \notin 1..Len(log)
  <2>1. /\ i > Len(log) /\ log'[i].pane = "risc" /\ log'[i].push.model = m
        /\ log'[i].push.state # "suppressed"
    BY <1>3, ModelsTyped DEF About, Built
  <2>2. RiscStep
    BY <1>1, <2>1 DEF AccountStill
  <2>3. i = N /\ m = n
    BY <1>3, <2>1, <2>2, RiscEntry
  <2>4. accounts'[n].lifecycle = LifecycleAfter(accounts[n], log'[N].event.kind)
    BY <2>2, RiscEntry
  <2> QED
    BY <2>3, <2>4 DEF LifecycleAfter
<1> QED
  BY <1>2, <1>3

(* What is said of an account's opt-out is what was said of it, when what  *)
(* is added to the log says nothing about it.                              *)
LEMMA EffectiveKept ==
  ASSUME TypeOK, EraOK, [Next]_vars,
         NEW m \in 1..Len(accounts), m \in 1..Len(accounts'),
         accounts'[m].resets = accounts[m].resets,
         \A k \in 1..Len(log') :
           k > Len(log) => \/ log'[k].pane # "risc"
                           \/ log'[k].push.model # m
                           \/ log'[k].event.kind \notin OptOutEvents
  PROVE  (\E i \in 1..Len(log') : Effective(i, m)')
           <=> \E i \in 1..Len(log) : Effective(i, m)
<1>1. TypeOK' /\ Prefix
  BY StepMoves
<1>2. ASSUME NEW i \in 1..Len(log), Effective(i, m)
      PROVE  i \in 1..Len(log') /\ Effective(i, m)'
  <2>1. /\ i \in 1..Len(log') /\ log'[i].pane = log[i].pane
        /\ log'[i].push.model = log[i].push.model
        /\ log'[i].push.era = log[i].push.era
        /\ log'[i].event = log[i].event
    BY <1>1, OldEntries
  <2>2. /\ About("risc", i, m, accounts[m].resets)'
        /\ log'[i].pane = "risc" /\ log'[i].push.model = m
        /\ log'[i].event.kind = "opt-out-effective"
    BY <1>2, <2>1 DEF Effective, About
  <2>3. ASSUME NEW k \in i+1..Len(log'), Together(i, k)'
        PROVE  log'[k].event.kind \notin OptOutEvents
    <3>1. k \in 1..Len(log')
      BY <1>1, ModelsTyped DEF Prefix
    <3>2. CASE k \in 1..Len(log)
      <4>1. k \in i+1..Len(log) /\ Together(i, k)
        BY <1>1, <2>3, <3>2, OldEntries
      <4> QED
        BY <1>1, <1>2, <3>2, <4>1, OldEntries DEF Effective
    <3>3. CASE k \notin 1..Len(log)
      <4>1. k > Len(log)
        BY <3>1, <3>3, ModelsTyped
      <4>2. log'[k].pane = "risc" /\ log'[k].push.model = m
        BY <2>2, <2>3 DEF Together
      <4> QED
        BY <3>1, <4>1, <4>2
    <3> QED
      BY <3>2, <3>3
  <2> QED
    BY <2>1, <2>2, <2>3 DEF Effective
<1>3. ASSUME NEW i \in 1..Len(log'), Effective(i, m)'
      PROVE  i \in 1..Len(log) /\ Effective(i, m)
  <2>1. /\ About("risc", i, m, accounts[m].resets)'
        /\ log'[i].event.kind = "opt-out-effective"
        /\ \A k \in i+1..Len(log') :
             Together(i, k)' => log'[k].event.kind \notin OptOutEvents
    BY <1>3 DEF Effective
  <2>2. i \in 1..Len(log)
    <3>1. log'[i].pane = "risc" /\ log'[i].push.model = m
          /\ log'[i].event.kind \in OptOutEvents
      BY <2>1 DEF About, OptOutEvents
    <3> QED
      BY <3>1, ModelsTyped
  <2>3. About("risc", i, m, accounts[m].resets)
    BY <2>1, <2>2, AccountEra
  <2>4. log[i].event.kind = "opt-out-effective"
    BY <1>1, <2>1, <2>2, OldEntries
  <2>5. ASSUME NEW k \in i+1..Len(log), Together(i, k)
        PROVE  log[k].event.kind \notin OptOutEvents
    <3>1. k \in 1..Len(log) /\ k \in i+1..Len(log')
      BY <1>1, <2>2, ModelsTyped DEF Prefix
    <3>2. Together(i, k)' /\ log'[k].event = log[k].event
      BY <1>1, <2>2, <2>5, <3>1, OldEntries
    <3> QED
      BY <2>1, <3>1, <3>2
  <2> QED
    BY <2>2, <2>3, <2>4, <2>5 DEF Effective
<1> QED
  BY <1>2, <1>3

(* An opt-out stays in effect until another event of its kind.             *)
LEMMA OptOutStep ==
  ASSUME TypeOK, EraOK, OptOutSaid, [Next]_vars
  PROVE  OptOutSaid'
<1> DEFINE n == Len(accounts)
<1> PICK N : N = Len(log) + 1
  OBVIOUS
<1>1. /\ TypeOK' /\ Prefix
      /\ AccountStill \/ RiscStep
  BY StepMoves
<1> SUFFICES ASSUME NEW m \in 1..Len(accounts')
             PROVE  accounts'[m].optOut = "opt-out"
                      <=> \E i \in 1..Len(log') : Effective(i, m)'
  BY DEF OptOutSaid
<1>2. ASSUME m \in 1..Len(accounts),
             accounts'[m].resets = accounts[m].resets,
             accounts'[m].optOut = accounts[m].optOut,
             \A k \in 1..Len(log') :
               k > Len(log) => \/ log'[k].pane # "risc"
                               \/ log'[k].push.model # m
                               \/ log'[k].event.kind \notin OptOutEvents
      PROVE  accounts'[m].optOut = "opt-out"
               <=> \E i \in 1..Len(log') : Effective(i, m)'
  BY <1>2, EffectiveKept DEF OptOutSaid
<1>3. CASE AccountStill
  <2>1. \A k \in 1..Len(log') :
          k > Len(log) => \/ log'[k].pane # "risc"
                          \/ log'[k].push.model # m
                          \/ log'[k].event.kind \notin OptOutEvents
    BY <1>3 DEF AccountStill
  <2>2. CASE m <= Len(accounts) /\ AccountKept(accounts[m], accounts'[m])
    <3>1. m \in 1..Len(accounts)
      BY <2>2, ModelsTyped
    <3> QED
      BY <1>2, <2>1, <2>2, <3>1 DEF AccountKept
  <2>3. CASE /\ AccountFresh(accounts'[m])
             /\ m <= Len(accounts) => accounts'[m].resets > accounts[m].resets
    <3>1. accounts'[m].optOut # "opt-out"
      BY <2>3 DEF AccountFresh
    <3>2. ASSUME NEW i \in 1..Len(log'), Effective(i, m)'
          PROVE  FALSE
      <4>1. /\ About("risc", i, m, accounts[m].resets)'
            /\ log'[i].event.kind \in OptOutEvents
        BY <3>2 DEF Effective, OptOutEvents
      <4>2. i \in 1..Len(log)
        BY <2>1, <4>1, ModelsTyped DEF About
      <4>3. m \in 1..Len(accounts) /\ accounts'[m].resets = accounts[m].resets
        BY <4>1, <4>2, AccountEra
      <4> QED
        BY <2>3, <4>3, ResetsGrow
    <3> QED
      BY <3>1, <3>2
  <2> QED
    BY <1>3, <2>2, <2>3 DEF AccountStill, AccountsQuiet
<1>4. CASE RiscStep
  <2> DEFINE e == log'[N].event
  <2>1. /\ N \in 1..Len(log') /\ N > Len(log) /\ Len(accounts') = n
        /\ \A k \in 1..Len(log') : k \in 1..Len(log) \/ k = N
        /\ log'[N].pane = "risc" /\ log'[N].push.model = n
        /\ log'[N].push.era = accounts[n].resets
        /\ accounts'[n].resets = accounts[n].resets
        /\ accounts'[n].optOut = IF e.kind \in OptOutEvents
                                 THEN Declared(e.kind)
                                 ELSE accounts[n].optOut
    BY <1>4, RiscEntry
  <2>2. m \in 1..n
    BY <2>1
  <2>3. \A k \in 1..Len(log') : k > Len(log) => k = N
    BY <2>1, ModelsTyped
  <2>4. CASE m # n
    <3>1. accounts'[m] = accounts[m]
      BY <1>4, <2>2, <2>4 DEF RiscStep
    <3> QED
      BY <1>2, <2>1, <2>2, <2>3, <2>4, <3>1
  <2>5. CASE m = n /\ e.kind \notin OptOutEvents
    BY <1>2, <2>1, <2>2, <2>3, <2>5
  <2>6. CASE m = n /\ e.kind = "opt-out-effective"
    <3>1. accounts'[m].optOut = "opt-out"
      BY <2>1, <2>6 DEF OptOutEvents, Declared
    <3>2. About("risc", N, m, accounts[m].resets)'
      BY <2>1, <2>6 DEF About
    <3>3. \A k \in N+1..Len(log') : FALSE
      BY <2>1, <1>1, ModelsTyped DEF Prefix
    <3>4. Effective(N, m)'
      BY <2>6, <3>2, <3>3 DEF Effective
    <3> QED
      BY <2>1, <3>1, <3>4
  <2>7. CASE m = n /\ e.kind \in OptOutEvents \ {"opt-out-effective"}
    <3>1. accounts'[m].optOut # "opt-out"
      BY <2>1, <2>7 DEF OptOutEvents, Declared
    <3>2. ASSUME NEW i \in 1..Len(log'), Effective(i, m)'
          PROVE  FALSE
      <4>1. CASE i = N
        BY <2>7, <3>2, <4>1 DEF Effective
      <4>2. CASE i \in 1..Len(log)
        <5>1. About("risc", i, m, accounts[m].resets)
          BY <3>2, <4>2, AccountEra DEF Effective
        <5>2. Together(i, N)' /\ N \in i+1..Len(log')
          BY <1>4, <2>1, <2>7, <4>2, <5>1, RiscEntry, ModelsTyped
        <5> QED
          BY <2>7, <3>2, <5>2 DEF Effective
      <4> QED
        BY <2>1, <4>1, <4>2
    <3> QED
      BY <3>1, <3>2
  <2> QED
    BY <2>4, <2>5, <2>6, <2>7
<1> QED
  BY <1>1, <1>3, <1>4

---------------------------------------------------------------------------
(* The theorems.                                                           *)

ObjectsAsSaid ==
  TypeOK /\ EraOK /\ RevokedSaid /\ LevelSaid /\ PurgedSaid /\ OptOutSaid

(* The objects are as the log says, always.                                *)
LEMMA AsSaidInvariant == Spec => []ObjectsAsSaid
<1>1. Init => ObjectsAsSaid
  <2> SUFFICES ASSUME Init PROVE ObjectsAsSaid
    OBVIOUS
  <2>1. Len(log) = 0 /\ Len(accounts) = 1
        /\ accounts[1] = NewAccount
    BY DEF Init
  <2>2. TypeOK
    <3>1. NewSession \in Sessions /\ NewAccount \in Accounts
      BY DEF NewSession, Sessions, NewAccount, Accounts
    <3>2. /\ sessions \in Seq(Sessions) /\ sessions # <<>>
          /\ accounts \in Seq(Accounts) /\ accounts # <<>>
      BY <3>1 DEF Init
    <3> QED
      BY <3>2 DEF Init, TypeOK
  <2>3. EraOK /\ RevokedSaid /\ LevelSaid /\ PurgedSaid
    BY <2>1 DEF EraOK, RevokedSaid, LevelSaid, PurgedSaid
  <2>4. OptOutSaid
    BY <2>1 DEF OptOutSaid, NewAccount
  <2> QED
    BY <2>2, <2>3, <2>4 DEF ObjectsAsSaid
<1>2. ObjectsAsSaid /\ [Next]_vars => ObjectsAsSaid'
  BY StepKinds, EraStep, RevokedStep, LevelStep, PurgedStep, OptOutStep
     DEF ObjectsAsSaid
<1> QED
  BY <1>1, <1>2, PTL DEF Spec

(* A press of an event only one of the panes has.                          *)
LEMMA PaneOfPress ==
  ASSUME NEW p \in Presses
  PROVE  /\ p.event.kind \in {"session-revoked", "session-presented"}
              => p.pane = "caep"
         /\ p.event.kind \in {"account-purged", "account-enabled"}
              => p.pane = "risc"
<1>1. \A e \in CaepEvents :
        e.kind \notin {"account-purged", "account-enabled"}
  BY DEF CaepEvents, CaepKinds
<1>2. \A e \in RiscEvents :
        e.kind \notin {"session-revoked", "session-presented"}
  BY DEF RiscEvents, RiscKinds, OptOutEvents, LifecycleEvents
<1> QED
  BY <1>1, <1>2, PressMembers

(* A step keeps EachSaysWhatWasHeld.                                       *)
LEMMA HeldInvariantStep ==
  ASSUME ObjectsAsSaid, EachSaysWhatWasHeld, [Next]_vars
  PROVE  EachSaysWhatWasHeld'
<1> DEFINE n == Len(sessions)
<1> PICK N : N = Len(log) + 1
  OBVIOUS
<1>1. /\ TypeOK /\ TypeOK' /\ Prefix
      /\ SessionStill \/ CaepStep
  BY StepMoves DEF ObjectsAsSaid
<1> SUFFICES ASSUME NEW a \in Aspects, NEW i \in 1..Len(log'),
                    NEW j \in 1..Len(log'), i < j, Together(i, j)',
                    Changes(i, a)', Changes(j, a)',
                    \A k \in i+1..j-1 : ~(Together(i, k)' /\ Changes(k, a)')
             PROVE  log'[j].event.previous = log'[i].event.current
  BY DEF EachSaysWhatWasHeld
<1>2. \A k \in 1..Len(log') : k \in 1..Len(log) \/ k > Len(log)
  BY <1>1, ModelsTyped
<1>3. CASE j \in 1..Len(log)
  <2>1. i \in 1..Len(log)
    BY <1>3, ModelsTyped
  <2>2. /\ Together(i, j) /\ Changes(i, a) /\ Changes(j, a)
        /\ log'[i].event = log[i].event /\ log'[j].event = log[j].event
    BY <1>1, <1>3, <2>1, OldEntries
  <2>3. ASSUME NEW k \in i+1..j-1
        PROVE  ~(Together(i, k) /\ Changes(k, a))
    <3>1. k \in 1..Len(log)
      BY <1>3, <2>1
    <3> QED
      BY <1>1, <2>1, <3>1, OldEntries
  <2> QED
    BY <1>3, <2>1, <2>2, <2>3 DEF EachSaysWhatWasHeld
<1>4. CASE j > Len(log)
  <2> DEFINE e == log'[j].event
  <2>1. j = N /\ i \in 1..Len(log)
    BY <1>1, <1>4, NewEntry, ModelsTyped
  <2>2. CaepStep
    BY <1>1, <1>4 DEF SessionStill, Changes
  <2>3. /\ log'[N].pane = "caep" /\ log'[N].push.model = n
        /\ log'[N].push.era = sessions[n].resets
        /\ e \in Suggested(sessions[n])
        /\ sessions'[n].resets = sessions[n].resets
        /\ n \in 1..n /\ Len(sessions') = n
    BY <1>1, <2>1, <2>2, CaepEntry, ModelsTyped DEF CaepStep
  <2>4. About("caep", i, n, sessions[n].resets)
    <3>1. /\ log'[i].pane = "caep" /\ log'[i].push.model = n
          /\ log'[i].push.era = sessions[n].resets
      BY <2>1, <2>3 DEF Together
    <3> QED
      BY <1>1, <2>1, <3>1, OldEntries DEF About
  <2>5. Changes(i, a) /\ log'[i].event = log[i].event
    BY <1>1, <2>1, OldEntries
  <2>6. ASSUME NEW k \in i+1..Len(log)
        PROVE  ~(Together(i, k) /\ Changes(k, a))
    <3>1. k \in 1..Len(log) /\ k \in i+1..j-1
      BY <1>1, <2>1, ModelsTyped
    <3> QED
      BY <1>1, <2>1, <3>1, OldEntries
  <2>7. sessions[n].level[a] = log[i].event.current
    BY <2>1, <2>3, <2>4, <2>5, <2>6 DEF ObjectsAsSaid, LevelSaid
  <2>8. log[i].event.current \in Levels
    <3>1. log[i].event \in CaepEvents /\ log[i].event.kind = "change"
      BY <1>1, <2>1, <2>5, ModelsTyped, PressMembers DEF Changes
    <3> QED
      BY <3>1 DEF CaepEvents, CaepKinds
  <2>9. e.kind = "change" /\ e.aspect = a
    BY DEF Changes
  <2>10. e = SuggestedChange(sessions[n], a)
    <3>1. e.kind \notin CaepKinds
      BY <2>9 DEF CaepKinds
    <3>2. PICK b \in Aspects : e = SuggestedChange(sessions[n], b)
      BY <2>3, <3>1 DEF Suggested
    <3> QED
      BY <2>9, <3>2 DEF SuggestedChange
  <2>11. e.previous = sessions[n].level[a]
    BY <2>7, <2>8, <2>10 DEF SuggestedChange, Held, Levels, Unsaid
  <2> QED
    BY <2>5, <2>7, <2>11
<1> QED
  BY <1>2, <1>3, <1>4

(* THEOREM: whatever the reader presses, seeds or resets while events are  *)
(* being pushed, an event that says how a session has changed takes up     *)
(* where the one before it left off.  (suggest() and apply() agree)        *)
THEOREM HeldCorrect == Spec => []EachSaysWhatWasHeld
<1>1. Init => EachSaysWhatWasHeld
  BY DEF Init, EachSaysWhatWasHeld
<1>2. ObjectsAsSaid /\ EachSaysWhatWasHeld /\ [Next]_vars
        => EachSaysWhatWasHeld'
  BY HeldInvariantStep
<1> QED
  BY <1>1, <1>2, AsSaidInvariant, PTL DEF Spec

(* A step keeps NothingContradicted.                                       *)
LEMMA ContradictionStep ==
  ASSUME ObjectsAsSaid, NothingContradicted, [Next]_vars
  PROVE  NothingContradicted'
<1> PICK N : N = Len(log) + 1
  OBVIOUS
<1>1. /\ TypeOK /\ TypeOK' /\ Prefix
      /\ SessionStill \/ CaepStep
      /\ AccountStill \/ RiscStep
  BY StepMoves DEF ObjectsAsSaid
<1> SUFFICES ASSUME NEW i \in 1..Len(log'), NEW j \in 1..Len(log'),
                    i < j, Together(i, j)', Built(i)', Built(j)'
             PROVE  /\ /\ log'[i].event.kind = "session-revoked"
                       /\ log'[j].event.kind = "session-presented"
                       => \E k \in i+1..j-1 :
                            /\ Together(i, k)'
                            /\ log'[k].event.kind = "session-established"
                    /\ ~(/\ log'[i].event.kind = "account-purged"
                         /\ log'[j].event.kind = "account-enabled")
  BY DEF NothingContradicted
<1>2. \A k \in 1..Len(log') : k \in 1..Len(log) \/ k > Len(log)
  BY <1>1, ModelsTyped
<1>3. CASE j \in 1..Len(log)
  <2>1. i \in 1..Len(log)
    BY <1>3, ModelsTyped
  <2>2. /\ Together(i, j) /\ Built(i) /\ Built(j)
        /\ log'[i].event = log[i].event /\ log'[j].event = log[j].event
    BY <1>1, <1>3, <2>1, OldEntries
  <2>3. /\ /\ log[i].event.kind = "session-revoked"
           /\ log[j].event.kind = "session-presented"
           => \E k \in i+1..j-1 :
                /\ Together(i, k)
                /\ log[k].event.kind = "session-established"
        /\ ~(/\ log[i].event.kind = "account-purged"
             /\ log[j].event.kind = "account-enabled")
    BY <1>3, <2>1, <2>2 DEF NothingContradicted
  <2>4. ASSUME NEW k \in i+1..j-1
        PROVE  /\ Together(i, k)' <=> Together(i, k)
               /\ log'[k].event = log[k].event
    <3>1. k \in 1..Len(log)
      BY <1>3, <2>1
    <3> QED
      BY <1>1, <2>1, <3>1, OldEntries
  <2> QED
    BY <2>2, <2>3, <2>4
<1>4. CASE j > Len(log)
  <2> DEFINE e == log'[j].event
  <2>1. j = N /\ i \in 1..Len(log)
    BY <1>1, <1>4, NewEntry, ModelsTyped
  <2>2. log'[i].event = log[i].event /\ (Built(i)' <=> Built(i))
    BY <1>1, <2>1, OldEntries
  <2>3. /\ e.kind = "session-presented" => log'[j].pane = "caep"
        /\ e.kind = "account-enabled" => log'[j].pane = "risc"
    <3>1. log'[j] \in Presses
      BY <1>1 DEF TypeOK
    <3> QED
      BY <3>1, PaneOfPress
  <2>4. ASSUME log[i].event.kind = "session-revoked",
               e.kind = "session-presented",
               \A k \in i+1..j-1 :
                 ~(/\ Together(i, k)'
                   /\ log'[k].event.kind = "session-established")
        PROVE  FALSE
    <3> DEFINE n == Len(sessions)
    <3>1. CaepStep
      BY <1>1, <1>4, <2>3, <2>4 DEF SessionStill
    <3>2. /\ log'[N].pane = "caep" /\ log'[N].push.model = n
          /\ log'[N].push.era = sessions[n].resets
          /\ ~SessionRefuses(sessions[n], e) /\ n \in 1..n
      BY <1>1, <2>1, <3>1, CaepEntry, ModelsTyped
    <3>3. About("caep", i, n, sessions[n].resets)
      <4>1. /\ log'[i].pane = "caep" /\ log'[i].push.model = n
            /\ log'[i].push.era = sessions[n].resets
        BY <2>1, <3>2 DEF Together
      <4> QED
        BY <1>1, <2>1, <4>1, OldEntries DEF About
    <3>4. ASSUME NEW k \in i+1..Len(log)
          PROVE  ~(Together(i, k) /\ log[k].event.kind = "session-established")
      <4>1. k \in 1..Len(log) /\ k \in i+1..j-1
        BY <1>1, <2>1, ModelsTyped
      <4> QED
        BY <1>1, <2>1, <2>4, <4>1, OldEntries
    <3>5. sessions[n].state = "revoked"
      BY <2>1, <2>4, <3>2, <3>3, <3>4 DEF ObjectsAsSaid, RevokedSaid
    <3> QED
      BY <2>4, <3>2, <3>5 DEF SessionRefuses
  <2>5. ASSUME log[i].event.kind = "account-purged",
               e.kind = "account-enabled"
        PROVE  FALSE
    <3> DEFINE n == Len(accounts)
    <3>1. RiscStep
      BY <1>1, <1>4, <2>3, <2>5 DEF AccountStill, Built
    <3>2. /\ log'[N].pane = "risc" /\ log'[N].push.model = n
          /\ log'[N].push.era = accounts[n].resets
          /\ ~AccountRefuses(accounts[n], e.kind) /\ n \in 1..n
      BY <1>1, <2>1, <3>1, RiscEntry
    <3>3. About("risc", i, n, accounts[n].resets)
      <4>1. /\ log'[i].pane = "risc" /\ log'[i].push.model = n
            /\ log'[i].push.era = accounts[n].resets
        BY <2>1, <3>2 DEF Together
      <4> QED
        BY <1>1, <2>1, <4>1, OldEntries DEF About
    <3>4. accounts[n].lifecycle = "purged"
      BY <2>1, <2>2, <2>5, <3>2, <3>3 DEF ObjectsAsSaid, PurgedSaid
    <3> QED
      BY <2>5, <3>2, <3>4 DEF AccountRefuses
  <2> QED
    BY <2>2, <2>4, <2>5
<1> QED
  BY <1>2, <1>3, <1>4

(* THEOREM: no session said to be revoked is said to be used before it is  *)
(* established again, and no account said to be purged is ever said to be  *)
(* enabled, whatever is seeded, reset or typed meanwhile.  (refusals())    *)
THEOREM ContradictionFree == Spec => []NothingContradicted
<1>1. Init => NothingContradicted
  BY DEF Init, NothingContradicted
<1>2. ObjectsAsSaid /\ NothingContradicted /\ [Next]_vars
        => NothingContradicted'
  BY ContradictionStep
<1> QED
  BY <1>1, <1>2, AsSaidInvariant, PTL DEF Spec

(* An event is held back exactly then, whatever became of the push that    *)
(* said so.                                                                *)
SilencePronounced ==
  \A i \in 1..Len(log) :
    log[i].pane = "risc" =>
      (~Built(i) <=> /\ log[i].event.honour
                    /\ log[i].event.kind \notin OptOutEvents
                    /\ Pronounced(i))

(* The last opt-out event is the one no other comes after.                 *)
LEMMA LastOptOut ==
  ASSUME NEW i \in Nat
  PROVE  Announced(i) <=> Pronounced(i)
<1>1. ASSUME NEW j \in 1..i-1
      PROVE  (\A k \in OptOutsBefore(i) : k <= j)
               <=> \A k \in j+1..i-1 :
                     Together(i, k) => log[k].event.kind \notin OptOutEvents
  BY DEF OptOutsBefore
<1>2. \A j \in OptOutsBefore(i) : j \in 1..i-1 /\ Together(i, j)
  BY DEF OptOutsBefore
<1>3. \A j \in 1..i-1 :
        /\ Together(i, j)
        /\ log[j].event.kind = "opt-out-effective"
        => j \in OptOutsBefore(i)
  BY DEF OptOutsBefore, OptOutEvents
<1> QED
  BY <1>1, <1>2, <1>3 DEF Announced, Pronounced

(* What the log says of the account a press is about is what it holds.     *)
LEMMA PronouncedNow ==
  ASSUME ObjectsAsSaid, [Next]_vars, NEW N, N = Len(log) + 1,
         N \in 1..Len(log'), log'[N].pane = "risc"
  PROVE  Pronounced(N)' <=> riscModel.optOut = "opt-out"
<1> DEFINE n == Len(accounts)
<1>1. TypeOK /\ TypeOK' /\ Prefix
  BY StepMoves DEF ObjectsAsSaid
<1>2. /\ log'[N].push.model = n /\ log'[N].push.era = accounts[n].resets
      /\ n \in 1..n
  BY <1>1, NewEntry, ModelsTyped DEF riscModel
<1>3. ASSUME NEW k \in 1..Len(log)
      PROVE  Together(N, k)' <=> About("risc", k, n, accounts[n].resets)
  BY <1>1, <1>2, OldEntries DEF Together, About
<1>4. N - 1 = Len(log)
  BY <1>1, ModelsTyped
<1>5. ASSUME NEW j \in 1..Len(log)
      PROVE  (/\ Together(N, j)'
              /\ log'[j].event.kind = "opt-out-effective"
              /\ \A k \in j+1..N-1 :
                   Together(N, k)' => log'[k].event.kind \notin OptOutEvents)
             <=> Effective(j, n)
  <2>1. log'[j].event = log[j].event
    BY <1>1, OldEntries
  <2>2. ASSUME NEW k \in j+1..Len(log), Together(N, j)'
        PROVE  /\ Together(N, k)' <=> Together(j, k)
               /\ log'[k].event = log[k].event
    <3>1. k \in 1..Len(log)
      BY <1>1, ModelsTyped
    <3>2. About("risc", j, n, accounts[n].resets)
      BY <1>3, <2>2
    <3> QED
      BY <1>1, <1>3, <3>1, <3>2, OldEntries DEF Together, About
  <2> QED
    BY <1>3, <1>4, <2>1, <2>2 DEF Effective
<1>6. riscModel.optOut = "opt-out" <=> \E j \in 1..Len(log) : Effective(j, n)
  BY <1>2 DEF ObjectsAsSaid, OptOutSaid, riscModel
<1>7. Pronounced(N)' <=> \E j \in 1..Len(log) : Effective(j, n)
  BY <1>4, <1>5 DEF Pronounced
<1> QED
  BY <1>6, <1>7

(* A step keeps SilencePronounced.                                          *)
LEMMA SilenceStep ==
  ASSUME ObjectsAsSaid, SilencePronounced, [Next]_vars
  PROVE  SilencePronounced'
<1> PICK N : N = Len(log) + 1
  OBVIOUS
<1>1. TypeOK /\ TypeOK' /\ Prefix
  BY StepMoves DEF ObjectsAsSaid
<1> SUFFICES ASSUME NEW i \in 1..Len(log'), log'[i].pane = "risc"
             PROVE  ~Built(i)' <=> /\ log'[i].event.honour
                                   /\ log'[i].event.kind \notin OptOutEvents
                                   /\ Pronounced(i)'
  BY DEF SilencePronounced
<1>2. CASE i \in 1..Len(log)
  BY <1>1, <1>2, OldEntries DEF SilencePronounced
<1>3. CASE i \notin 1..Len(log)
  <2> DEFINE e == log'[i].event
  <2>1. i > Len(log)
    BY <1>1, <1>3, ModelsTyped
  <2>2. i = N
    BY <1>1, <2>1, NewEntry
  <2>3. Pronounced(i)' <=> riscModel.optOut = "opt-out"
    BY <2>2, PronouncedNow
  <2>4. CASE RiscStep
    <3>1. Gate(riscModel, e.kind, e.honour) /\ log'[i].push.state # "suppressed"
      BY <2>2, <2>4 DEF RiscStep
    <3> QED
      BY <2>3, <3>1 DEF Gate, Built
  <2>5. CASE HeldStep
    <3>1. /\ ~Gate(riscModel, e.kind, TRUE) /\ e.honour
          /\ log'[i].push.state = "suppressed"
      BY <2>2, <2>5 DEF HeldStep
    <3> QED
      BY <2>3, <3>1 DEF Gate, Built
  <2>6. CASE QuietStep
    BY <1>1, <2>1, <2>6, ModelsTyped DEF QuietStep, LogKept
  <2>7. CASE CaepStep
    BY <2>2, <2>7 DEF CaepStep, LogGrown
  <2> QED
    BY <1>1, <2>4, <2>5, <2>6, <2>7, StepKinds
<1> QED
  BY <1>2, <1>3

(* THEOREM: as long as every opt-out event about an account was sent, an   *)
(* event about it is held back exactly when the box is ticked and the last *)
(* of them said that the opt-out is effective, and no opt-out event is ever*)
(* held back.  (gate() and apply() agree)                                  *)
THEOREM SilenceCorrect == Spec => []SilenceAnnounced
<1>1. Init => SilencePronounced
  BY DEF Init, SilencePronounced
<1>2. ObjectsAsSaid /\ SilencePronounced /\ [Next]_vars => SilencePronounced'
  BY SilenceStep
<1>3. ObjectsAsSaid /\ SilencePronounced => SilenceAnnounced
  <2> SUFFICES ASSUME ObjectsAsSaid, SilencePronounced PROVE SilenceAnnounced
    OBVIOUS
  <2>1. \A i \in 1..Len(log) : Announced(i) <=> Pronounced(i)
    BY LastOptOut
  <2> QED
    BY <2>1 DEF SilenceAnnounced, SilencePronounced
<1> QED
  BY <1>1, <1>2, <1>3, AsSaidInvariant, PTL DEF Spec

---------------------------------------------------------------------------
(* The counts.  An entry is counted at most once, and never in an era its  *)
(* object has yet to come to.                                              *)

Tallied ==
  /\ \A m \in 1..Len(sessions) :
       sessions[m].total = Cardinality(Counted("caep", m, sessions[m].resets))
  /\ \A m \in 1..Len(accounts) :
       /\ accounts[m].total = Cardinality(Counted("risc", m, accounts[m].resets))
       /\ accounts[m].suppressed = Cardinality(HeldBack(m, accounts[m].resets))

CountedOK ==
  \A i \in 1..Len(log) :
    LET m == log[i].push.model
    IN /\ log[i].push.counted <= IF log[i].pane = "caep" THEN sessions[m].resets
                                                         ELSE accounts[m].resets
       /\ log[i].push.state = "pending" => log[i].push.counted = NotCounted

(* The three things a step does to the log.                                *)
LogSame ==
  /\ LogKept
  /\ \A i \in 1..Len(log) :
       /\ log'[i].push.counted = log[i].push.counted
       /\ log'[i].push.state = "pending" => log[i].push.state = "pending"
LogPressed(pane, m, r, state) ==
  LET p == log'[Len(log) + 1].push
  IN /\ LogGrown(pane, m, r) /\ p.state = state
     /\ p.counted = IF state = "unsent" THEN r ELSE NotCounted
LogEnded(i, r) ==
  /\ LogKept /\ \A k \in 1..Len(log) : k # i => log'[k] = log[k]
  /\ log[i].push.state = "pending" /\ log'[i].push.state \in Endings
  /\ log'[i].push.counted = r

(* A count follows a set: both stay, or the one moves by one as the other  *)
(* takes an entry.                                                         *)
Moved(x, y, S, T) ==
  \/ y = x /\ T = S
  \/ y = x + 1 /\ \E k : k \notin S /\ T = S \union {k}

(* A count that follows a set is its size.                                 *)
LEMMA MovedCount ==
  ASSUME NEW S, NEW T, IsFiniteSet(S), NEW y, Moved(Cardinality(S), y, S, T)
  PROVE  y = Cardinality(T)
BY FS_AddElement DEF Moved

(* There is a number of what is counted.                                   *)
LEMMA SetsFinite ==
  ASSUME TypeOK
  PROVE  /\ \A pane, m, r : IsFiniteSet(Counted(pane, m, r))
         /\ \A m, r : IsFiniteSet(HeldBack(m, r))
<1>1. IsFiniteSet(1..Len(log))
  BY FS_Interval, ModelsTyped
<1>2. /\ \A pane, m, r : Counted(pane, m, r) \subseteq 1..Len(log)
      /\ \A m, r : HeldBack(m, r) \subseteq 1..Len(log)
  BY DEF Counted, HeldBack
<1> QED
  BY <1>1, <1>2, FS_Subset

(* What becomes of the sets.                                               *)
LEMMA SameSets ==
  ASSUME TypeOK, LogSame
  PROVE  /\ \A pane, m, r : Counted(pane, m, r)' = Counted(pane, m, r)
         /\ \A m, r : HeldBack(m, r)' = HeldBack(m, r)
BY DEF LogSame, LogKept, SameEntry, Counted, HeldBack, Built

(* What a press adds to the log.                                           *)
LEMMA PressedEntry ==
  ASSUME TypeOK, NEW pane, NEW m, NEW r, NEW state, LogPressed(pane, m, r, state),
         NEW N, N = Len(log) + 1
  PROVE  /\ 1..Len(log') = 1..Len(log) \union {N} /\ N \notin 1..Len(log)
         /\ \A i \in 1..Len(log) : log'[i] = log[i]
         /\ log'[N].pane = pane /\ log'[N].push.model = m
         /\ log'[N].push.era = r /\ log'[N].push.state = state
         /\ log'[N].push.counted = IF state = "unsent" THEN r ELSE NotCounted
<1>1. Len(log') = N /\ Len(log) \in Nat
  BY ModelsTyped DEF LogPressed, LogGrown
<1>2. 1..Len(log') = 1..Len(log) \union {N} /\ N \notin 1..Len(log)
  BY <1>1
<1> QED
  BY <1>2 DEF LogPressed, LogGrown

(* A press that ends at once is counted, and no other.                     *)
LEMMA PressedSets ==
  ASSUME TypeOK, NEW pane, NEW m, NEW r, NEW state, LogPressed(pane, m, r, state),
         NEW q, NEW n, NEW s \in Nat
  PROVE  IF q = pane /\ n = m /\ s = r /\ state = "unsent"
         THEN \E k : /\ k \notin Counted(q, n, s)
                     /\ Counted(q, n, s)' = Counted(q, n, s) \union {k}
         ELSE Counted(q, n, s)' = Counted(q, n, s)
<1> DEFINE C == q = pane /\ n = m /\ s = r /\ state = "unsent"
<1> PICK N : N = Len(log) + 1
  OBVIOUS
<1>1. N \in Counted(q, n, s)' <=> C
  BY PressedEntry DEF Counted, NotCounted
<1>2. /\ \A i \in 1..Len(log) :
           i \in Counted(q, n, s)' <=> i \in Counted(q, n, s)
      /\ Counted(q, n, s)' \subseteq 1..Len(log) \union {N}
      /\ Counted(q, n, s) \subseteq 1..Len(log)
      /\ N \notin Counted(q, n, s)
  BY PressedEntry DEF Counted
<1> HIDE DEF C
<1>3. /\ C => Counted(q, n, s)' = Counted(q, n, s) \union {N}
      /\ ~C => Counted(q, n, s)' = Counted(q, n, s)
  BY <1>1, <1>2
<1> QED
  BY <1>2, <1>3 DEF C

(* A press held back is counted as that, and no other.                     *)
LEMMA PressedHeld ==
  ASSUME TypeOK, NEW pane, NEW m, NEW r, NEW state, LogPressed(pane, m, r, state),
         NEW n, NEW s \in Nat
  PROVE  IF pane = "risc" /\ n = m /\ s = r /\ state = "suppressed"
         THEN \E k : /\ k \notin HeldBack(n, s)
                     /\ HeldBack(n, s)' = HeldBack(n, s) \union {k}
         ELSE HeldBack(n, s)' = HeldBack(n, s)
<1> DEFINE H == pane = "risc" /\ n = m /\ s = r /\ state = "suppressed"
<1> PICK N : N = Len(log) + 1
  OBVIOUS
<1>1. N \in HeldBack(n, s)' <=> H
  BY PressedEntry DEF HeldBack, Built
<1>2. /\ \A i \in 1..Len(log) : i \in HeldBack(n, s)' <=> i \in HeldBack(n, s)
      /\ HeldBack(n, s)' \subseteq 1..Len(log) \union {N}
      /\ HeldBack(n, s) \subseteq 1..Len(log)
      /\ N \notin HeldBack(n, s)
  BY PressedEntry DEF HeldBack, Built
<1> HIDE DEF H
<1>3. /\ H => HeldBack(n, s)' = HeldBack(n, s) \union {N}
      /\ ~H => HeldBack(n, s)' = HeldBack(n, s)
  BY <1>1, <1>2
<1> QED
  BY <1>2, <1>3 DEF H

(* A push that ends was not held back.                                     *)
LEMMA EndedHeld ==
  ASSUME TypeOK, NEW i \in 1..Len(log), NEW r, LogEnded(i, r)
  PROVE  \A n, s : HeldBack(n, s)' = HeldBack(n, s)
BY DEF LogEnded, LogKept, HeldBack, SameEntry, Built, Endings

(* A push that ends is counted with its own object.                        *)
LEMMA EndedSets ==
  ASSUME TypeOK, CountedOK, NEW i \in 1..Len(log), NEW r \in Nat, LogEnded(i, r),
         NEW q, NEW n, NEW s \in Nat
  PROVE  IF q = log[i].pane /\ n = log[i].push.model /\ s = r
         THEN /\ i \notin Counted(q, n, s)
              /\ Counted(q, n, s)' = Counted(q, n, s) \union {i}
         ELSE Counted(q, n, s)' = Counted(q, n, s)
<1>1. /\ Len(log') = Len(log)
      /\ \A k \in 1..Len(log) : SameEntry(log[k], log'[k])
      /\ \A k \in 1..Len(log) : k # i => log'[k] = log[k]
      /\ log'[i].push.counted = r
  BY DEF LogEnded, LogKept
<1>2. log[i].push.counted \notin Nat
  BY DEF LogEnded, CountedOK, NotCounted
<1>3. i \notin Counted(q, n, s)
  BY <1>2 DEF Counted
<1>4. \A k \in 1..Len(log) :
        k # i => (k \in Counted(q, n, s)' <=> k \in Counted(q, n, s))
  BY <1>1 DEF Counted
<1>5. i \in Counted(q, n, s)'
        <=> q = log[i].pane /\ n = log[i].push.model /\ s = r
  BY <1>1 DEF Counted, SameEntry
<1>6. /\ Counted(q, n, s)' \subseteq 1..Len(log)
      /\ Counted(q, n, s) \subseteq 1..Len(log)
  BY <1>1 DEF Counted
<1> QED
  BY <1>3, <1>4, <1>5, <1>6

(* The five kinds of step, as far as the counts tell.                      *)
SessionsTurned ==
  /\ Len(sessions') >= Len(sessions)
  /\ \A m \in 1..Len(sessions') :
       \/ /\ m <= Len(sessions) /\ sessions'[m].resets = sessions[m].resets
          /\ sessions'[m].total = sessions[m].total
       \/ /\ sessions'[m].total = 0
          /\ m <= Len(sessions) => sessions'[m].resets > sessions[m].resets
AccountsTurned ==
  /\ Len(accounts') >= Len(accounts)
  /\ \A m \in 1..Len(accounts') :
       \/ /\ m <= Len(accounts) /\ accounts'[m].resets = accounts[m].resets
          /\ accounts'[m].total = accounts[m].total
          /\ accounts'[m].suppressed = accounts[m].suppressed
       \/ /\ accounts'[m].total = 0 /\ accounts'[m].suppressed = 0
          /\ m <= Len(accounts) => accounts'[m].resets > accounts[m].resets

(* Of the objects of a pane, the m-th is counted if c, held back if h.     *)
SessionCounts(m, c) ==
  /\ Len(sessions') = Len(sessions)
  /\ \A k \in 1..Len(sessions) :
       /\ sessions'[k].resets = sessions[k].resets
       /\ sessions'[k].total = IF k = m /\ c THEN sessions[k].total + 1
                                             ELSE sessions[k].total
AccountCounts(m, c, h) ==
  /\ Len(accounts') = Len(accounts)
  /\ \A k \in 1..Len(accounts) :
       /\ accounts'[k].resets = accounts[k].resets
       /\ accounts'[k].total = IF k = m /\ c THEN accounts[k].total + 1
                                             ELSE accounts[k].total
       /\ accounts'[k].suppressed = IF k = m /\ h
                                    THEN accounts[k].suppressed + 1
                                    ELSE accounts[k].suppressed

Turned == LogSame /\ SessionsTurned /\ AccountsTurned
CaepPressed(state) ==
  /\ LogPressed("caep", Len(sessions), caepModel.resets, state)
  /\ SessionCounts(Len(sessions), state = "unsent")
  /\ UNCHANGED accounts
RiscPressed(state) ==
  /\ LogPressed("risc", Len(accounts), riscModel.resets, state)
  /\ AccountCounts(Len(accounts), state = "unsent", state = "suppressed")
  /\ UNCHANGED sessions
CaepCounted(i) ==
  LET m == log[i].push.model
  IN /\ log[i].pane = "caep" /\ m \in 1..Len(sessions)
     /\ LogEnded(i, sessions[m].resets)
     /\ SessionCounts(m, TRUE) /\ UNCHANGED accounts
RiscCounted(i) ==
  LET m == log[i].push.model
  IN /\ log[i].pane = "risc" /\ m \in 1..Len(accounts)
     /\ LogEnded(i, accounts[m].resets)
     /\ AccountCounts(m, TRUE, FALSE) /\ UNCHANGED sessions

(* What a press does to the log, as far as the counts tell.                *)
LEMMA PressedLog ==
  ASSUME TypeOK, NEW S, NEW models \in Seq(S), models # <<>>,
         models[Len(models)].resets \in Nat,
         NEW pane, NEW event,
         \/ pane = "caep" /\ event \in CaepEvents
         \/ pane = "risc" /\ event \in RiscEvents,
         NEW state \in {"pending", "unsent", "suppressed"},
         Pressed(pane, models, event, state)
  PROVE  LogPressed(pane, Len(models), models[Len(models)].resets, state)
<1> DEFINE p == PressOf(pane, models, event, state)
<1>1. p \in Presses
  BY PressTyped
<1>2. /\ p.push.state = state
      /\ p.push.counted = IF state = "unsent" THEN models[Len(models)].resets
                                            ELSE NotCounted
  BY DEF PressOf
<1>3. log' = Append(log, p)
  BY DEF Pressed, PressOf
<1> HIDE DEF p
<1>4. log'[Len(log) + 1] = p
  BY <1>1, <1>3, AppendTyped, ModelsTyped
<1> QED
  BY <1>2, <1>4, PressAppended DEF LogPressed

(* A press of a CAEP button.                                               *)
LEMMA CaepPressCounts ==
  ASSUME TypeOK, NEW event \in Suggested(caepModel), CaepSimulate(event)
  PROVE  \E state \in {"pending", "unsent"} : CaepPressed(state)
<1> DEFINE s == AfterCaep(caepModel, event)
           n == Len(sessions)
<1>1. /\ n \in 1..n /\ caepModel \in Sessions /\ sessions \in Seq(Sessions)
      /\ sessions # <<>> /\ caepModel.resets \in Nat
      /\ caepModel = sessions[n]
  BY ModelsTyped DEF TypeOK, caepModel
<1>2. event \in CaepEvents /\ s \in Sessions /\ SessionCounted(s) \in Sessions
  BY <1>1, CaepTyped, SessionTyped
<1>3. s.resets = caepModel.resets /\ s.total = caepModel.total
  BY <1>1 DEF AfterCaep, Sessions
<1> HIDE DEF s
<1>4. /\ SessionCounted(s).resets = caepModel.resets
      /\ SessionCounted(s).total = caepModel.total + 1
  BY <1>2, <1>3 DEF SessionCounted, Sessions
<1>5. ASSUME NEW state \in {"pending", "unsent"}, NEW t \in Sessions,
             Pressed("caep", sessions, event, state),
             sessions' = Put(sessions, n, t),
             t.resets = caepModel.resets,
             t.total = IF state = "unsent" THEN caepModel.total + 1
                                         ELSE caepModel.total
      PROVE  CaepPressed(state)
  <2>1. LogPressed("caep", n, caepModel.resets, state)
    BY <1>1, <1>2, <1>5, PressedLog
  <2>2. SessionCounts(n, state = "unsent")
    <3>1. /\ Len(sessions') = n /\ sessions'[n] = t
          /\ \A k \in 1..n : k # n => sessions'[k] = sessions[k]
      BY <1>1, <1>5 DEF Put
    <3> QED
      BY <1>1, <1>5, <3>1 DEF SessionCounts
  <2>3. UNCHANGED accounts
    BY DEF CaepSimulate
  <2> QED
    BY <2>1, <2>2, <2>3 DEF CaepPressed
<1>6. \/ sessions' = Put(sessions, n, s)
         /\ Pressed("caep", sessions, event, "pending")
      \/ sessions' = Put(sessions, n, SessionCounted(s))
         /\ Pressed("caep", sessions, event, "unsent")
  BY DEF CaepSimulate, s
<1> QED
  BY <1>2, <1>3, <1>4, <1>5, <1>6

(* The account shown is counted, or an event of it held back.              *)
LEMMA OneAccountCounts ==
  ASSUME TypeOK, NEW a \in Accounts, NEW c \in BOOLEAN, NEW h \in BOOLEAN,
         accounts' = Put(accounts, Len(accounts), a),
         a.resets = riscModel.resets,
         a.total = IF c THEN riscModel.total + 1 ELSE riscModel.total,
         a.suppressed = IF h THEN riscModel.suppressed + 1
                             ELSE riscModel.suppressed
  PROVE  AccountCounts(Len(accounts), c, h)
<1> DEFINE n == Len(accounts)
<1>1. n \in 1..n /\ accounts \in Seq(Accounts) /\ riscModel = accounts[n]
  BY ModelsTyped DEF TypeOK, riscModel
<1>2. /\ Len(accounts') = n /\ accounts'[n] = a
      /\ \A k \in 1..n : k # n => accounts'[k] = accounts[k]
  BY <1>1 DEF Put
<1> QED
  BY <1>1, <1>2 DEF AccountCounts

(* A press of a RISC button that sends an event.                           *)
LEMMA RiscPressCounts ==
  ASSUME TypeOK, NEW kind \in RiscKinds, NEW honour \in BOOLEAN,
         RiscSimulate(kind, honour)
  PROVE  \E state \in {"pending", "unsent", "suppressed"} : RiscPressed(state)
<1> DEFINE a == AfterRisc(riscModel, kind)
           event == [kind |-> kind, honour |-> honour]
           n == Len(accounts)
           t == AccountCounted(a)
<1>1. /\ riscModel \in Accounts /\ accounts \in Seq(Accounts)
      /\ accounts # <<>> /\ riscModel.resets \in Nat
      /\ riscModel = accounts[n]
  BY ModelsTyped DEF TypeOK, riscModel
<1>3. a \in Accounts /\ t \in Accounts
  BY <1>1, RiscTyped
<1>4. event \in RiscEvents
  BY DEF RiscEvents
<1>5. /\ a.resets = riscModel.resets /\ a.total = riscModel.total
      /\ a.suppressed = riscModel.suppressed
  BY <1>1 DEF AfterRisc, Accounts
<1> HIDE DEF a, event
<1>7. /\ t.resets = riscModel.resets /\ t.total = riscModel.total + 1
      /\ t.suppressed = riscModel.suppressed
  BY <1>3, <1>5 DEF AccountCounted, Accounts
<1> HIDE DEF t
<1>8. UNCHANGED sessions
  BY DEF RiscSimulate
<1>9. CASE accounts' = Put(accounts, n, a)
           /\ Pressed("risc", accounts, event, "pending")
  <2>1. LogPressed("risc", n, riscModel.resets, "pending")
    BY <1>1, <1>4, <1>9, PressedLog
  <2>2. AccountCounts(n, FALSE, FALSE)
    BY <1>3, <1>5, <1>9, OneAccountCounts
  <2> QED
    BY <1>8, <2>1, <2>2 DEF RiscPressed, AccountCounts
<1>10. CASE accounts' = Put(accounts, n, t)
            /\ Pressed("risc", accounts, event, "unsent")
  <2>1. LogPressed("risc", n, riscModel.resets, "unsent")
    BY <1>1, <1>4, <1>10, PressedLog
  <2>2. AccountCounts(n, TRUE, FALSE)
    BY <1>3, <1>7, <1>10, OneAccountCounts
  <2> QED
    BY <1>8, <2>1, <2>2 DEF RiscPressed, AccountCounts
<1> QED
  BY <1>9, <1>10 DEF RiscSimulate, a, event, t

(* A press the opt-out holds back.                                         *)
LEMMA SuppressedCounts ==
  ASSUME TypeOK, NEW kind \in RiscKinds, RiscSuppressed(kind)
  PROVE  RiscPressed("suppressed")
<1> DEFINE event == [kind |-> kind, honour |-> TRUE]
           n == Len(accounts)
           t == AccountSuppressed(riscModel)
<1>1. /\ riscModel \in Accounts /\ accounts \in Seq(Accounts)
      /\ accounts # <<>> /\ riscModel.resets \in Nat
      /\ riscModel = accounts[n]
  BY ModelsTyped DEF TypeOK, riscModel
<1>3. t \in Accounts
  BY <1>1, RiscTyped
<1>4. event \in RiscEvents
  BY DEF RiscEvents
<1> HIDE DEF event
<1>5. /\ t.resets = riscModel.resets /\ t.total = riscModel.total
      /\ t.suppressed = riscModel.suppressed + 1
  BY <1>1 DEF AccountSuppressed, Accounts
<1>6. /\ accounts' = Put(accounts, n, t) /\ UNCHANGED sessions
      /\ Pressed("risc", accounts, event, "suppressed")
  BY DEF RiscSuppressed, event
<1> HIDE DEF t
<1>7. LogPressed("risc", n, riscModel.resets, "suppressed")
  BY <1>1, <1>4, <1>6, PressedLog
<1>8. AccountCounts(n, FALSE, TRUE)
  BY <1>3, <1>5, <1>6, OneAccountCounts
<1> QED
  BY <1>6, <1>7, <1>8 DEF RiscPressed, AccountCounts

(* A push about a session ends.                                            *)
LEMMA CaepEndedCounts ==
  ASSUME TypeOK, NEW i \in 1..Len(log), NEW ending \in Endings,
         CaepEnded(i, ending)
  PROVE  CaepCounted(i)
<1> DEFINE m == log[i].push.model
           s == SessionCounted(sessions[m])
<1>1. m \in 1..Len(sessions)
  BY ModelsTyped, PressMembers DEF TypeOK, CaepEnded
<1>2. /\ sessions[m] \in Sessions /\ sessions[m].resets \in Nat
      /\ sessions \in Seq(Sessions)
  BY <1>1, ModelsTyped DEF TypeOK
<1>3. /\ s \in Sessions /\ s.resets = sessions[m].resets
      /\ s.total = sessions[m].total + 1
  BY <1>2, SessionTyped DEF SessionCounted, Sessions
<1>4. /\ Ended(i, ending, sessions) /\ sessions' = Put(sessions, m, s)
      /\ UNCHANGED accounts /\ log[i].pane = "caep"
  BY DEF CaepEnded
<1>5. LogEnded(i, sessions[m].resets)
  BY <1>2, <1>4, EndedLog DEF LogEnded, LogKept, SameEntry
<1> HIDE DEF m, s
<1>6. /\ Len(sessions') = Len(sessions) /\ sessions'[m] = s
      /\ \A k \in 1..Len(sessions) : k # m => sessions'[k] = sessions[k]
  BY <1>1, <1>2, <1>3, <1>4 DEF Put
<1>7. SessionCounts(m, TRUE)
  BY <1>3, <1>6 DEF SessionCounts
<1> QED
  BY <1>1, <1>4, <1>5, <1>7 DEF CaepCounted, m

(* A push about an account ends.                                           *)
LEMMA RiscEndedCounts ==
  ASSUME TypeOK, NEW i \in 1..Len(log), NEW ending \in Endings,
         RiscEnded(i, ending)
  PROVE  RiscCounted(i)
<1> DEFINE m == log[i].push.model
           a == AccountCounted(accounts[m])
<1>1. m \in 1..Len(accounts)
  <2>1. log[i].pane = "risc" /\ log[i] \in Presses
    BY ModelsTyped DEF RiscEnded
  <2> QED
    BY <2>1, ModelsTyped, PressMembers DEF TypeOK
<1>2. /\ accounts[m] \in Accounts /\ accounts[m].resets \in Nat
      /\ accounts \in Seq(Accounts)
  BY <1>1, ModelsTyped DEF TypeOK
<1>3. /\ a \in Accounts /\ a.resets = accounts[m].resets
      /\ a.total = accounts[m].total + 1
      /\ a.suppressed = accounts[m].suppressed
  BY <1>2, RiscTyped DEF AccountCounted, Accounts
<1>4. /\ Ended(i, ending, accounts) /\ accounts' = Put(accounts, m, a)
      /\ UNCHANGED sessions /\ log[i].pane = "risc"
  BY DEF RiscEnded
<1>5. LogEnded(i, accounts[m].resets)
  BY <1>2, <1>4, EndedLog DEF LogEnded, LogKept, SameEntry
<1> HIDE DEF m, a
<1>6. /\ Len(accounts') = Len(accounts) /\ accounts'[m] = a
      /\ \A k \in 1..Len(accounts) : k # m => accounts'[k] = accounts[k]
  BY <1>1, <1>2, <1>3, <1>4 DEF Put
<1>7. AccountCounts(m, TRUE, FALSE)
  BY <1>3, <1>6 DEF AccountCounts
<1> QED
  BY <1>1, <1>4, <1>5, <1>7 DEF RiscCounted, m

(* A log that is not touched counts the same.                              *)
LEMMA LogUnchanged ==
  TypeOK /\ log' = log => LogSame
BY Stillness DEF LogSame

(* Objects that are not touched count the same.                            *)
LEMMA NothingTurned ==
  /\ TypeOK /\ sessions' = sessions => SessionsTurned
  /\ TypeOK /\ accounts' = accounts => AccountsTurned
BY DEF TypeOK, SessionsTurned, AccountsTurned

(* A new session has counted nothing.                                      *)
LEMMA SessionAdded ==
  ASSUME TypeOK, sessions' = Append(sessions, NewSession)
  PROVE  SessionsTurned
<1>1. NewSession \in Sessions /\ sessions \in Seq(Sessions)
      /\ NewSession.total = 0
  BY DEF NewSession, Sessions, TypeOK
<1>2. /\ Len(sessions') = Len(sessions) + 1 /\ Len(sessions) \in Nat
      /\ sessions'[Len(sessions) + 1] = NewSession
      /\ \A k \in 1..Len(sessions) : sessions'[k] = sessions[k]
  BY <1>1, AppendTyped
<1>3. \A k \in 1..Len(sessions') : k \in 1..Len(sessions) \/ k = Len(sessions) + 1
  BY <1>2
<1> QED
  BY <1>1, <1>2, <1>3 DEF SessionsTurned

(* A new account has counted nothing.                                      *)
LEMMA AccountAdded ==
  ASSUME TypeOK, accounts' = Append(accounts, NewAccount)
  PROVE  AccountsTurned
<1>1. NewAccount \in Accounts /\ accounts \in Seq(Accounts)
      /\ NewAccount.total = 0 /\ NewAccount.suppressed = 0
  BY DEF NewAccount, Accounts, TypeOK
<1>2. /\ Len(accounts') = Len(accounts) + 1 /\ Len(accounts) \in Nat
      /\ accounts'[Len(accounts) + 1] = NewAccount
      /\ \A k \in 1..Len(accounts) : accounts'[k] = accounts[k]
  BY <1>1, AppendTyped
<1>3. \A k \in 1..Len(accounts') : k \in 1..Len(accounts) \/ k = Len(accounts) + 1
  BY <1>2
<1> QED
  BY <1>1, <1>2, <1>3 DEF AccountsTurned

(* The actions that press nothing and end nothing.                         *)
LEMMA TurnCounts ==
  ASSUME TypeOK,
         \/ CaepFillFromToken \/ RiscFillFromToken
         \/ ResetCaepSession \/ ResetRiscAccount
         \/ Reload \/ UNCHANGED vars
  PROVE  Turned
<1>1. /\ sessions \in Seq(Sessions) /\ accounts \in Seq(Accounts)
      /\ Len(sessions) \in 1..Len(sessions) /\ caepModel \in Sessions
      /\ Len(accounts) \in 1..Len(accounts) /\ riscModel \in Accounts
      /\ caepModel = sessions[Len(sessions)]
      /\ riscModel = accounts[Len(accounts)]
  BY ModelsTyped DEF TypeOK, caepModel, riscModel
<1>2. ASSUME NEW a \in Accounts,
             accounts' = Put(accounts, Len(accounts), a),
             \/ /\ a.resets = riscModel.resets /\ a.total = riscModel.total
                /\ a.suppressed = riscModel.suppressed
             \/ /\ a.total = 0 /\ a.suppressed = 0
                /\ a.resets > riscModel.resets
      PROVE  AccountsTurned
  <2>1. /\ Len(accounts') = Len(accounts) /\ accounts'[Len(accounts)] = a
        /\ \A k \in 1..Len(accounts) :
             k # Len(accounts) => accounts'[k] = accounts[k]
    BY <1>1, <1>2 DEF Put
  <2> QED
    BY <1>1, <1>2, <2>1 DEF AccountsTurned
<1>4. CASE CaepFillFromToken
  BY <1>4, SessionAdded, NothingTurned, LogUnchanged
     DEF CaepFillFromToken, Turned
<1>5. CASE ResetCaepSession
  <2> DEFINE s == SessionReset(caepModel)
  <2>1. s \in Sessions /\ s.total = 0 /\ s.resets > caepModel.resets
    BY <1>1, SessionTyped DEF SessionReset, NewSession, Sessions
  <2>2. sessions' = Put(sessions, Len(sessions), s)
        /\ accounts' = accounts /\ log' = log
    BY <1>5 DEF ResetCaepSession
  <2> HIDE DEF s
  <2>3. /\ Len(sessions') = Len(sessions) /\ sessions'[Len(sessions)] = s
        /\ \A k \in 1..Len(sessions) :
             k # Len(sessions) => sessions'[k] = sessions[k]
    BY <1>1, <2>1, <2>2 DEF Put
  <2>4. SessionsTurned
    BY <1>1, <2>1, <2>3 DEF SessionsTurned
  <2> QED
    BY <2>2, <2>4, NothingTurned, LogUnchanged DEF Turned
<1>6. CASE ResetRiscAccount
  <2> DEFINE a == AccountReset(riscModel)
  <2>1. a \in Accounts /\ a.total = 0 /\ a.suppressed = 0
        /\ a.resets > riscModel.resets
    BY <1>1, RiscTyped DEF AccountReset, NewAccount, Accounts
  <2>2. accounts' = Put(accounts, Len(accounts), a)
        /\ sessions' = sessions /\ log' = log
    BY <1>6 DEF ResetRiscAccount
  <2> HIDE DEF a
  <2> QED
    BY <1>2, <2>1, <2>2, NothingTurned, LogUnchanged DEF Turned
<1>8. CASE RiscFillFromToken
  BY <1>8, AccountAdded, NothingTurned, LogUnchanged
     DEF RiscFillFromToken, Turned
<1>9. CASE UNCHANGED vars
  BY <1>9, NothingTurned, LogUnchanged DEF vars, Turned
<1>10. CASE Reload
  <2>2. /\ sessions' = Append(sessions, NewSession)
        /\ accounts' = Append(accounts, NewAccount)
    BY <1>10 DEF Reload
  <2>3. SessionsTurned /\ AccountsTurned
    BY <2>2, SessionAdded, AccountAdded
  <2>4. \A i \in 1..Len(log) :
          log'[i].push.state = "pending" => log[i].push.state = "pending"
    <3>1. \A i \in 1..Len(log) :
            log'[i] = IF log[i].push.state = "pending"
                      THEN [log[i] EXCEPT !.push.state = "gone"] ELSE log[i]
      BY <1>10 DEF Reload
    <3> QED
      BY <3>1
  <2>5. LogSame
    BY <1>10, <2>4, ReloadedLog DEF LogSame, LogKept
  <2> QED
    BY <2>3, <2>5 DEF Turned
<1> QED
  BY <1>4, <1>5, <1>6, <1>8, <1>9, <1>10

(* Every step is of one of the five kinds.                                 *)
LEMMA StepCounts ==
  ASSUME TypeOK, [Next]_vars
  PROVE  \/ Turned
         \/ \E state \in {"pending", "unsent"} : CaepPressed(state)
         \/ \E state \in {"pending", "unsent", "suppressed"} : RiscPressed(state)
         \/ \E i \in 1..Len(log) : CaepCounted(i) \/ RiscCounted(i)
<1> DEFINE Goal == \/ Turned
                   \/ \E state \in {"pending", "unsent"} : CaepPressed(state)
                   \/ \E state \in {"pending", "unsent", "suppressed"} :
                        RiscPressed(state)
                   \/ \E i \in 1..Len(log) : CaepCounted(i) \/ RiscCounted(i)
<1>1. ASSUME NEW event \in Suggested(caepModel), CaepSimulate(event)
      PROVE  Goal
  BY <1>1, CaepPressCounts
<1>2. ASSUME NEW kind \in RiscKinds, RiscSuppressed(kind)
      PROVE  Goal
  BY <1>2, SuppressedCounts
<1>3. ASSUME NEW kind \in RiscKinds, NEW honour \in Honour(kind),
             RiscSimulate(kind, honour)
      PROVE  Goal
  <2>1. honour \in BOOLEAN
    BY DEF Honour
  <2> QED
    BY <1>3, <2>1, RiscPressCounts
<1>4. ASSUME NEW i \in 1..Len(log), NEW ending \in Endings,
             CaepEnded(i, ending) \/ RiscEnded(i, ending)
      PROVE  Goal
  BY <1>4, CaepEndedCounts, RiscEndedCounts
<1> HIDE DEF Goal
<1>6. Goal
  BY <1>1, <1>2, <1>3, <1>4, TurnCounts DEF Next, PressRefused, Goal
<1> QED
  BY <1>6 DEF Goal

(* The era of an entry's object, as a number.                              *)
LEMMA EntryModel ==
  ASSUME TypeOK, NEW i \in 1..Len(log)
  PROVE  LET m == log[i].push.model
         IN /\ log[i].pane = "caep" => m \in 1..Len(sessions)
            /\ log[i].pane # "caep" => log[i].pane = "risc" /\ m \in 1..Len(accounts)
            /\ log[i].push.counted \in Nat \union {NotCounted}
            /\ log[i].push.era \in Nat
BY ModelsTyped, PressMembers DEF TypeOK

(* Every step keeps CountedOK.                                             *)
LEMMA CountedStep ==
  ASSUME TypeOK, CountedOK, [Next]_vars
  PROVE  CountedOK'
<1> DEFINE Resets(i) == IF log[i].pane = "caep"
                        THEN sessions[log[i].push.model].resets
                        ELSE accounts[log[i].push.model].resets
           ResetsAfter(i) == IF log'[i].pane = "caep"
                             THEN sessions'[log'[i].push.model].resets
                             ELSE accounts'[log'[i].push.model].resets
           Right(i) == /\ log'[i].push.counted <= ResetsAfter(i)
                       /\ log'[i].push.state = "pending"
                            => log'[i].push.counted = NotCounted
<1>1. ASSUME NEW i \in 1..Len(log), SameEntry(log[i], log'[i])
      PROVE  /\ ResetsAfter(i) \in Nat /\ Resets(i) \in Nat
             /\ ResetsAfter(i) >= Resets(i)
  BY <1>1, EntryModel, ResetsGrow DEF SameEntry
<1>2. ASSUME NEW i \in 1..Len(log), SameEntry(log[i], log'[i]),
             log'[i].push.counted = log[i].push.counted,
             log'[i].push.state = "pending" => log[i].push.state = "pending"
      PROVE  Right(i)
  <2>1. /\ log[i].push.counted <= Resets(i)
        /\ log[i].push.state = "pending" => log[i].push.counted = NotCounted
    BY DEF CountedOK
  <2>2. log[i].push.counted \in Int
    BY EntryModel DEF NotCounted
  <2> HIDE DEF Resets, ResetsAfter
  <2> QED
    BY <1>1, <1>2, <2>1, <2>2
<1> SUFFICES ASSUME NEW i \in 1..Len(log') PROVE Right(i)
  BY DEF CountedOK
<1>3. CASE Turned
  BY <1>2, <1>3 DEF Turned, LogSame, LogKept
<1>4. ASSUME NEW pane, NEW m, NEW r \in Nat, NEW state,
             LogPressed(pane, m, r, state),
             \/ pane = "caep" /\ m \in 1..Len(sessions)
                /\ r = sessions[m].resets
             \/ pane = "risc" /\ m \in 1..Len(accounts)
                /\ r = accounts[m].resets
      PROVE  Right(i)
  <2>1. LogGrown(pane, m, r)
    BY <1>4 DEF LogPressed
  <2>2. CASE i \in 1..Len(log)
    BY <1>2, <2>1, <2>2 DEF LogGrown, SameEntry
  <2>3. CASE i \notin 1..Len(log)
    <3>1. i = Len(log) + 1
      BY <2>1, <2>3, ModelsTyped DEF LogGrown
    <3>2. /\ log'[i].pane = pane /\ log'[i].push.model = m
          /\ log'[i].push.state = state
          /\ log'[i].push.counted = IF state = "unsent" THEN r ELSE NotCounted
      BY <1>4, <3>1 DEF LogPressed, LogGrown
    <3>3. ResetsAfter(i) \in Nat /\ r <= ResetsAfter(i)
      BY <1>4, <3>2, ResetsGrow
    <3> HIDE DEF ResetsAfter
    <3> QED
      BY <3>2, <3>3 DEF NotCounted
  <2> QED
    BY <2>2, <2>3
<1>5. ASSUME NEW state, CaepPressed(state)
      PROVE  Right(i)
  BY <1>4, <1>5, ModelsTyped DEF CaepPressed, caepModel
<1>6. ASSUME NEW state, RiscPressed(state)
      PROVE  Right(i)
  BY <1>4, <1>6, ModelsTyped DEF RiscPressed, riscModel
<1>7. ASSUME NEW j \in 1..Len(log), LogEnded(j, Resets(j))
      PROVE  Right(i)
  <2>1. i \in 1..Len(log) /\ SameEntry(log[i], log'[i])
    BY <1>7 DEF LogEnded, LogKept
  <2>2. CASE i = j
    <3>1. log'[i].push.counted = Resets(i) /\ log'[i].push.state # "pending"
      BY <1>7, <2>2 DEF LogEnded, Endings
    <3> HIDE DEF Resets, ResetsAfter
    <3> QED
      BY <1>1, <2>1, <3>1
  <2>3. CASE i # j
    <3>1. log'[i] = log[i]
      BY <1>7, <2>1, <2>3 DEF LogEnded
    <3> QED
      BY <1>2, <2>1, <3>1
  <2> QED
    BY <2>2, <2>3
<1>8. ASSUME NEW j \in 1..Len(log), CaepCounted(j) \/ RiscCounted(j)
      PROVE  Right(i)
  BY <1>7, <1>8 DEF CaepCounted, RiscCounted
<1> HIDE DEF Right
<1> QED
  BY <1>3, <1>5, <1>6, <1>8, StepCounts

(* What every step does to the counts of an object and to what is counted. *)
SessionTally(m) ==
  \/ /\ m \in 1..Len(sessions) /\ sessions'[m].resets = sessions[m].resets
     /\ \A r \in Nat : r = sessions[m].resets =>
          Moved(sessions[m].total, sessions'[m].total,
                Counted("caep", m, r), Counted("caep", m, r)')
  \/ /\ sessions'[m].total = 0
     /\ \A r \in Nat :
          r = sessions'[m].resets => Counted("caep", m, r)' = {}
AccountTally(m) ==
  \/ /\ m \in 1..Len(accounts) /\ accounts'[m].resets = accounts[m].resets
     /\ \A r \in Nat : r = accounts[m].resets =>
          /\ Moved(accounts[m].total, accounts'[m].total,
                   Counted("risc", m, r), Counted("risc", m, r)')
          /\ Moved(accounts[m].suppressed, accounts'[m].suppressed,
                   HeldBack(m, r), HeldBack(m, r)')
  \/ /\ accounts'[m].total = 0 /\ accounts'[m].suppressed = 0
     /\ \A r \in Nat : r = accounts'[m].resets =>
          Counted("risc", m, r)' = {} /\ HeldBack(m, r)' = {}

(* What an object counted stays with it, or it begins anew.                *)
LEMMA TurnedTally ==
  ASSUME TypeOK, TypeOK', EraOK, CountedOK, Turned
  PROVE  /\ \A m \in 1..Len(sessions') : SessionTally(m)
         /\ \A m \in 1..Len(accounts') : AccountTally(m)
<1>1. /\ \A pane, m, r : Counted(pane, m, r)' = Counted(pane, m, r)
      /\ \A m, r : HeldBack(m, r)' = HeldBack(m, r)
  BY SameSets DEF Turned
<1>2. ASSUME NEW m \in 1..Len(sessions')
      PROVE  SessionTally(m)
  <2>1. CASE /\ m <= Len(sessions)
             /\ sessions'[m].resets = sessions[m].resets
             /\ sessions'[m].total = sessions[m].total
    <3>1. m \in 1..Len(sessions)
      BY <2>1, ModelsTyped
    <3> QED
      BY <1>1, <2>1, <3>1 DEF SessionTally, Moved
  <2>2. CASE /\ sessions'[m].total = 0
             /\ m <= Len(sessions) => sessions'[m].resets > sessions[m].resets
    <3>1. ASSUME NEW r \in Nat, r = sessions'[m].resets,
                 NEW i \in Counted("caep", m, r)
          PROVE  FALSE
      <4>1. /\ i \in 1..Len(log) /\ log[i].pane = "caep"
            /\ log[i].push.model = m /\ log[i].push.counted = r
        BY <3>1 DEF Counted
      <4>2. m \in 1..Len(sessions)
        BY <4>1, EntryModel
      <4>3. r <= sessions[m].resets /\ sessions[m].resets \in Nat
        BY <4>1, <4>2, ModelsTyped DEF CountedOK
      <4> QED
        BY <2>2, <3>1, <4>2, <4>3, ModelsTyped
    <3> QED
      BY <1>1, <2>2, <3>1 DEF SessionTally
  <2> QED
    BY <2>1, <2>2 DEF Turned, SessionsTurned
<1>3. ASSUME NEW m \in 1..Len(accounts')
      PROVE  AccountTally(m)
  <2>1. CASE /\ m <= Len(accounts)
             /\ accounts'[m].resets = accounts[m].resets
             /\ accounts'[m].total = accounts[m].total
             /\ accounts'[m].suppressed = accounts[m].suppressed
    <3>1. m \in 1..Len(accounts)
      BY <2>1, ModelsTyped
    <3> QED
      BY <1>1, <2>1, <3>1 DEF AccountTally, Moved
  <2>2. CASE /\ accounts'[m].total = 0 /\ accounts'[m].suppressed = 0
             /\ m <= Len(accounts) => accounts'[m].resets > accounts[m].resets
    <3>1. ASSUME NEW r \in Nat, r = accounts'[m].resets,
                 NEW i \in 1..Len(log),
                 log[i].pane = "risc", log[i].push.model = m,
                 log[i].push.counted = r \/ log[i].push.era = r
          PROVE  FALSE
      <4>1. m \in 1..Len(accounts)
        BY <3>1, EntryModel
      <4>2. r <= accounts[m].resets /\ accounts[m].resets \in Nat
        BY <3>1, <4>1, ModelsTyped DEF CountedOK, EraOK
      <4> QED
        BY <2>2, <3>1, <4>1, <4>2, ModelsTyped
    <3>2. ASSUME NEW r \in Nat, r = accounts'[m].resets
          PROVE  Counted("risc", m, r) = {} /\ HeldBack(m, r) = {}
      BY <3>1, <3>2 DEF Counted, HeldBack
    <3> QED
      BY <1>1, <2>2, <3>2 DEF AccountTally
  <2> QED
    BY <2>1, <2>2 DEF Turned, AccountsTurned
<1> QED
  BY <1>2, <1>3

(* A press adds at most one to what is counted, and to the count.          *)
LEMMA PressedTally ==
  ASSUME TypeOK, NEW state,
         \/ CaepPressed(state) /\ state # "suppressed"
         \/ RiscPressed(state)
  PROVE  /\ \A m \in 1..Len(sessions') : SessionTally(m)
         /\ \A m \in 1..Len(accounts') : AccountTally(m)
<1>1. CASE CaepPressed(state) /\ state # "suppressed"
  <2> DEFINE n == Len(sessions)
  <2>1. LogPressed("caep", n, sessions[n].resets, state)
    BY <1>1 DEF CaepPressed, caepModel
  <2>2. SessionCounts(n, state = "unsent") /\ accounts' = accounts
    BY <1>1 DEF CaepPressed
  <2>3. ASSUME NEW m \in 1..n, NEW r \in Nat, r = sessions[m].resets
        PROVE  Moved(sessions[m].total, sessions'[m].total,
                     Counted("caep", m, r), Counted("caep", m, r)')
    <3>1. CASE m = n /\ state = "unsent"
      <4>1. \E k : /\ k \notin Counted("caep", m, r)
                   /\ Counted("caep", m, r)' = Counted("caep", m, r) \union {k}
        BY <2>1, <2>3, <3>1, PressedSets
      <4>2. sessions'[m].total = sessions[m].total + 1
        BY <2>2, <3>1 DEF SessionCounts
      <4> QED
        BY <4>1, <4>2 DEF Moved
    <3>2. CASE ~(m = n /\ state = "unsent")
      <4>1. Counted("caep", m, r)' = Counted("caep", m, r)
        BY <2>1, <2>3, <3>2, PressedSets
      <4>2. sessions'[m].total = sessions[m].total
        BY <2>2, <3>2 DEF SessionCounts
      <4> QED
        BY <4>1, <4>2 DEF Moved
    <3> QED
      BY <3>1, <3>2
  <2>4. ASSUME NEW m, NEW r \in Nat
        PROVE  /\ Counted("risc", m, r)' = Counted("risc", m, r)
               /\ HeldBack(m, r)' = HeldBack(m, r)
    <3>1. Counted("risc", m, r)' = Counted("risc", m, r)
      BY <2>1, PressedSets
    <3>2. HeldBack(m, r)' = HeldBack(m, r)
      BY <2>1, PressedHeld
    <3> QED
      BY <3>1, <3>2
  <2> QED
    BY <2>2, <2>3, <2>4 DEF SessionCounts, SessionTally, AccountTally, Moved
<1>2. CASE RiscPressed(state)
  <2> DEFINE n == Len(accounts)
  <2>1. LogPressed("risc", n, accounts[n].resets, state)
    BY <1>2 DEF RiscPressed, riscModel
  <2>2. /\ AccountCounts(n, state = "unsent", state = "suppressed")
        /\ sessions' = sessions
    BY <1>2 DEF RiscPressed
  <2>3. ASSUME NEW m \in 1..n, NEW r \in Nat, r = accounts[m].resets
        PROVE  Moved(accounts[m].total, accounts'[m].total,
                     Counted("risc", m, r), Counted("risc", m, r)')
    <3>1. CASE m = n /\ state = "unsent"
      <4>1. \E k : /\ k \notin Counted("risc", m, r)
                   /\ Counted("risc", m, r)' = Counted("risc", m, r) \union {k}
        BY <2>1, <2>3, <3>1, PressedSets
      <4>2. accounts'[m].total = accounts[m].total + 1
        BY <2>2, <3>1 DEF AccountCounts
      <4> QED
        BY <4>1, <4>2 DEF Moved
    <3>2. CASE ~(m = n /\ state = "unsent")
      <4>1. Counted("risc", m, r)' = Counted("risc", m, r)
        BY <2>1, <2>3, <3>2, PressedSets
      <4>2. accounts'[m].total = accounts[m].total
        BY <2>2, <3>2 DEF AccountCounts
      <4> QED
        BY <4>1, <4>2 DEF Moved
    <3> QED
      BY <3>1, <3>2
  <2>4. ASSUME NEW m \in 1..n, NEW r \in Nat, r = accounts[m].resets
        PROVE  Moved(accounts[m].suppressed, accounts'[m].suppressed,
                     HeldBack(m, r), HeldBack(m, r)')
    <3>1. CASE m = n /\ state = "suppressed"
      <4>1. \E k : /\ k \notin HeldBack(m, r)
                   /\ HeldBack(m, r)' = HeldBack(m, r) \union {k}
        BY <2>1, <2>4, <3>1, PressedHeld
      <4>2. accounts'[m].suppressed = accounts[m].suppressed + 1
        BY <2>2, <3>1 DEF AccountCounts
      <4> QED
        BY <4>1, <4>2 DEF Moved
    <3>2. CASE ~(m = n /\ state = "suppressed")
      <4>1. HeldBack(m, r)' = HeldBack(m, r)
        BY <2>1, <2>4, <3>2, PressedHeld
      <4>2. accounts'[m].suppressed = accounts[m].suppressed
        BY <2>2, <3>2 DEF AccountCounts
      <4> QED
        BY <4>1, <4>2 DEF Moved
    <3> QED
      BY <3>1, <3>2
  <2>5. ASSUME NEW m, NEW r \in Nat
        PROVE  Counted("caep", m, r)' = Counted("caep", m, r)
    BY <2>1, PressedSets
  <2>6. \A m \in 1..Len(sessions') : SessionTally(m)
    BY <2>2, <2>5 DEF SessionTally, Moved
  <2>7. /\ Len(accounts') = n
        /\ \A m \in 1..n : accounts'[m].resets = accounts[m].resets
    BY <2>2 DEF AccountCounts
  <2>8. \A m \in 1..Len(accounts') : AccountTally(m)
    BY <2>3, <2>4, <2>7 DEF AccountTally
  <2> QED
    BY <2>6, <2>8
<1> QED
  BY <1>1, <1>2

(* So does the end of a push.                                              *)
LEMMA EndedTally ==
  ASSUME TypeOK, CountedOK, NEW i \in 1..Len(log),
         CaepCounted(i) \/ RiscCounted(i)
  PROVE  /\ \A m \in 1..Len(sessions') : SessionTally(m)
         /\ \A m \in 1..Len(accounts') : AccountTally(m)
<1> DEFINE n == log[i].push.model
<1>1. CASE CaepCounted(i)
  <2>1. /\ log[i].pane = "caep" /\ n \in 1..Len(sessions)
        /\ LogEnded(i, sessions[n].resets) /\ sessions[n].resets \in Nat
        /\ SessionCounts(n, TRUE) /\ accounts' = accounts
    BY <1>1, ModelsTyped DEF CaepCounted
  <2>2. ASSUME NEW m \in 1..Len(sessions), NEW r \in Nat,
               r = sessions[m].resets
        PROVE  Moved(sessions[m].total, sessions'[m].total,
                     Counted("caep", m, r), Counted("caep", m, r)')
    <3>1. CASE m = n
      <4>1. /\ i \notin Counted("caep", m, r)
            /\ Counted("caep", m, r)' = Counted("caep", m, r) \union {i}
        BY <2>1, <2>2, <3>1, EndedSets
      <4>2. sessions'[m].total = sessions[m].total + 1
        BY <2>1, <3>1 DEF SessionCounts
      <4> QED
        BY <4>1, <4>2 DEF Moved
    <3>2. CASE m # n
      <4>1. Counted("caep", m, r)' = Counted("caep", m, r)
        BY <2>1, <2>2, <3>2, EndedSets
      <4>2. sessions'[m].total = sessions[m].total
        BY <2>1, <3>2 DEF SessionCounts
      <4> QED
        BY <4>1, <4>2 DEF Moved
    <3> QED
      BY <3>1, <3>2
  <2>3. ASSUME NEW m, NEW r \in Nat
        PROVE  /\ Counted("risc", m, r)' = Counted("risc", m, r)
               /\ HeldBack(m, r)' = HeldBack(m, r)
    <3>1. Counted("risc", m, r)' = Counted("risc", m, r)
      BY <2>1, EndedSets
    <3>2. HeldBack(m, r)' = HeldBack(m, r)
      BY <2>1, EndedHeld
    <3> QED
      BY <3>1, <3>2
  <2> QED
    BY <2>1, <2>2, <2>3 DEF SessionCounts, SessionTally, AccountTally, Moved
<1>2. CASE RiscCounted(i)
  <2>1. /\ log[i].pane = "risc" /\ n \in 1..Len(accounts)
        /\ LogEnded(i, accounts[n].resets) /\ accounts[n].resets \in Nat
        /\ AccountCounts(n, TRUE, FALSE) /\ sessions' = sessions
    BY <1>2, ModelsTyped DEF RiscCounted
  <2>2. ASSUME NEW m \in 1..Len(accounts), NEW r \in Nat,
               r = accounts[m].resets
        PROVE  /\ Moved(accounts[m].total, accounts'[m].total,
                        Counted("risc", m, r), Counted("risc", m, r)')
               /\ Moved(accounts[m].suppressed, accounts'[m].suppressed,
                        HeldBack(m, r), HeldBack(m, r)')
    <3>1. Moved(accounts[m].suppressed, accounts'[m].suppressed,
                HeldBack(m, r), HeldBack(m, r)')
      BY <2>1, EndedHeld DEF AccountCounts, Moved
    <3>2. CASE m = n
      <4>1. /\ i \notin Counted("risc", m, r)
            /\ Counted("risc", m, r)' = Counted("risc", m, r) \union {i}
        BY <2>1, <2>2, <3>2, EndedSets
      <4>2. accounts'[m].total = accounts[m].total + 1
        BY <2>1, <3>2 DEF AccountCounts
      <4> QED
        BY <3>1, <4>1, <4>2 DEF Moved
    <3>3. CASE m # n
      <4>1. Counted("risc", m, r)' = Counted("risc", m, r)
        BY <2>1, <2>2, <3>3, EndedSets
      <4>2. accounts'[m].total = accounts[m].total
        BY <2>1, <3>3 DEF AccountCounts
      <4> QED
        BY <3>1, <4>1, <4>2 DEF Moved
    <3> QED
      BY <3>2, <3>3
  <2>3. ASSUME NEW m, NEW r \in Nat
        PROVE  Counted("caep", m, r)' = Counted("caep", m, r)
    BY <2>1, EndedSets
  <2> QED
    BY <2>1, <2>2, <2>3 DEF AccountCounts, SessionTally, AccountTally, Moved
<1> QED
  BY <1>1, <1>2

(* Counts that follow what is counted stay its size.                       *)
LEMMA TallyKept ==
  ASSUME TypeOK, TypeOK', Tallied,
         \A m \in 1..Len(sessions') : SessionTally(m),
         \A m \in 1..Len(accounts') : AccountTally(m)
  PROVE  Tallied'
<1>1. /\ sessions' \in Seq(Sessions) /\ accounts' \in Seq(Accounts)
      /\ \A s \in Sessions : s.resets \in Nat
      /\ \A a \in Accounts : a.resets \in Nat
  BY DEF TypeOK, Sessions, Accounts
<1>2. ASSUME NEW m \in 1..Len(sessions')
      PROVE  sessions'[m].total = Cardinality(Counted("caep", m, sessions[m].resets))'
  <2> PICK r \in Nat : r = sessions'[m].resets
    BY <1>1
  <2>1. Counted("caep", m, sessions[m].resets)' = Counted("caep", m, r)'
    BY DEF Counted
  <2>2. CASE /\ m \in 1..Len(sessions)
             /\ sessions'[m].resets = sessions[m].resets
             /\ Moved(sessions[m].total, sessions'[m].total,
                      Counted("caep", m, r), Counted("caep", m, r)')
    <3>1. sessions[m].total = Cardinality(Counted("caep", m, r))
      BY <2>2 DEF Tallied
    <3> QED
      BY <2>1, <2>2, <3>1, MovedCount, SetsFinite
  <2>3. CASE sessions'[m].total = 0 /\ Counted("caep", m, r)' = {}
    BY <2>1, <2>3, FS_EmptySet
  <2> QED
    BY <2>2, <2>3 DEF SessionTally
<1>3. ASSUME NEW m \in 1..Len(accounts')
      PROVE  /\ accounts'[m].total = Cardinality(Counted("risc", m, accounts[m].resets))'
             /\ accounts'[m].suppressed = Cardinality(HeldBack(m, accounts[m].resets))'
  <2> PICK r \in Nat : r = accounts'[m].resets
    BY <1>1
  <2>1. /\ Counted("risc", m, accounts[m].resets)' = Counted("risc", m, r)'
        /\ HeldBack(m, accounts[m].resets)' = HeldBack(m, r)'
    BY DEF Counted, HeldBack
  <2>2. CASE /\ m \in 1..Len(accounts)
             /\ accounts'[m].resets = accounts[m].resets
             /\ Moved(accounts[m].total, accounts'[m].total,
                      Counted("risc", m, r), Counted("risc", m, r)')
             /\ Moved(accounts[m].suppressed, accounts'[m].suppressed,
                      HeldBack(m, r), HeldBack(m, r)')
    <3>2. /\ accounts[m].total = Cardinality(Counted("risc", m, r))
          /\ accounts[m].suppressed = Cardinality(HeldBack(m, r))
      BY <2>2 DEF Tallied
    <3>3. accounts'[m].total = Cardinality(Counted("risc", m, r)')
      BY <2>2, <3>2, MovedCount, SetsFinite
    <3>4. accounts'[m].suppressed = Cardinality(HeldBack(m, r)')
      BY <2>2, <3>2, MovedCount, SetsFinite
    <3> QED
      BY <2>1, <3>3, <3>4
  <2>3. CASE /\ accounts'[m].total = 0 /\ accounts'[m].suppressed = 0
             /\ Counted("risc", m, r)' = {} /\ HeldBack(m, r)' = {}
    BY <2>1, <2>3, FS_EmptySet
  <2> QED
    BY <2>2, <2>3 DEF AccountTally
<1> QED
  BY <1>2, <1>3 DEF Tallied

(* A number of things is a count of them.                                  *)
LEMMA CountOfAll ==
  ASSUME NEW S, IsFiniteSet(S)
  PROVE  IsCountOf(Cardinality(S), S)
<1>1. IsFiniteSet(Sent(S)) /\ Cardinality(Sent(S)) <= Cardinality(S)
  BY FS_Subset DEF Sent
<1>2. Cardinality(S) \in Nat /\ Cardinality(Sent(S)) \in Nat
  BY <1>1, FS_CardinalityType
<1> QED
  BY <1>1, <1>2 DEF IsCountOf

(* THEOREM: whatever is pressed, seeded, reset or loaded again while events*)
(* are being pushed, each session and each account shows a count for every *)
(* event about it that was sent and came to an end since its last reset,   *)
(* and no more unless a press about it could not be sent, and each account *)
(* one for every event held back.  (record(), recordSuppressed())          *)
THEOREM CountsCorrect == Spec => []CountsAddUp
<1>1. Init => CountedOK /\ Tallied
  <2> SUFFICES ASSUME Init PROVE CountedOK /\ Tallied
    OBVIOUS
  <2>1. /\ Len(log) = 0 /\ Len(sessions) = 1 /\ Len(accounts) = 1
        /\ sessions[1].total = 0
        /\ accounts[1].total = 0 /\ accounts[1].suppressed = 0
    BY DEF Init, NewSession, NewAccount
  <2>2. /\ \A pane, m, r : Counted(pane, m, r) = {}
        /\ \A m, r : HeldBack(m, r) = {}
    <3>1. 1..Len(log) = {}
      BY <2>1
    <3> QED
      BY <3>1 DEF Counted, HeldBack
  <2>3. CountedOK
    BY <2>1 DEF CountedOK
  <2>4. Cardinality({}) = 0
    BY FS_EmptySet
  <2>5. 1..Len(sessions) = {1} /\ 1..Len(accounts) = {1}
    BY <2>1
  <2> QED
    BY <2>1, <2>2, <2>3, <2>4, <2>5 DEF Tallied
<1>2. ObjectsAsSaid /\ CountedOK /\ Tallied /\ [Next]_vars
        => CountedOK' /\ Tallied'
  <2> SUFFICES ASSUME ObjectsAsSaid, CountedOK, Tallied, [Next]_vars
               PROVE  CountedOK' /\ Tallied'
    OBVIOUS
  <2>1. TypeOK /\ EraOK /\ TypeOK'
    BY StepMoves DEF ObjectsAsSaid
  <2>2. CountedOK'
    BY <2>1, CountedStep
  <2>3. /\ \A m \in 1..Len(sessions') : SessionTally(m)
        /\ \A m \in 1..Len(accounts') : AccountTally(m)
    BY <2>1, StepCounts, TurnedTally, PressedTally, EndedTally
  <2> QED
    BY <2>1, <2>2, <2>3, TallyKept
<1>3. ObjectsAsSaid /\ Tallied => CountsAddUp
  <2> SUFFICES ASSUME ObjectsAsSaid, Tallied PROVE CountsAddUp
    OBVIOUS
  <2>1. \A pane, m, r : IsCountOf(Cardinality(Counted(pane, m, r)), Counted(pane, m, r))
    BY SetsFinite, CountOfAll DEF ObjectsAsSaid
  <2> QED
    BY <2>1 DEF Tallied, CountsAddUp
<1> QED
  BY <1>1, <1>2, <1>3, AsSaidInvariant, PTL DEF Spec
=============================================================================
