-------------------------- MODULE SsfPoll_proofs ---------------------------
(***************************************************************************)
(* Proofs about poll delivery and the message history, for any streams,    *)
(* tokens, number of polls under way, cap and room in the storage.         *)
(***************************************************************************)
EXTENDS SsfPoll, WellFoundedInduction, TLAPS

---------------------------------------------------------------------------
(* Recursion over the tokens of an answer.                                 *)

(* Of any numbers there is a least.                                        *)
LEMMA LeastNumber ==
  ASSUME NEW T, T \subseteq Nat, T # {}
  PROVE  \E m \in T : \A k \in T : m <= k
<1> DEFINE R == OpToRel(<, Nat)
<1>1. IsWellFoundedOn(R, Nat)
  BY NatLessThanWellFounded
<1>2. \A x, y \in Nat : x < y => <<x, y>> \in R
  BY DEF OpToRel
<1> HIDE DEF R
<1>3. PICK m \in T : \A k \in T : ~(<<k, m>> \in R)
  BY <1>1, WFMin, Zenon
<1>4. ASSUME NEW k \in T
      PROVE  m <= k
  <2>1. k \in Nat /\ m \in Nat
    BY <1>3
  <2>2. ~(k < m)
    BY <1>2, <1>3, <2>1
  <2> QED
    BY <2>1, <2>2
<1> QED
  BY <1>3, <1>4

(* A set that has 0 and the successor of each of its numbers has all.      *)
LEMMA Induction ==
  ASSUME NEW T, 0 \in T, \A n \in Nat : n \in T => n + 1 \in T
  PROVE  Nat \subseteq T
<1> SUFFICES ASSUME Nat \ T # {}
             PROVE  FALSE
  OBVIOUS
<1>1. PICK m \in Nat \ T : \A k \in Nat \ T : m <= k
  BY LeastNumber
<1>2. m # 0 /\ m - 1 \in Nat /\ ~(m <= m - 1) /\ m = (m - 1) + 1
  BY <1>1
<1>3. m - 1 \in T
  BY <1>1, <1>2
<1> QED
  BY <1>1, <1>2, <1>3

(* What a step given by F makes of x, number by number.                    *)
Runs(S, x, N, F) ==
  {g \in [0..N -> S] : g[0] = x /\ \A n \in 1..N : g[n] = F[<<g[n - 1], n>>]}

(* A step given for every value of a set can be taken any number of times. *)
LEMMA Iteration ==
  ASSUME NEW S, NEW x \in S, NEW N \in Nat, NEW F, F \in [S \X (1..N) -> S]
  PROVE  Runs(S, x, N, F) # {}
<1> DEFINE T == {m \in Nat : m <= N => Runs(S, x, m, F) # {}}
<1>1. Runs(S, x, 0, F) # {}
  <2>1. [n \in 0..0 |-> x] \in [0..0 -> S] /\ [n \in 0..0 |-> x][0] = x
    OBVIOUS
  <2>2. PICK g \in [0..0 -> S] : g[0] = x
    BY <2>1, Zenon
  <2>3. \A n \in 1..0 : g[n] = F[<<g[n - 1], n>>]
    OBVIOUS
  <2> QED
    BY <2>2, <2>3 DEF Runs
<1>2. ASSUME NEW m \in Nat, m + 1 <= N, Runs(S, x, m, F) # {}
      PROVE  Runs(S, x, m + 1, F) # {}
  <2>1. PICK g \in [0..m -> S] :
          g[0] = x /\ \A n \in 1..m : g[n] = F[<<g[n - 1], n>>]
    BY <1>2 DEF Runs
  <2> DEFINE y == F[<<g[m], m + 1>>]
             h == [n \in 0..m + 1 |-> IF n = m + 1 THEN y ELSE g[n]]
  <2>2. y \in S
    BY <1>2
  <2>3. h \in [0..m + 1 -> S] /\ h[0] = x /\ h[m + 1] = y
        /\ \A n \in 0..m : h[n] = g[n]
    BY <2>1, <2>2
  <2> HIDE DEF h, y
  <2>4. ASSUME NEW n \in 1..m + 1
        PROVE  h[n] = F[<<h[n - 1], n>>]
    <3>1. CASE n = m + 1
      <4>1. n - 1 = m /\ m \in 0..m
        BY <3>1
      <4>2. h[n] = y /\ h[n - 1] = g[m]
        BY <2>3, <3>1, <4>1, Zenon
      <4> QED
        BY <3>1, <4>1, <4>2, Zenon DEF y
    <3>2. CASE n # m + 1
      <4>1. n \in 1..m /\ n - 1 \in 0..m /\ n \in 0..m
        BY <3>2
      <4> QED
        BY <2>1, <2>3, <4>1
    <3> QED
      BY <3>1, <3>2
  <2> QED
    BY <2>3, <2>4 DEF Runs
<1>3. 0 \in T /\ \A n \in Nat : n \in T => n + 1 \in T
  BY <1>1, <1>2
<1>4. N \in T
  BY <1>3, Induction
<1> QED
  BY <1>4

---------------------------------------------------------------------------
(* The history.                                                            *)

(* A history over nothing but tokens, within its cap.                      *)
History == {r \in Seq(Jtis) : Len(r) <= Limit}

(* The newest n rows of a history are among its rows, and end as it does.  *)
LEMMA TailTyped ==
  ASSUME NEW rows \in Seq(Jtis), NEW n \in 1..Len(rows)
  PROVE  /\ TailOf(rows, n) \in Seq(Jtis)
         /\ Len(TailOf(rows, n)) = n
         /\ TailOf(rows, n)[n] = rows[Len(rows)]
<1> DEFINE L == Len(rows)
           first == L - n + 1
<1>1. L \in Nat /\ n \in Nat /\ first \in 1..L /\ L - first + 1 = n
      /\ first + n - 1 = L /\ n \in 1..(L - first + 1)
  OBVIOUS
<1>2. \A i \in first..L : rows[i] \in Jtis
  BY <1>1
<1> HIDE DEF first
<1>3. /\ SubSeq(rows, first, L) \in Seq(Jtis)
      /\ Len(SubSeq(rows, first, L)) = L - first + 1
  BY <1>1, <1>2
<1>4. SubSeq(rows, first, L)[n] = rows[first + n - 1]
  BY <1>1, <1>3
<1>5. TailOf(rows, n) = SubSeq(rows, first, L)
  BY DEF TailOf, first
<1> QED
  BY <1>1, <1>3, <1>4, <1>5

(* The cap cuts from the old end.                                          *)
LEMMA CutTyped ==
  ASSUME NEW rows \in Seq(Jtis), rows # <<>>
  PROVE  /\ Cut(rows) \in History
         /\ Len(Cut(rows)) > 0
         /\ Cut(rows)[Len(Cut(rows))] = rows[Len(rows)]
<1>1. Limit \in Nat \ {0}
  BY PollAssumption
<1>2. CASE Len(rows) > Limit
  <2>1. Cut(rows) = TailOf(rows, Limit) /\ Limit \in 1..Len(rows)
    BY <1>1, <1>2 DEF Cut
  <2> QED
    BY <1>1, <2>1, TailTyped DEF History
<1>3. CASE ~(Len(rows) > Limit)
  <2>1. Cut(rows) = rows
    BY <1>3 DEF Cut
  <2>2. Len(rows) > 0
    OBVIOUS
  <2> QED
    BY <1>1, <1>3, <2>1, <2>2 DEF History
<1> QED
  BY <1>2, <1>3

(* So does a full storage.                                                 *)
LEMMA HalfTyped ==
  ASSUME NEW rows \in History, Len(rows) > 0
  PROVE  /\ NewestHalf(rows) \in History
         /\ Len(NewestHalf(rows)) > 0
         /\ NewestHalf(rows)[Len(NewestHalf(rows))] = rows[Len(rows)]
<1>1. Limit \in Nat \ {0} /\ rows \in Seq(Jtis) /\ Len(rows) \in Nat /\ Len(rows) <= Limit
  BY PollAssumption DEF History
<1> DEFINE n == Len(rows) - (Len(rows) \div 2)
<1>2. n \in 1..Len(rows) /\ n <= Limit
  BY <1>1
<1>3. NewestHalf(rows) = TailOf(rows, n)
  BY DEF NewestHalf
<1> HIDE DEF n
<1> QED
  BY <1>1, <1>2, <1>3, TailTyped DEF History

EndsIn(rows, jti) == Len(rows) > 0 /\ rows[Len(rows)] = jti

(* Recording a token leaves a history, whose last row it is unless its     *)
(* writing was given up.                                                   *)
LEMMA RecordedTyped ==
  ASSUME NEW rows \in History, NEW jti \in Jtis, NEW room \in Nat
  PROVE  /\ Recorded(rows, jti, room) \in History
         /\ \/ GivenUp(Append(rows, jti), room)
            \/ EndsIn(Recorded(rows, jti, room), jti)
<1> DEFINE more == Append(rows, jti)
           cut  == Cut(more)
           half == NewestHalf(cut)
<1>1. rows \in Seq(Jtis) /\ Limit \in Nat \ {0}
  BY PollAssumption DEF History
<1>2. more \in Seq(Jtis) /\ more # <<>> /\ more[Len(more)] = jti
  BY <1>1
<1>3. cut \in History /\ Len(cut) > 0 /\ cut[Len(cut)] = jti
  BY <1>2, CutTyped
<1>4. half \in History /\ Len(half) > 0 /\ half[Len(half)] = jti
  BY <1>3, HalfTyped
<1>5. Recorded(rows, jti, room) = IF GivenUp(more, room) THEN rows
                                  ELSE IF Fits(cut, room) THEN cut ELSE half
  BY DEF Recorded
<1> HIDE DEF more, cut, half
<1>6. \/ GivenUp(more, room)
      \/ EndsIn(Recorded(rows, jti, room), jti)
  BY <1>3, <1>4, <1>5 DEF EndsIn
<1>7. Recorded(rows, jti, room) \in History
  BY <1>3, <1>4, <1>5
<1> QED
  BY <1>6, <1>7 DEF more

(* The histories of an answer: the one there was, then one for each token. *)
LEMMA HistoriesAre ==
  ASSUME NEW rows \in History, NEW sets \in Seq(Jtis), NEW room \in Nat
  PROVE  LET h == Histories(rows, sets, room)
         IN /\ h[0] = rows
            /\ \A n \in 1..Len(sets) :
                 h[n] = Recorded(h[n - 1], sets[n], room)
            /\ \A n \in 0..Len(sets) : h[n] \in History
<1> DEFINE N == Len(sets)
           H == Histories(rows, sets, room)
           D(h) == h = [n \in 0..N |-> IF n = 0 THEN rows
                                       ELSE Recorded(h[n - 1], sets[n], room)]
           F == [p \in History \X (1..N) |-> Recorded(p[1], sets[p[2]], room)]
<1>1. H = CHOOSE h : D(h)
  BY DEF Histories
<1>2. N \in Nat /\ \A n \in 1..N : sets[n] \in Jtis
  OBVIOUS
<1>3. F \in [History \X (1..N) -> History]
  <2>1. ASSUME NEW p \in History \X (1..N)
        PROVE  Recorded(p[1], sets[p[2]], room) \in History
    BY <1>2, RecordedTyped
  <2> QED
    BY <2>1
<1>4. \A r \in History, n \in 1..N : F[<<r, n>>] = Recorded(r, sets[n], room)
  OBVIOUS
<1>5. \E h : D(h)
  <2> HIDE DEF F, N, D
  <2>1. PICK g \in [0..N -> History] :
          g[0] = rows /\ \A n \in 1..N : g[n] = F[<<g[n - 1], n>>]
    <3>1. Runs(History, rows, N, F) # {}
      BY <1>2, <1>3, Iteration
    <3> QED
      BY <3>1 DEF Runs
  <2>2. ASSUME NEW n \in 1..N
        PROVE  g[n] = Recorded(g[n - 1], sets[n], room)
    <3>1. n - 1 \in 0..N
      BY <1>2
    <3>2. g[n - 1] \in History
      BY <2>1, <3>1
    <3> QED
      BY <1>4, <2>1, <3>2
  <2>3. ASSUME NEW n \in 0..N
        PROVE  g[n] = IF n = 0 THEN rows
                               ELSE Recorded(g[n - 1], sets[n], room)
    <3>1. n = 0 \/ n \in 1..N
      BY <1>2
    <3> QED
      BY <2>1, <2>2, <3>1
  <2>4. D(g)
    BY <2>1, <2>3 DEF D
  <2> QED
    BY <2>4
<1>6. D(H)
  <2> HIDE DEF D, H
  <2> QED
    BY <1>1, <1>5
<1> HIDE DEF H, F
<1>7. H[0] = rows /\ \A n \in 1..N : H[n] = Recorded(H[n - 1], sets[n], room)
  <2>1. 0 \in 0..N /\ \A n \in 1..N : n \in 0..N /\ n # 0
    BY <1>2
  <2>2. \A n \in 0..N : H[n] = IF n = 0 THEN rows
                               ELSE Recorded(H[n - 1], sets[n], room)
    BY <1>6, Zenon
  <2> QED
    BY <2>1, <2>2, Zenon
<1>8. \A n \in 0..N : H[n] \in History
  <2> DEFINE T == {n \in Nat : n <= N => H[n] \in History}
  <2> HIDE DEF N
  <2>1. 0 \in T
    BY <1>7
  <2>2. ASSUME NEW n \in Nat, n \in T
        PROVE  n + 1 \in T
    <3>1. CASE n + 1 <= N
      <4>1. n + 1 \in 1..N /\ (n + 1) - 1 = n /\ n <= N
        BY <1>2, <3>1
      <4>2. H[n + 1] = Recorded(H[n], sets[n + 1], room) /\ H[n] \in History
        BY <1>7, <2>2, <4>1
      <4>3. H[n + 1] \in History
        BY <1>2, <4>1, <4>2, RecordedTyped
      <4> QED
        BY <4>3
    <3>2. CASE ~(n + 1 <= N)
      BY <3>2
    <3> QED
      BY <3>1, <3>2
  <2> HIDE DEF T
  <2>3. Nat \subseteq T
    BY <2>1, <2>2, Induction
  <2> QED
    BY <1>2, <2>3 DEF T
<1> QED
  BY <1>7, <1>8 DEF H

(* What an answer leaves of a history is one again.                        *)
LEMMA RecordedAllTyped ==
  ASSUME NEW rows \in History, NEW sets \in Seq(Jtis), NEW room \in Nat
  PROVE  RecordedAll(rows, sets, room) \in History
<1>1. Len(sets) \in 0..Len(sets)
  OBVIOUS
<1>2. Histories(rows, sets, room)[Len(sets)] \in History
  BY <1>1, HistoriesAre
<1> QED
  BY <1>2 DEF RecordedAll

(* Only tokens of the answer are written or given up, and every one of     *)
(* them is one of the two.                                                 *)
LEMMA WrittenAre ==
  ASSUME NEW rows \in History, NEW sets \in Seq(Jtis), NEW room \in Nat
  PROVE  /\ Written(rows, sets, room) \subseteq Jtis
         /\ Refused(rows, sets, room) \subseteq Jtis
         /\ ToSet(sets) \subseteq Written(rows, sets, room)
                                 \union Refused(rows, sets, room)
<1> DEFINE h == Histories(rows, sets, room)
           ends(i) == h[i] # <<>> /\ Last(h[i]) = sets[i]
           gone(i) == GivenUp(Append(h[i - 1], sets[i]), room)
<1>1. /\ Written(rows, sets, room)
           = {sets[n] : n \in {i \in 1..Len(sets) : ends(i)}}
      /\ Refused(rows, sets, room)
           = {sets[n] : n \in {i \in 1..Len(sets) : gone(i)}}
  BY DEF Written, Refused
<1>2. \A n \in 1..Len(sets) : sets[n] \in Jtis
  OBVIOUS
<1>3. ASSUME NEW n \in 1..Len(sets)
      PROVE  ends(n) \/ gone(n)
  <2>1. n - 1 \in 0..Len(sets)
    OBVIOUS
  <2>2. h[n - 1] \in History /\ h[n] = Recorded(h[n - 1], sets[n], room)
    BY <2>1, HistoriesAre
  <2> HIDE DEF h
  <2>3. h[n] \in History /\ (gone(n) \/ EndsIn(h[n], sets[n]))
    <3>1. sets[n] \in Jtis
      BY <1>2, <1>3
    <3> DEFINE r == h[n - 1]
    <3>2. /\ r \in History /\ h[n] = Recorded(r, sets[n], room)
          /\ gone(n) <=> GivenUp(Append(r, sets[n]), room)
      BY <2>2
    <3> HIDE DEF r, gone
    <3> QED
      BY <1>3, <3>1, <3>2, RecordedTyped
  <2> HIDE DEF gone
  <2> QED
    BY <2>3 DEF Last, History, EndsIn
<1>4. ToSet(sets) = {sets[n] : n \in 1..Len(sets)}
  BY DEF ToSet
<1> HIDE DEF ends, gone
<1> QED
  BY <1>1, <1>2, <1>3, <1>4

---------------------------------------------------------------------------
(* The transmitter.                                                        *)

(* What is left of a queue is a sequence of tokens.                        *)
LEMMA LeftTyped ==
  ASSUME emitted \in Seq(Jtis), NEW s, NEW taken
  PROVE  Left(s, taken) \in Seq(Jtis)
<1> DEFINE N == Len(emitted)
           Row(q, n) == IF StreamOf[emitted[n]] = s /\ emitted[n] \notin taken
                        THEN Append(q, emitted[n]) ELSE q
           D(q) == q = [n \in 0..N |-> IF n = 0 THEN <<>> ELSE Row(q[n - 1], n)]
           Q == CHOOSE q : D(q)
           F == [p \in Seq(Jtis) \X (1..N) |-> Row(p[1], p[2])]
<1>1. Left(s, taken) = Q[N]
  BY DEF Left
<1>2. N \in Nat /\ <<>> \in Seq(Jtis)
  OBVIOUS
<1>3. \A q \in Seq(Jtis), n \in 1..N : Row(q, n) \in Seq(Jtis)
  OBVIOUS
<1> HIDE DEF Row
<1>4. F \in [Seq(Jtis) \X (1..N) -> Seq(Jtis)]
      /\ \A q \in Seq(Jtis), n \in 1..N : F[<<q, n>>] = Row(q, n)
  BY <1>3
<1>5. \E q : D(q)
  <2> HIDE DEF F, N, D
  <2>1. Runs(Seq(Jtis), <<>>, N, F) # {}
    BY <1>2, <1>4, Iteration
  <2>2. PICK g \in [0..N -> Seq(Jtis)] :
          g[0] = <<>> /\ \A n \in 1..N : g[n] = F[<<g[n - 1], n>>]
    BY <2>1 DEF Runs
  <2>3. ASSUME NEW n \in 1..N
        PROVE  g[n] = Row(g[n - 1], n)
    <3>1. n - 1 \in 0..N
      BY <1>2
    <3>2. g[n - 1] \in Seq(Jtis)
      BY <2>2, <3>1
    <3> QED
      BY <1>4, <2>2, <3>2
  <2>4. ASSUME NEW n \in 0..N
        PROVE  g[n] = IF n = 0 THEN <<>> ELSE Row(g[n - 1], n)
    <3>1. n = 0 \/ n \in 1..N
      BY <1>2
    <3> QED
      BY <2>2, <2>3, <3>1
  <2>5. D(g)
    BY <2>2, <2>4 DEF D
  <2> QED
    BY <2>5
<1>6. D(Q)
  <2> HIDE DEF D
  <2> QED
    BY <1>5
<1> HIDE DEF Q, F
<1>7. Q[0] = <<>> /\ \A n \in 1..N : Q[n] = Row(Q[n - 1], n)
  <2>1. 0 \in 0..N /\ \A n \in 1..N : n \in 0..N /\ n # 0
    BY <1>2
  <2>2. \A n \in 0..N : Q[n] = IF n = 0 THEN <<>> ELSE Row(Q[n - 1], n)
    BY <1>6, Zenon
  <2> QED
    BY <2>1, <2>2, Zenon
<1> DEFINE T == {n \in Nat : n <= N => Q[n] \in Seq(Jtis)}
<1> HIDE DEF N
<1>8. 0 \in T
  BY <1>2, <1>7
<1>9. ASSUME NEW n \in Nat, n \in T
      PROVE  n + 1 \in T
  <2>1. CASE n + 1 <= N
    <3>1. n + 1 \in 1..N /\ (n + 1) - 1 = n /\ n <= N
      BY <1>2, <2>1
    <3>2. Q[n + 1] = Row(Q[n], n + 1) /\ Q[n] \in Seq(Jtis)
      BY <1>7, <1>9, <3>1
    <3> QED
      BY <1>3, <3>1, <3>2
  <2>2. CASE ~(n + 1 <= N)
    BY <2>2
  <2> QED
    BY <2>1, <2>2
<1> HIDE DEF T
<1>10. Nat \subseteq T
  BY <1>8, <1>9, Induction
<1> QED
  BY <1>1, <1>2, <1>10 DEF T

(* So is what it answers with.                                             *)
LEMMA OldestTyped ==
  ASSUME NEW queue \in Seq(Jtis), NEW n \in Nat
  PROVE  Oldest(queue, n) \in Seq(Jtis)
  BY DEF Oldest

---------------------------------------------------------------------------
(* Types.                                                                  *)

Held == {NoCall}
          \union [kind: {"poll"}, stream: Streams, ack: SUBSET Jtis]
          \union [kind: {"answer"}, sets: Seq(Jtis)]

(* A call that is set changes no other.                                    *)
LEMMA SetTyped ==
  ASSUME call \in [Calls -> Held], NEW c \in Calls, NEW x \in Held, Set(c, x)
  PROVE  /\ call' \in [Calls -> Held] /\ call'[c] = x
         /\ \A d \in Calls : d # c => call'[d] = call[d]
  BY DEF Set

(* What each kind of call holds.                                           *)
LEMMA CallKinds ==
  ASSUME NEW x \in Held
  PROVE  /\ x.kind = "poll" => x.stream \in Streams /\ x.ack \subseteq Jtis
         /\ x.kind = "answer" => x.sets \in Seq(Jtis)
  BY DEF Held, NoCall

(* The parts of the state that are typed, with the calls by their name.    *)
Typed ==
  /\ emitted \in Seq(Jtis) /\ acked \subseteq Jtis
  /\ call \in [Calls -> Held]
  /\ pendingAcks \subseteq Jtis /\ ackOn \in BOOLEAN
  /\ messages \in History /\ stored \subseteq Jtis /\ refused \subseteq Jtis

LEMMA TypedIs == TypeOK <=> Typed
  BY DEF TypeOK, Typed, Held, History

LEMMA TypedInit == Init => Typed
<1>1. <<>> \in Seq(Jtis) /\ Len(<<>>) = 0 /\ Limit \in Nat
  BY PollAssumption
<1> QED
  BY <1>1 DEF Init, Typed, Held, History

(* What becomes of a poll that is served.                                  *)
LEMMA ServeTyped ==
  ASSUME Typed, NEW c \in Calls, ServePoll(c)
  PROVE  Typed'
<1> DEFINE s   == call[c].stream
           now == acked \union {j \in call[c].ack : StreamOf[j] = s}
           got == Oldest(Left(s, now), MaxEvents)
<1>1. call[c] \in Held /\ call[c].kind = "poll" /\ acked' = now
      /\ Set(c, [kind |-> "answer", sets |-> got])
      /\ UNCHANGED <<emitted, pendingAcks, ackOn, messages, stored, refused>>
  BY DEF Typed, ServePoll, page, record
<1>2. now \subseteq Jtis
  BY <1>1, CallKinds DEF Typed
<1>3. got \in Seq(Jtis)
  <2>1. emitted \in Seq(Jtis) /\ MaxEvents \in Nat
    BY PollAssumption DEF Typed
  <2>2. Left(s, now) \in Seq(Jtis)
    BY <2>1, LeftTyped
  <2> QED
    BY <2>1, <2>2, OldestTyped
<1> HIDE DEF s, now, got
<1>4. [kind |-> "answer", sets |-> got] \in Held
  BY <1>3 DEF Held
<1>5. call' \in [Calls -> Held]
  BY <1>1, <1>4, SetTyped DEF Typed
<1> QED
  BY <1>1, <1>2, <1>5 DEF Typed

(* What becomes of an answer that is taken.                                *)
LEMMA TakeTyped ==
  ASSUME Typed, NEW c \in Calls, TakeAnswer(c)
  PROVE  /\ Typed'
         /\ call[c].sets \in Seq(Jtis)
         /\ \A d \in Calls : d # c => call'[d] = call[d]
         /\ call'[c] = NoCall
<1> DEFINE sets == call[c].sets
<1>1. sets \in Seq(Jtis) /\ ToSet(sets) \subseteq Jtis
  <2>1. call[c] \in Held /\ call[c].kind = "answer"
    BY DEF Typed, TakeAnswer
  <2>2. sets \in Seq(Jtis)
    BY <2>1, CallKinds
  <2> QED
    BY <2>2 DEF ToSet
<1> HIDE DEF sets
<1>2. PICK room \in Rooms :
        /\ messages' = RecordedAll(messages, sets, room)
        /\ stored' = stored \union Written(messages, sets, room)
        /\ refused' = (refused \union Refused(messages, sets, room)) \ stored'
  BY DEF TakeAnswer, Record, sets
<1>3. room \in Nat /\ messages \in History
  BY PollAssumption DEF Typed
<1>4. messages' \in History /\ stored' \subseteq Jtis /\ refused' \subseteq Jtis
  BY <1>1, <1>2, <1>3, RecordedAllTyped, WrittenAre DEF Typed
<1>5. pendingAcks' \subseteq Jtis /\ Set(c, NoCall)
      /\ UNCHANGED <<emitted, acked, ackOn>>
  BY <1>1 DEF TakeAnswer, sets, transmitter
<1>6. NoCall \in Held
  BY DEF Held
<1>7. call' \in [Calls -> Held] /\ call'[c] = NoCall
      /\ \A d \in Calls : d # c => call'[d] = call[d]
  BY <1>5, <1>6, SetTyped DEF Typed
<1> QED
  BY <1>1, <1>4, <1>5, <1>7 DEF Typed, sets

(* Every step keeps the types.                                             *)
LEMMA TypedStep ==
  ASSUME Typed, [Next]_vars
  PROVE  Typed'
<1>1. NoCall \in Held
  BY DEF Held
<1>2. ASSUME NEW c \in Calls, NEW s \in Streams, PollOnce(c, s)
      PROVE  Typed'
  <2>1. [kind |-> "poll", stream |-> s, ack |-> pendingAcks] \in Held
    BY DEF Typed, Held
  <2>2. call' \in [Calls -> Held]
    BY <1>2, <2>1, SetTyped DEF PollOnce, Typed
  <2> QED
    BY <1>2, <2>2 DEF PollOnce, Typed, transmitter, page, record
<1>3. ASSUME NEW c \in Calls, Fail(c)
      PROVE  Typed'
  <2>1. call' \in [Calls -> Held]
    BY <1>1, <1>3, SetTyped DEF Fail, Typed
  <2> QED
    BY <1>3, <2>1 DEF Fail, Typed, transmitter, page, record
<1>4. ASSUME NEW j \in Jtis, Emit(j)
      PROVE  Typed'
  BY <1>4 DEF Emit, Typed, page, record
<1>5. CASE ToggleAck
  BY <1>5 DEF ToggleAck, Typed, transmitter, record
<1>6. CASE ClearMessages
  <2>1. messages' \in History
    <3>1. <<>> \in Seq(Jtis) /\ Len(<<>>) = 0 /\ Limit \in Nat
      BY PollAssumption
    <3> QED
      BY <1>6, <3>1 DEF ClearMessages, History
  <2> QED
    BY <1>6, <2>1 DEF ClearMessages, Typed, transmitter
<1>7. CASE Reload
  BY <1>1, <1>7 DEF Reload, Typed, transmitter, record
<1>8. CASE UNCHANGED vars
  BY <1>8 DEF vars, Typed, transmitter, page, record
<1> QED
  BY <1>2, <1>3, <1>4, <1>5, <1>6, <1>7, <1>8, ServeTyped, TakeTyped DEF Next

(* The page, the history and the transmitter stay within their types, and  *)
(* the history within its cap, however many polls overlap.                 *)
THEOREM TypeCorrect == Spec => []TypeOK
<1>1. Init => Typed
  BY TypedInit
<1>2. Typed /\ [Next]_vars => Typed'
  BY TypedStep
<1>3. Spec => []Typed
  BY <1>1, <1>2, PTL DEF Spec
<1> QED
  BY <1>3, TypedIs, PTL

---------------------------------------------------------------------------
(* Acknowledgements.                                                       *)

(* All that waits to be acknowledged, is on its way to the transmitter or  *)
(* has been acknowledged was written or given up.                          *)
Settled == stored \union refused

AcksStored ==
  /\ pendingAcks \subseteq Settled
  /\ \A c \in Calls : call[c].kind = "poll" => call[c].ack \subseteq Settled
  /\ acked \subseteq Settled

LEMMA AcksInit == Init => AcksStored
  BY DEF Init, AcksStored, NoCall, Settled

(* Every step keeps it so.                                                 *)
LEMMA AcksStep ==
  ASSUME Typed, AcksStored, [Next]_vars
  PROVE  AcksStored'
<1>1. NoCall \in Held /\ NoCall.kind = "none"
  BY DEF Held, NoCall
<1>2. ASSUME NEW c \in Calls, NEW s \in Streams, PollOnce(c, s)
      PROVE  AcksStored'
  <2> DEFINE x == [kind |-> "poll", stream |-> s, ack |-> pendingAcks]
  <2>1. x \in Held /\ x.ack = pendingAcks
    BY DEF Typed, Held
  <2> HIDE DEF x
  <2>2. call'[c] = x /\ \A d \in Calls : d # c => call'[d] = call[d]
    BY <1>2, <2>1, SetTyped DEF PollOnce, Typed, x
  <2> QED
    BY <1>2, <2>1, <2>2 DEF PollOnce, AcksStored, Settled, transmitter, page, record
<1>3. ASSUME NEW c \in Calls, Fail(c)
      PROVE  AcksStored'
  <2>1. call'[c] = NoCall /\ \A d \in Calls : d # c => call'[d] = call[d]
    BY <1>1, <1>3, SetTyped DEF Fail, Typed
  <2> QED
    BY <1>1, <1>3, <2>1 DEF Fail, AcksStored, Settled, transmitter, page, record
<1>4. ASSUME NEW c \in Calls, ServePoll(c)
      PROVE  AcksStored'
  <2>1. PICK sets : Set(c, [kind |-> "answer", sets |-> sets])
    BY <1>4 DEF ServePoll
  <2>2. \A d \in Calls : call'[d] = call[d] \/ call'[d].kind = "answer"
    BY <2>1 DEF Set, Typed
  <2>3. acked' \subseteq acked \union call[c].ack
    BY <1>4 DEF ServePoll
  <2>4. call[c].kind = "poll" /\ UNCHANGED <<pendingAcks, stored, refused>>
    BY <1>4 DEF ServePoll, page, record
  <2> QED
    BY <2>2, <2>3, <2>4 DEF AcksStored, Settled
<1>5. ASSUME NEW c \in Calls, TakeAnswer(c)
      PROVE  AcksStored'
  <2> DEFINE sets == call[c].sets
  <2>1. sets \in Seq(Jtis) /\ call'[c] = NoCall
        /\ \A d \in Calls : d # c => call'[d] = call[d]
    BY <1>5, TakeTyped
  <2>2. PICK room \in Rooms :
          /\ stored' = stored \union Written(messages, sets, room)
          /\ refused' =
               (refused \union Refused(messages, sets, room)) \ stored'
    BY <1>5 DEF TakeAnswer, Record
  <2>3. /\ pendingAcks' = ToSet(sets) \/ pendingAcks' = {}
        /\ UNCHANGED acked
    BY <1>5 DEF TakeAnswer, transmitter
  <2> HIDE DEF sets
  <2>4. room \in Nat /\ messages \in History
    BY PollAssumption DEF Typed
  <2>5. ToSet(sets) \subseteq Settled' /\ Settled \subseteq Settled'
    BY <2>1, <2>2, <2>4, WrittenAre DEF Settled
  <2> QED
    BY <1>1, <2>1, <2>3, <2>5 DEF AcksStored
<1>6. ASSUME NEW j \in Jtis, Emit(j)
      PROVE  AcksStored'
  BY <1>6 DEF Emit, AcksStored, Settled, page, record
<1>7. CASE ToggleAck \/ ClearMessages
  BY <1>7 DEF ToggleAck, ClearMessages, AcksStored, Settled, transmitter, record
<1>8. CASE Reload
  BY <1>1, <1>8 DEF Reload, AcksStored, Settled, transmitter, record
<1>9. CASE UNCHANGED vars
  BY <1>9 DEF vars, AcksStored, Settled, transmitter, page, record
<1> QED
  BY <1>2, <1>3, <1>4, <1>5, <1>6, <1>7, <1>8, <1>9 DEF Next

(* Nothing is acknowledged, and so lost at the transmitter, that was not   *)
(* written to the history first, unless write() had to give it up for want *)
(* of room: whichever polls overlap, fail or are answered late, whichever  *)
(* stream is polled next, and however full the storage.  (pollOnce(),      *)
(* write())                                                                *)
THEOREM AckedCorrect == Spec => []AckedWasStored
<1>1. Init => Typed /\ AcksStored
  BY TypedInit, AcksInit
<1>2. Typed /\ AcksStored /\ [Next]_vars => (Typed /\ AcksStored)'
  BY TypedStep, AcksStep
<1>3. AcksStored => AckedWasStored
  BY DEF AcksStored, AckedWasStored, Settled
<1> QED
  BY <1>1, <1>2, <1>3, PTL DEF Spec

=============================================================================
