------------------------------ MODULE SsfPoll ------------------------------
(***************************************************************************)
(* RFC 8936 poll delivery, seen from the Shared Signals page (pollOnce()   *)
(* and takeReceivedToken() of client/src/ssf.js) and the message history   *)
(* it records into (client/src/ssf_history.js).                            *)
(*                                                                         *)
(* A poll request carries the acknowledgement of what an EARLIER answer    *)
(* brought.  The reader may press Poll while another poll is under way,    *)
(* move on to another stream, reload the page or clear the history; a      *)
(* request or its answer may be lost.  A row of the history is modelled by *)
(* the jti of its token; what the checks said of it is left out.           *)
(***************************************************************************)
EXTENDS Naturals, Sequences, SequencesExt

CONSTANTS
  Streams,    (* the streams the page has                                   *)
  Jtis,       (* the tokens the transmitter emits                           *)
  StreamOf,   (* the stream a token is emitted on                           *)
  Calls,      (* polls that may be in flight at once                        *)
  MaxEvents,  (* the page's maxEvents                                       *)
  Limit,      (* LIMIT: rows a history keeps                                *)
  Rooms       (* rows there may be room for: pages share the storage        *)

ASSUME PollAssumption ==
  /\ StreamOf \in [Jtis -> Streams]
  /\ MaxEvents \in Nat \ {0}
  /\ Limit \in Nat \ {0}
  /\ Rooms \subseteq Nat

VARIABLES
  emitted,      (* the transmitter: what it has emitted, in order           *)
  acked,        (* the transmitter: what has been acknowledged to it        *)
  call,         (* the polls in flight                                      *)
  pendingAcks,  (* what the next poll will acknowledge                      *)
  ackOn,        (* the box "acknowledge what arrives"                       *)
  messages,     (* localStorage: the message history, oldest first          *)
  stored,       (* history: tokens that were ever written to it             *)
  refused       (* history: tokens write() gave up and never came to write  *)

transmitter == <<emitted, acked>>
record == <<messages, stored, refused>>
page == <<pendingAcks, ackOn, record>>
vars == <<transmitter, call, page>>

NoCall == [kind |-> "none"]

TypeOK ==
  /\ emitted \in Seq(Jtis)
  /\ acked \subseteq Jtis
  /\ call \in [Calls -> {NoCall}
                  \union [kind: {"poll"}, stream: Streams, ack: SUBSET Jtis]
                  \union [kind: {"answer"}, sets: Seq(Jtis)]]
  /\ pendingAcks \subseteq Jtis
  /\ ackOn \in BOOLEAN
  /\ messages \in Seq(Jtis) /\ Len(messages) <= Limit
  /\ stored \subseteq Jtis
  /\ refused \subseteq Jtis

Init ==
  /\ emitted = <<>>
  /\ acked = {}
  /\ call = [c \in Calls |-> NoCall]
  /\ pendingAcks = {}
  /\ ackOn = TRUE
  /\ messages = <<>>
  /\ stored = {}
  /\ refused = {}

Set(c, x) == call' = [call EXCEPT ![c] = x]

---------------------------------------------------------------------------
(* The history.                                                            *)

(* The newest n rows.                                                      *)
TailOf(rows, n) == SubSeq(rows, Len(rows) - n + 1, Len(rows))

Fits(rows, room) == Len(rows) <= room

(* Variant for checking AckedWasStored: the newest half is dropped.        *)
OldestHalf(rows) == SubSeq(rows, 1, Len(rows) \div 2)

NewestHalf(rows) == TailOf(rows, Len(rows) - (Len(rows) \div 2))

(* Variant for checking TypeOK: nothing is cut at LIMIT.                   *)
Uncut(rows) == rows

Cut(rows) == IF Len(rows) > Limit THEN TailOf(rows, Limit) ELSE rows

(* There is no room for even the newest half.                              *)
GivenUp(rows, room) ==
  ~Fits(Cut(rows), room) /\ ~Fits(NewestHalf(Cut(rows)), room)

(* write(): a history over its cap loses its oldest rows; over the quota,  *)
(* its oldest half; if that is still too much nothing is written, and      *)
(* recordMessage() does not tell its caller.                               *)
Recorded(rows, jti, room) ==
  LET more == Append(rows, jti)
  IN IF GivenUp(more, room) THEN rows
     ELSE IF Fits(Cut(more), room) THEN Cut(more)
     ELSE NewestHalf(Cut(more))

(* The history after each of the tokens of an answer, in order.            *)
Histories(rows, sets, room) ==
  LET h[n \in 0..Len(sets)] ==
        IF n = 0 THEN rows ELSE Recorded(h[n - 1], sets[n], room)
  IN h

RecordedAll(rows, sets, room) == Histories(rows, sets, room)[Len(sets)]

(* The tokens that were written, each the last row just after it was, and  *)
(* those whose writing was given up.                                       *)
Written(rows, sets, room) ==
  LET h == Histories(rows, sets, room)
  IN {sets[n] : n \in {i \in 1..Len(sets) :
                        h[i] # <<>> /\ Last(h[i]) = sets[i]}}

Refused(rows, sets, room) ==
  LET h == Histories(rows, sets, room)
  IN {sets[n] : n \in {i \in 1..Len(sets) :
                        GivenUp(Append(h[i - 1], sets[i]), room)}}

---------------------------------------------------------------------------
(* The page.                                                               *)

(* takeReceivedToken() for each token of an answer.                        *)
Record(sets) ==
  \E room \in Rooms :
    /\ messages' = RecordedAll(messages, sets, room)
    /\ stored' = stored \union Written(messages, sets, room)
    /\ refused' = (refused \union Refused(messages, sets, room)) \ stored'

PollOnce(c, s) ==
  /\ call[c] = NoCall
  /\ Set(c, [kind |-> "poll", stream |-> s, ack |-> pendingAcks])
  /\ UNCHANGED <<transmitter, page>>

(* Variant for checking TakenIsAcknowledged: what was acknowledged once is *)
(* never taken off the list, and nothing is added to it.                   *)
TakeAnswerOnce(c) ==
  /\ call[c].kind = "answer"
  /\ pendingAcks' = IF ackOn /\ pendingAcks = {} THEN ToSet(call[c].sets)
                                                 ELSE pendingAcks
  /\ Record(call[c].sets)
  /\ Set(c, NoCall)
  /\ UNCHANGED <<transmitter, ackOn>>

(* Every token of the answer is recorded as far as the storage allows and, *)
(* if the box is ticked, waits for the next poll to acknowledge it, written*)
(* or not; whatever waited before does not.                                *)
TakeAnswer(c) ==
  /\ call[c].kind = "answer"
  /\ pendingAcks' = IF ackOn THEN ToSet(call[c].sets) ELSE {}
  /\ Record(call[c].sets)
  /\ Set(c, NoCall)
  /\ UNCHANGED <<transmitter, ackOn>>

(* A refusal, or a request or an answer that is lost: the acknowledgement  *)
(* goes on waiting.                                                        *)
Fail(c) ==
  /\ call[c] # NoCall
  /\ Set(c, NoCall)
  /\ UNCHANGED <<transmitter, page>>

ToggleAck ==
  /\ ackOn' = ~ackOn
  /\ UNCHANGED <<transmitter, call, pendingAcks, record>>

ClearMessages ==
  /\ messages' = <<>>
  /\ UNCHANGED <<transmitter, call, pendingAcks, ackOn, stored, refused>>

(* pendingAcks is a variable of the page, the history is not.              *)
Reload ==
  /\ pendingAcks' = {}
  /\ call' = [c \in Calls |-> NoCall]
  /\ UNCHANGED <<transmitter, ackOn, record>>

---------------------------------------------------------------------------
(* The transmitter.                                                        *)

Emit(j) ==
  /\ j \notin ToSet(emitted)
  /\ emitted' = Append(emitted, j)
  /\ UNCHANGED <<acked, call, page>>

(* What is left of the queue of a stream when some tokens have been taken  *)
(* off it, oldest first.                                                   *)
Left(s, taken) ==
  LET q[n \in 0..Len(emitted)] ==
        IF n = 0 THEN <<>>
        ELSE IF StreamOf[emitted[n]] = s /\ emitted[n] \notin taken
             THEN Append(q[n - 1], emitted[n])
             ELSE q[n - 1]
  IN q[Len(emitted)]

Oldest(queue, n) == SubSeq(queue, 1, IF Len(queue) < n THEN Len(queue) ELSE n)

(* It takes what is acknowledged off the stream's queue and answers with   *)
(* the oldest of what is left.                                             *)
ServePoll(c) ==
  /\ call[c].kind = "poll"
  /\ LET s == call[c].stream
         now == acked \union {j \in call[c].ack : StreamOf[j] = s}
     IN /\ acked' = now
        /\ Set(c, [kind |-> "answer", sets |-> Oldest(Left(s, now), MaxEvents)])
  /\ UNCHANGED <<emitted, page>>

Next ==
  \/ \E c \in Calls :
       \/ \E s \in Streams : PollOnce(c, s)
       \/ ServePoll(c)
       \/ TakeAnswer(c)
       \/ Fail(c)
  \/ \E j \in Jtis : Emit(j)
  \/ ToggleAck
  \/ ClearMessages
  \/ Reload

Spec == Init /\ [][Next]_vars

(* A reader goes on polling every stream, a poll ends, and neither the     *)
(* transmitter nor the network fails for ever.                             *)
Fairness ==
  /\ \A c \in Calls : WF_vars(TakeAnswer(c) \/ Fail(c))
  /\ \A s \in Streams : SF_vars(\E c \in Calls : PollOnce(c, s))
  /\ \A c \in Calls : SF_vars(ServePoll(c)) /\ SF_vars(TakeAnswer(c))

FairSpec == Spec /\ Fairness

---------------------------------------------------------------------------
(* Properties.                                                             *)

(* What is acknowledged, and so gone from the transmitter, was written to  *)
(* the history first, or there was no room for it beside even half a       *)
(* history and write() had to give it up.  (pollOnce(), write())           *)
AckedWasStored == acked \subseteq stored \union refused

(* A token the transmitter emits is taken and acknowledged in the end,     *)
(* provided that from some time on the box stays ticked and the page is    *)
(* not reloaded.  (ssf.html, "Acknowledges everything it takes")           *)
TakenIsAcknowledged ==
  <>[]ackOn /\ <>[][~Reload]_vars
    => \A j \in Jtis : <>(j \in ToSet(emitted)) => <>(j \in acked)
=============================================================================
