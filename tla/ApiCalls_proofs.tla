--------------------------- MODULE ApiCalls_proofs --------------------------
(***************************************************************************)
(* Proofs about the outbound calls of the api, for any budgets: a caller   *)
(* who has been answered leaves nothing behind, and is answered in time.   *)
(***************************************************************************)
EXTENDS ApiCalls, TLAPS

(* The phases a client can be in.                                          *)
PhaseOfKind ==
  /\ phase \in {"connecting"} => kind \in {"ldap", "tls"}
  /\ phase \in {"handshaking", "settling"} => kind = "tls"
  /\ phase \in {"binding", "operating", "unbinding"} => kind = "ldap"
  /\ phase = "talking" => kind \in {"krb5tcp", "krb5udp", "spiffe"}

Types ==
  /\ kind \in Kinds
  /\ phase \in Phases
  /\ timer \in [Timers -> Nat \union {Off}]
  /\ elapsed \in Nat
  /\ probe \in Probes
  /\ rpc \in Rpcs
  /\ outcome \in Outcomes
  /\ PhaseOfKind

(* A call is over exactly when it is answered, and then holds nothing.     *)
Released ==
  /\ phase = "done" <=> Answered
  /\ phase = "unbinding" => outcome # None
  /\ phase = "done" => timer = NoTimers /\ sock \in {"none", "closed"}

(* When the present handshake, exchange or connection may have begun.      *)
Start ==
  IF kind = "tls" /\ probe.mutual /\ ~probe.cert
    THEN ConnectTimeout + CallTimeout ELSE ConnectTimeout

(* The timer a phase waits on, and the time by which it is over: what has  *)
(* passed and what is left on the timer never exceed that.                 *)
Within(t, limit) == timer[t] >= 0 /\ elapsed + timer[t] <= limit

Clock ==
  /\ phase = "asked" => elapsed = 0
  /\ phase = "resolving" => Within("dns", ConnectTimeout)
  /\ phase = "resolved" => elapsed <= Start
  /\ phase = "talking" =>
       Within("call", Start + IF kind = "spiffe" THEN RpcBudget
                                                ELSE CallTimeout)
  /\ kind = "ldap" /\ phase = "connecting" =>
       Within("connect", 2 * ConnectTimeout)
  /\ phase = "binding" =>
       Within("call", 2 * ConnectTimeout + CallTimeout)
  /\ phase = "operating" =>
       Within("call", 2 * ConnectTimeout + 2 * CallTimeout)
  /\ phase = "unbinding" =>
       Within("unbind", 2 * ConnectTimeout + 2 * CallTimeout + UnbindWait)
  /\ kind = "tls" /\ phase \in {"connecting", "handshaking", "settling"} =>
       Within("call", Start + CallTimeout)
  /\ phase = "done" => elapsed <= Budget

(* A SPIFFE call that goes on still wants a message.                       *)
Room == phase # "done" => rpc.got < rpc.wanted

IInv == Types /\ Released /\ Clock /\ Room

USE BudgetAssumption, UnbindAssumption, StreamAssumption

LEMMA RpcMembers ==
  ASSUME NEW r \in Rpcs
  PROVE  /\ r.got \in Nat /\ r.wanted \in Nat /\ r.wanted >= 1
         /\ r.wanted <= MaxMessages /\ r.streaming \in BOOLEAN
<1>1. r.got \in 0..MaxMessages /\ r.wanted \in 1..MaxMessages
      /\ r.streaming \in BOOLEAN
  BY DEF Rpcs
<1> QED
  BY <1>1

LEMMA TimerMembers ==
  ASSUME Types
  PROVE  /\ timer["dns"] \in Int /\ timer["connect"] \in Int
         /\ timer["call"] \in Int /\ timer["grace"] \in Int
         /\ timer["unbind"] \in Int
BY DEF Types, Timers, Off

(* Before the answer, too, the budget is kept.                             *)
LEMMA InTime == IInv => AnsweredInTime
<1> SUFFICES ASSUME IInv
             PROVE  elapsed <= Budget
  BY DEF AnsweredInTime
<1> USE TimerMembers DEF IInv, Types, Clock, Within, Start, Budget, RpcBudget
<1>1. CASE kind \in {"krb5tcp", "krb5udp"}
  BY <1>1 DEF PhaseOfKind, Phases
<1>2. CASE kind = "ldap"
  BY <1>2 DEF PhaseOfKind, Phases
<1>3. CASE kind = "tls"
  BY <1>3 DEF PhaseOfKind, Phases
<1>4. CASE kind = "spiffe"
  BY <1>4 DEF PhaseOfKind, Phases
<1> QED
  BY <1>1, <1>2, <1>3, <1>4 DEF Kinds

LEMMA InitIInv == Init => IInv
<1> SUFFICES ASSUME Init
             PROVE  IInv
  OBVIOUS
<1>1. probe \in Probes
  <2>1. NewProbes \subseteq Probes
    BY DEF NewProbes
  <2>2. NoProbe \in Probes
    BY DEF NoProbe, Probes, Reports
  <2> QED
    BY <2>1, <2>2 DEF Init
<1>2. rpc \in Rpcs
  <2>1. NewRpcs \subseteq Rpcs
    BY DEF NewRpcs
  <2>2. 1 \in 1..MaxMessages /\ 0 \in 0..MaxMessages
    OBVIOUS
  <2>3. NoRpc \in Rpcs
    BY <2>2 DEF NoRpc, Rpcs
  <2> QED
    BY <2>1, <2>3 DEF Init
<1>3. Types
  BY <1>1, <1>2 DEF Types, PhaseOfKind, Init, CallInit, Kinds, Phases, Timers,
                    NoTimers, Off, Outcomes
<1>4. Released
  BY DEF Released, Answered, Init, CallInit
<1>5. Clock
  BY DEF Clock, Init, CallInit
<1>6. Room
  <2>1. \A x \in NewRpcs : x \in Rpcs /\ x.got = 0
    BY DEF NewRpcs
  <2>2. NoRpc.got < NoRpc.wanted
    BY DEF NoRpc
  <2> QED
    BY <2>1, <2>2, RpcMembers DEF Init, Room
<1> QED
  BY <1>3, <1>4, <1>5, <1>6 DEF IInv

(* What every finish() does to the invariant.                              *)
LEMMA FinishKeeps ==
  ASSUME IInv, NEW a \in AnswerCodes, Finish(a), kind' = kind,
         elapsed' = elapsed, probe' \in Probes, rpc' \in Rpcs,
         rpc'.streaming = rpc.streaming, outcome' \in Outcomes
  PROVE  IInv'
<1>1. elapsed <= Budget
  BY InTime DEF AnsweredInTime
<1>2. Budget' = Budget
  BY DEF Budget, RpcBudget
<1>3. Types'
  BY DEF IInv, Types, PhaseOfKind, Finish, NoTimers, Timers, Off, Phases
<1>4. Released'
  BY NoneAssumption DEF IInv, Released, Answered, Finish, Types
<1>5. Clock'
  BY <1>1, <1>2 DEF Clock, Finish
<1>6. Room'
  BY DEF Finish, Room
<1> QED
  BY <1>3, <1>4, <1>5, <1>6 DEF IInv

(* The part of a call before the socket.                                   *)
LEMMA BeginIInv ==
  ASSUME IInv, Begin
  PROVE  IInv'
<1> USE DEF IInv, AnswerCodes, Types
<1>0. UNCHANGED <<outcome, probe, rpc>>
  BY DEF Begin
<1>1. CASE Refuse
  BY <1>0, <1>1, FinishKeeps DEF Refuse
<1>2. CASE ResolveLiteral
  <2>1. CASE guarded /\ host = "private"
    BY <1>0, <1>2, <2>1, FinishKeeps DEF ResolveLiteral
  <2>2. CASE ~(guarded /\ host = "private")
    BY <1>0, <1>2, <2>2
       DEF ResolveLiteral, Released, Room, Clock, Start, Answered, PhaseOfKind, Phases
  <2> QED
    BY <2>1, <2>2
<1>3. CASE ResolveName
  BY <1>0, <1>3
     DEF ResolveName, Released, Room, Clock, Within, Answered, PhaseOfKind, Phases,
         Timers
<1>4. ASSUME NEW list \in Lists, LookupReturns(list)
      PROVE  IInv'
  <2>1. CASE phase # "resolving"
    BY <1>0, <1>4, <2>1
       DEF LookupReturns, Released, Room, Clock, Within, Start, Budget, RpcBudget,
           Answered, PhaseOfKind
  <2>2. CASE /\ phase = "resolving"
             /\ \E i \in DOMAIN list : guarded /\ list[i] = "private"
    BY <1>0, <1>4, <2>2, FinishKeeps DEF LookupReturns
  <2>3. CASE /\ phase = "resolving"
             /\ ~\E i \in DOMAIN list : guarded /\ list[i] = "private"
    BY <1>0, <1>4, <2>3
       DEF LookupReturns, Released, Room, Clock, Within, Start, Answered,
           PhaseOfKind, Phases, Timers, Off
  <2> QED
    BY <2>1, <2>2, <2>3
<1>5. CASE LookupFails
  <2>1. CASE phase = "resolving"
    BY <1>0, <1>5, <2>1, FinishKeeps DEF LookupFails
  <2>2. CASE phase # "resolving"
    BY <1>0, <1>5, <2>2
       DEF LookupFails, Released, Room, Clock, Within, Start, Budget, RpcBudget,
           Answered, PhaseOfKind
  <2> QED
    BY <2>1, <2>2
<1>6. CASE DnsDeadline
  BY <1>0, <1>6, FinishKeeps DEF DnsDeadline
<1> QED
  BY <1>1, <1>2, <1>3, <1>4, <1>5, <1>6 DEF Begin, Resolve

LEMMA KrbIInv ==
  ASSUME IInv, KrbNext, UNCHANGED <<outcome, probe, rpc>>
  PROVE  IInv'
<1> USE DEF IInv, AnswerCodes, Types, Krb5
<1>1. CASE KrbDial
  BY <1>1 DEF KrbDial, Released, Room, Clock, Within, Start, RpcBudget, Answered,
              PhaseOfKind, Phases, Timers
<1>2. CASE KrbConnected
  BY <1>2 DEF KrbConnected, Released, Room, Clock, Within, Start, Budget, RpcBudget,
              Answered, PhaseOfKind, Phases, Timers, Off
<1>3. CASE KrbReply
  BY <1>3, FinishKeeps DEF KrbReply
<1>4. CASE KrbEnd
  BY <1>4, FinishKeeps DEF KrbEnd
<1>5. CASE KrbError
  BY <1>5, FinishKeeps DEF KrbError
<1>6. CASE KrbConnectDeadline
  BY <1>6, FinishKeeps DEF KrbConnectDeadline
<1>7. CASE KrbCallDeadline
  BY <1>7, FinishKeeps DEF KrbCallDeadline
<1> QED
  BY <1>1, <1>2, <1>3, <1>4, <1>5, <1>6, <1>7 DEF KrbNext

(* Every way into the unbind leaves a bound on it.                         *)
LEMMA UnbindKeeps ==
  ASSUME IInv, NEW o \in Outcomes \ {None}, Unbind(o), kind = "ldap",
         phase \in {"binding", "operating"},
         UNCHANGED <<kind, sock, answer, elapsed, probe, rpc>>
  PROVE  IInv'
BY DEF IInv, Types, Unbind, Released, Room, Clock, Within, Start, Answered,
       PhaseOfKind, Phases, Timers, Off

LEMMA LdapIInv ==
  ASSUME IInv, LdapNext, UNCHANGED <<probe, rpc>>
  PROVE  IInv'
<1> USE DEF IInv, Types, Ldap
<1>a. (Outcomes \ {None}) \subseteq AnswerCodes
  BY DEF Outcomes, AnswerCodes
<1>b. None \notin {"BindRefused", "BindTimeout", "BindBroken", "Success",
                   "Result", "OperationTimeout", "OperationBroken"}
  BY NoneAssumption DEF AnswerCodes
<1>1. CASE LdapDial
  <2>1. CASE Finish("ClientError")
    BY <1>1, <2>1, FinishKeeps DEF LdapDial, AnswerCodes
  <2>2. CASE ~Finish("ClientError")
    BY <1>1, <2>2
       DEF LdapDial, Released, Room, Clock, Within, Start, Answered, PhaseOfKind,
           Phases, Timers
  <2> QED
    BY <2>1, <2>2
<1>2. CASE LdapConnected
  BY <1>2 DEF LdapConnected, Released, Room, Clock, Within, Start, Answered,
              PhaseOfKind, Phases, Timers, Off
<1>3. CASE LdapConnectDeadline
  BY <1>3, FinishKeeps DEF LdapConnectDeadline, AnswerCodes
<1>4. CASE LdapError
  BY <1>4, FinishKeeps DEF LdapError, AnswerCodes
<1>5. CASE LdapBound
  <2>1. CASE phase' = "operating"
    BY <1>5, <2>1, <1>b, TimerMembers
       DEF LdapBound, Unbind, Released, Room, Clock, Within, Start, Answered,
           PhaseOfKind, Phases, Timers
  <2>2. CASE phase' # "operating"
    <3>1. PICK o \in {"Success", "BindRefused"} : Unbind(o)
      BY <1>5, <2>2 DEF LdapBound
    <3> QED
      BY <1>5, <3>1, <1>b, UnbindKeeps DEF LdapBound, Outcomes
  <2> QED
    BY <2>1, <2>2
<1>6. CASE LdapBindLost
  <2>1. PICK o \in {"BindTimeout", "BindBroken"} : Unbind(o)
    BY <1>6 DEF LdapBindLost
  <2> QED
    BY <1>6, <2>1, <1>b, UnbindKeeps DEF LdapBindLost, Outcomes
<1>7. CASE LdapOperation
  <2>1. PICK o \in {"Success", "Result", "OperationBroken",
                    "OperationTimeout"} : Unbind(o)
    BY <1>7 DEF LdapOperation
  <2> QED
    BY <1>7, <2>1, <1>b, UnbindKeeps DEF LdapOperation, Outcomes
<1>8. CASE LdapUnbound
  BY <1>8, <1>a, FinishKeeps DEF LdapUnbound, Released
<1> QED
  BY <1>1, <1>2, <1>3, <1>4, <1>5, <1>6, <1>7, <1>8 DEF LdapNext

(* The continuation of a handshake that was reported: the second one, or   *)
(* the answer.                                                             *)
LEMMA ReportKeeps ==
  ASSUME IInv, NEW r \in {"usable", "hungup", "alert", "unreachable"},
         NEW p \in Probes, p.cert = probe.cert, p.mutual = probe.mutual,
         Report(r, p), kind = "tls",
         phase \in {"connecting", "handshaking", "settling"},
         UNCHANGED <<kind, elapsed, outcome, rpc>>
  PROVE  IInv'
<1> USE DEF IInv, Types
<1>1. CASE p.mutual /\ p.cert
  <2>1. probe' = [p EXCEPT !.first = r, !.cert = FALSE, !.spoke = FALSE]
    BY <1>1 DEF Report
  <2>2. probe' \in Probes /\ probe'.mutual = probe.mutual /\ probe'.cert = FALSE
    BY <2>1 DEF Probes, Reports
  <2>3. elapsed <= ConnectTimeout + CallTimeout
    BY <1>1, TimerMembers DEF Clock, Within, Start
  <2>4. /\ phase' = "resolved" /\ timer' = NoTimers
        /\ answer' = answer /\ elapsed' = elapsed /\ kind' = kind
        /\ rpc' = rpc /\ outcome' = outcome
    BY <1>1 DEF Report
  <2>5. Types'
    BY <2>2, <2>4 DEF PhaseOfKind, Phases, NoTimers, Timers, Off
  <2>6. Released' /\ Room'
    BY <2>4 DEF Released, Room, Answered, Room
  <2>7. Clock'
    BY <1>1, <2>2, <2>3, <2>4 DEF Clock, Start
  <2> QED
    BY <2>5, <2>6, <2>7
<1>2. CASE ~(p.mutual /\ p.cert)
  <2>1. ASSUME NEW w, NEW v PROVE Verdict(w, v) \in Verdicts
    BY DEF Verdict, Verdicts
  <2>2. (IF p.mutual THEN Verdict(p.first, r) ELSE r) \in AnswerCodes
    BY <2>1 DEF Verdicts, AnswerCodes
  <2> QED
    BY <1>2, <2>2, FinishKeeps DEF Report
<1> QED
  BY <1>1, <1>2

LEMMA TlsIInv ==
  ASSUME IInv, TlsNext, UNCHANGED <<outcome, rpc>>
  PROVE  IInv'
<1> USE DEF IInv, Types, Tls
<1>a. /\ Unrelated \in Probes
      /\ Unrelated.cert = probe.cert /\ Unrelated.mutual = probe.mutual
  BY DEF Unrelated, Probes
<1>1. CASE TlsDial
  <2>1. CASE Finish("NotStarted")
    BY <1>1, <2>1, FinishKeeps DEF TlsDial, AnswerCodes
  <2>2. CASE ~Finish("NotStarted")
    BY <1>1, <2>2
       DEF TlsDial, Released, Room, Clock, Within, Start, Answered, PhaseOfKind,
           Phases, Timers
  <2> QED
    BY <2>1, <2>2
<1>2. CASE TlsConnected
  BY <1>2 DEF TlsConnected, Released, Room, Clock, Within, Start, Answered,
              PhaseOfKind, Phases, Timers, Off
<1>3. CASE TlsSecured
  BY <1>3, GraceAssumption
     DEF TlsSecured, Released, Room, Clock, Within, Start, Answered, PhaseOfKind,
         Phases, Timers
<1>4. CASE TlsRefused
  BY <1>4, ReportKeeps DEF TlsRefused
<1>5. CASE TlsSpoke
  <2>1. CASE probe.http /\ phase' = phase
    <3>1. probe' \in Probes
          /\ probe'.mutual = probe.mutual /\ probe'.cert = probe.cert
      BY <1>5, <2>1 DEF TlsSpoke, Probes, Report, Finish
    <3> QED
      BY <1>5, <2>1, <3>1, GraceAssumption
         DEF TlsSpoke, Released, Room, Clock, Within, Start, Answered, PhaseOfKind,
             Phases, Timers, Report, Finish
  <2>2. CASE Report("usable", [probe EXCEPT !.spoke = TRUE])
    <3> DEFINE p == [probe EXCEPT !.spoke = TRUE]
    <3>1. p \in Probes /\ p.cert = probe.cert /\ p.mutual = probe.mutual
      BY DEF Probes
    <3> QED
      BY <1>5, <2>2, <3>1, ReportKeeps DEF TlsSpoke
  <2> QED
    BY <1>5, <2>1, <2>2 DEF TlsSpoke
<1>6. CASE TlsClosed
  BY <1>6, <1>a, ReportKeeps DEF TlsClosed
<1>7. CASE TlsError
  BY <1>7, <1>a, ReportKeeps DEF TlsError
<1>8. CASE TlsGraceOver
  <2> DEFINE p == [probe EXCEPT !.missed = @ \/ Refuses]
  <2>1. p \in Probes /\ p.cert = probe.cert /\ p.mutual = probe.mutual
    BY DEF Probes, Refuses
  <2> QED
    BY <1>8, <2>1, ReportKeeps DEF TlsGraceOver
<1>9. CASE TlsConnectDeadline
  BY <1>9, FinishKeeps DEF TlsConnectDeadline, AnswerCodes
<1>10. CASE TlsCallDeadline
  BY <1>10, FinishKeeps DEF TlsCallDeadline, AnswerCodes
<1>11. CASE TlsWriteFailed
  <2> DEFINE p == [probe EXCEPT !.missed = @ \/ Refuses]
  <2>1. p \in Probes /\ p.cert = probe.cert /\ p.mutual = probe.mutual
    BY DEF Probes, Refuses
  <2> QED
    BY <1>11, <2>1, ReportKeeps DEF TlsWriteFailed
<1> QED
  BY <1>1, <1>2, <1>3, <1>4, <1>5, <1>6, <1>7, <1>8, <1>9, <1>10, <1>11
     DEF TlsNext

LEMMA RpcIInv ==
  ASSUME IInv, RpcNext, UNCHANGED <<outcome, probe>>
  PROVE  IInv'
<1> USE DEF IInv, Types, Spiffe, AnswerCodes
<1>1. CASE RpcSocketPath
  BY <1>1 DEF RpcSocketPath, Released, Room, Clock, Start, Answered, PhaseOfKind,
              Phases
<1>2. CASE RpcInvoke
  <2>1. CASE Finish("Refused")
    BY <1>2, <2>1, FinishKeeps DEF RpcInvoke
  <2>2. CASE ~Finish("Refused")
    BY <1>2, <2>2, RpcMembers
       DEF RpcInvoke, Released, Room, Clock, Within, Start, RpcBudget, Answered,
           PhaseOfKind, Phases, Timers
  <2> QED
    BY <2>1, <2>2
<1>3. CASE RpcMessage
  <2> DEFINE got == rpc.got + 1
  <2>1. PICK full \in BOOLEAN :
          LET stopped == IF full THEN "size"
                         ELSE IF got >= rpc.wanted THEN "messages" ELSE ""
          IN /\ rpc' = [rpc EXCEPT !.got = got, !.stopped = stopped]
             /\ IF ~rpc.streaming \/ stopped # ""
                  THEN Finish("OK")
                  ELSE UNCHANGED <<phase, sock, timer, answer>>
    BY <1>3 DEF RpcMessage
  <2> DEFINE stopped == IF full THEN "size"
                        ELSE IF got >= rpc.wanted THEN "messages" ELSE ""
  <2>2. got \in 0..MaxMessages
    BY <1>3, RpcMembers DEF RpcMessage, Room
  <2>3. rpc' = [rpc EXCEPT !.got = got, !.stopped = stopped]
    BY <2>1
  <2>4. /\ rpc' \in Rpcs
        /\ rpc'.streaming = rpc.streaming /\ rpc'.wanted = rpc.wanted
        /\ rpc'.got = got
    <3> HIDE DEF got
    <3> QED
      BY <2>2, <2>3 DEF Rpcs
  <2>5. CASE ~rpc.streaming \/ stopped # ""
    BY <1>3, <2>1, <2>4, <2>5, FinishKeeps DEF RpcMessage
  <2>6. CASE ~(~rpc.streaming \/ stopped # "")
    <3>1. /\ UNCHANGED <<phase, sock, timer, answer>>
          /\ got < rpc.wanted
      BY <2>1, <2>2, <2>6, RpcMembers
    <3> QED
      BY <1>3, <2>4, <3>1
         DEF RpcMessage, Released, Room, Clock, Within, Start, Budget,
             RpcBudget, Answered, PhaseOfKind
  <2> QED
    BY <2>5, <2>6
<1>4. CASE RpcError
  BY <1>4, FinishKeeps DEF RpcError
<1>5. CASE RpcLibraryDeadline
  BY <1>5, FinishKeeps DEF RpcLibraryDeadline
<1>6. CASE RpcEnd
  BY <1>6, FinishKeeps DEF RpcEnd
<1>7. CASE RpcDeadline
  <2>1. rpc' \in Rpcs /\ rpc'.streaming = rpc.streaming
    BY <1>7 DEF RpcDeadline, Rpcs
  <2> QED
    BY <1>7, <2>1, FinishKeeps DEF RpcDeadline
<1> QED
  BY <1>1, <1>2, <1>3, <1>4, <1>5, <1>6, <1>7 DEF RpcNext

LEMMA PassIInv ==
  ASSUME IInv, Pass
  PROVE  IInv'
<1> USE DEF IInv, Types
<1>1. /\ phase \notin {"asked", "resolved", "done"}
      /\ \A t \in Timers : timer[t] # 0
      /\ elapsed' \in Nat /\ elapsed' <= elapsed + 1
      /\ UNCHANGED <<kind, phase, sock, answer, outcome, probe, rpc>>
  BY DEF Pass, Tick, Running, Due, Released, Answered
<1>2. timer' = [t \in Timers |-> IF timer[t] = Off THEN Off ELSE timer[t] - 1]
  BY DEF Pass, Tick
<1>3. timer' \in [Timers -> Nat \union {Off}]
  BY <1>1, <1>2 DEF Off
<1>4. ASSUME NEW t \in Timers, NEW limit \in Int, Within(t, limit)
      PROVE  Within(t, limit)'
  BY <1>1, <1>2, <1>4 DEF Within, Off
<1>5. /\ Start' = Start /\ RpcBudget' = RpcBudget
      /\ Start \in Int /\ RpcBudget \in Int
  BY <1>1, RpcMembers DEF Start, RpcBudget
<1>6. Clock'
  BY <1>1, <1>4, <1>5 DEF Clock, Timers
<1> QED
  BY <1>1, <1>3, <1>6 DEF Released, Room, PhaseOfKind, Answered

LEMMA StepIInv == IInv /\ [Next]_vars => IInv'
<1> SUFFICES ASSUME IInv, [Next]_vars
             PROVE  IInv'
  OBVIOUS
<1>1. CASE UNCHANGED vars
  BY <1>1 DEF vars, call, IInv, Types, PhaseOfKind, Released, Answered, Clock,
              Within, Start, Budget, RpcBudget, Room
<1>2. CASE Begin
  BY <1>2, BeginIInv
<1>3. CASE Continue
  BY <1>3, KrbIInv, LdapIInv, TlsIInv, RpcIInv DEF Continue
<1>4. CASE Pass
  BY <1>4, PassIInv
<1> QED
  BY <1>1, <1>2, <1>3, <1>4 DEF Next

LEMMA Invariance == Spec => []IInv
BY InitIInv, StepIInv, PTL DEF Spec

(* Whoever was answered, by whichever of the finish() calls, holds         *)
(* nothing, for any budgets.                                               *)
THEOREM NothingHeld == Spec => []NothingLeftOver
<1>1. IInv => NothingLeftOver
  BY DEF IInv, Released, NothingLeftOver, Holding, Armed, NoTimers
<1> QED
  BY <1>1, Invariance, PTL

(* However the two budgets of the configuration are chosen, each endpoint  *)
(* answers within its own sum of them.                                     *)
THEOREM InBudget == Spec => []AnsweredInTime
BY InTime, Invariance, PTL

-----------------------------------------------------------------------------
(* The refinement.                                                         *)

(* After the answer only a lookup may still come back, and it is dropped.  *)
LEMMA DoneStays ==
  ASSUME IInv, phase = "done", Next
  PROVE  UNCHANGED <<answer, phase, timer, sock, elapsed>>
<1>1. \A t \in Timers : ~Due(t)
  BY DEF IInv, Released, NoTimers, Due, Off
<1>2. Answered /\ sock \in {"none", "closed"}
  BY DEF IInv, Released
<1>3. ~Pass
  BY <1>2 DEF Pass, Tick
<1>4. ~KrbNext
  BY <1>1, <1>2 DEF KrbNext, KrbDial, KrbConnected, KrbReply, KrbEnd, KrbError,
       KrbConnectDeadline, KrbCallDeadline, Timers
<1>5. ~LdapNext
  BY DEF LdapNext, LdapDial, LdapConnected, LdapConnectDeadline, LdapError,
         LdapBound, LdapBindLost, LdapOperation, LdapUnbound
<1>6. ~TlsNext
  BY <1>1 DEF TlsNext, TlsDial, TlsConnected, TlsSecured, TlsWriteFailed, TlsRefused, TlsSpoke,
       TlsClosed, TlsError, TlsGraceOver, TlsConnectDeadline, TlsCallDeadline,
       Timers
<1>7. ~RpcNext
  BY DEF RpcNext, RpcSocketPath, RpcInvoke, RpcMessage, RpcError,
         RpcLibraryDeadline, RpcEnd, RpcDeadline
<1>8. CASE Begin
  BY <1>1, <1>8 DEF Begin, Refuse, Resolve, ResolveLiteral, ResolveName,
       LookupReturns, LookupFails, DnsDeadline, Timers
<1> QED
  BY <1>3, <1>4, <1>5, <1>6, <1>7, <1>8 DEF Next, Continue

(* No client touches the clock.                                            *)
LEMMA ClockStands ==
  ASSUME Begin \/ Continue
  PROVE  elapsed' = elapsed
<1>1. Begin => elapsed' = elapsed
  BY DEF Begin, Refuse, Resolve, ResolveLiteral, ResolveName, LookupReturns,
         LookupFails, DnsDeadline
<1>2. KrbNext => elapsed' = elapsed
  BY DEF KrbNext, KrbDial, KrbConnected, KrbReply, KrbEnd, KrbError,
         KrbConnectDeadline, KrbCallDeadline
<1>3. LdapNext => elapsed' = elapsed
  BY DEF LdapNext, LdapDial, LdapConnected, LdapConnectDeadline, LdapError,
         LdapBound, LdapBindLost, LdapOperation, LdapUnbound
<1>4. TlsNext => elapsed' = elapsed
  BY DEF TlsNext, TlsDial, TlsConnected, TlsSecured, TlsWriteFailed, TlsRefused, TlsSpoke,
         TlsClosed, TlsError, TlsGraceOver, TlsConnectDeadline,
         TlsCallDeadline
<1>5. RpcNext => elapsed' = elapsed
  BY DEF RpcNext, RpcSocketPath, RpcInvoke, RpcMessage, RpcError,
         RpcLibraryDeadline, RpcEnd, RpcDeadline
<1> QED
  BY <1>1, <1>2, <1>3, <1>4, <1>5 DEF Continue

LEMMA LongestBudget == IInv => elapsed <= Longest
<1> SUFFICES ASSUME IInv
             PROVE  elapsed <= Longest
  OBVIOUS
<1>1. elapsed <= Budget
  BY InTime DEF AnsweredInTime
<1>2. Budget <= Longest
  BY RpcMembers DEF IInv, Types, Budget, RpcBudget, Longest, Kinds
<1>3. elapsed \in Nat /\ Budget \in Nat /\ Longest \in Nat
  BY RpcMembers DEF IInv, Types, Budget, RpcBudget, Longest, Kinds
<1> QED
  BY <1>1, <1>2, <1>3

LEMMA StepPromise ==
  ASSUME IInv, IInv', [Next]_vars, elapsed' <= Longest'
  PROVE  [Promise!Next]_(Promise!vars)
<1> USE DEF Promise!Next, Promise!vars
<1>1. CASE UNCHANGED vars
  BY <1>1 DEF vars, call, Answered, Holding, Armed
<1>2. CASE Next /\ phase = "done"
  BY <1>2, DoneStays DEF Answered, Holding, Armed
<1>3. CASE (Begin \/ Continue) /\ phase # "done"
  <2>1. ~Answered /\ elapsed' = elapsed
    BY <1>3, ClockStands DEF IInv, Released
  <2>2. Answered' => ~Holding'
    BY DEF IInv, Released, Holding, Armed, NoTimers
  <2>3. Holding' \in BOOLEAN
    BY DEF Holding
  <2> QED
    BY <2>1, <2>2, <2>3 DEF Promise!Work, Promise!Answer, Answered
<1>4. CASE Pass
  <2>1. ~Answered /\ ~Answered' /\ sock' = sock
    BY <1>4 DEF Pass, Tick, Answered
  <2>2. \A t \in Timers : timer'[t] = Off <=> timer[t] = Off
    BY <1>4 DEF Pass, Tick, Due, Off, IInv, Types
  <2>3. Armed' = Armed
    BY <2>2 DEF Armed
  <2>4. elapsed' \in {elapsed, elapsed + 1}
    BY <1>4 DEF Pass, Tick
  <2>5. elapsed' <= Longest
    BY DEF Longest
  <2>6. elapsed \in Nat /\ Longest \in Nat
    BY DEF IInv, Types, Longest
  <2>7. Answered' = Answered /\ Holding' = Holding
    BY <2>1, <2>3, <1>4 DEF Holding, Answered, Pass, Tick
  <2>8. CASE elapsed' = elapsed
    BY <2>7, <2>8
  <2>9. CASE elapsed' = elapsed + 1
    <3>1. elapsed < Longest
      BY <2>5, <2>6, <2>9
    <3> QED
      BY <2>1, <2>7, <2>9, <3>1 DEF Promise!Pass
  <2> QED
    BY <2>4, <2>8, <2>9
<1> QED
  BY <1>1, <1>2, <1>3, <1>4 DEF Next

(* The safety part of ImplementsOutboundCall: every step of every client   *)
(* is a step of a call that is answered once, in time, holding nothing.    *)
THEOREM KeepsPromise ==
  Spec => Promise!Init /\ [][Promise!Next]_(Promise!vars)
<1>1. Init => Promise!Init
  BY DEF Init, CallInit, Promise!Init, Answered, Holding, Armed, NoTimers
<1>2. IInv /\ IInv' /\ (elapsed <= Longest)' /\ [Next]_vars =>
        [Promise!Next]_(Promise!vars)
  BY StepPromise
<1> QED
  BY <1>1, <1>2, Invariance, LongestBudget, PTL DEF Spec

-----------------------------------------------------------------------------
(* What a stream says it was stopped by.                                   *)

(* Only an answered call has been stopped by something.                    *)
StopInv == StoppedTruthfully /\ (rpc.stopped # "" => phase = "done")

(* A step that leaves the stream alone can only answer it with less than   *)
(* it wanted.                                                              *)
LEMMA StopRest ==
  ASSUME IInv, StopInv, rpc' = rpc, kind' = kind,
         phase = "done" => answer' = answer /\ phase' = phase
  PROVE  StopInv'
BY DEF IInv, Room, Released, StopInv, StoppedTruthfully, Answered

LEMMA StopStep ==
  ASSUME IInv, StopInv, [Next]_vars
  PROVE  StopInv'
<1> USE DEF IInv, Types
<1>1. CASE phase = "done" /\ Next
  <2>1. answer' = answer /\ phase' = phase
    BY <1>1, DoneStays
  <2>2. rpc' = rpc /\ kind' = kind
    BY <1>1 DEF Next, Begin, Continue, Pass, Tick, Refuse, Resolve,
         ResolveLiteral, ResolveName, LookupReturns, LookupFails, DnsDeadline,
         KrbNext, KrbDial, KrbConnected, KrbReply, KrbEnd, KrbError,
         KrbConnectDeadline, KrbCallDeadline,
         LdapNext, LdapDial, LdapConnected, LdapConnectDeadline, LdapError,
         LdapBound, LdapBindLost, LdapOperation, LdapUnbound,
         TlsNext, TlsDial, TlsConnected, TlsSecured, TlsWriteFailed, TlsRefused, TlsSpoke,
         TlsClosed, TlsError, TlsGraceOver, TlsConnectDeadline,
         TlsCallDeadline,
         RpcNext, RpcSocketPath, RpcInvoke, RpcMessage, RpcError,
         RpcLibraryDeadline, RpcEnd, RpcDeadline
  <2> QED
    BY <2>1, <2>2, StopRest
<1>2. CASE Begin /\ phase # "done"
  BY <1>2, StopRest
     DEF Begin, Refuse, Resolve, ResolveLiteral, ResolveName, LookupReturns,
         LookupFails, DnsDeadline
<1>3. CASE KrbNext /\ UNCHANGED <<outcome, probe, rpc>> /\ phase # "done"
  BY <1>3, StopRest
     DEF KrbNext, KrbDial, KrbConnected, KrbReply, KrbEnd, KrbError,
         KrbConnectDeadline, KrbCallDeadline
<1>4. CASE LdapNext /\ UNCHANGED <<probe, rpc>> /\ phase # "done"
  BY <1>4, StopRest
     DEF LdapNext, LdapDial, LdapConnected, LdapConnectDeadline, LdapError,
         LdapBound, LdapBindLost, LdapOperation, LdapUnbound
<1>5. CASE TlsNext /\ UNCHANGED <<outcome, rpc>> /\ phase # "done"
  BY <1>5, StopRest
     DEF TlsNext, TlsDial, TlsConnected, TlsSecured, TlsWriteFailed, TlsRefused, TlsSpoke,
         TlsClosed, TlsError, TlsGraceOver, TlsConnectDeadline, TlsCallDeadline
<1>6. CASE RpcNext /\ phase # "done"
  <2>1. CASE RpcMessage
    <3> DEFINE got == rpc.got + 1
    <3>1. PICK full \in BOOLEAN :
            LET stopped == IF full THEN "size"
                           ELSE IF got >= rpc.wanted THEN "messages" ELSE ""
            IN /\ rpc' = [rpc EXCEPT !.got = got, !.stopped = stopped]
               /\ IF ~rpc.streaming \/ stopped # ""
                    THEN Finish("OK")
                    ELSE UNCHANGED <<phase, sock, timer, answer>>
      BY <2>1 DEF RpcMessage
    <3> DEFINE stopped == IF full THEN "size"
                          ELSE IF got >= rpc.wanted THEN "messages" ELSE ""
    <3>2. rpc' = [rpc EXCEPT !.got = got, !.stopped = stopped]
      BY <3>1
    <3>3. /\ rpc'.streaming = rpc.streaming /\ rpc'.wanted = rpc.wanted
          /\ rpc'.got = got /\ rpc'.stopped = stopped
      <4> HIDE DEF got, stopped
      <4> QED
        BY <3>2 DEF Rpcs
    <3>4. rpc.got \in Nat /\ rpc.wanted \in Nat /\ rpc.got < rpc.wanted
      BY <1>6, RpcMembers DEF Room
    <3>5. got <= rpc.wanted /\ (got >= rpc.wanted => got = rpc.wanted)
      BY <3>4
    <3>6. stopped # "" => phase' = "done"
      BY <3>1 DEF Finish
    <3>7. kind = "spiffe" /\ kind' = kind
      BY <2>1 DEF RpcMessage, Spiffe
    <3>8. stopped # "timeout" /\ (stopped = "messages" => got >= rpc.wanted)
          /\ (stopped = "" => got < rpc.wanted)
      BY <3>4
    <3> HIDE DEF got, stopped
    <3> QED
      BY <3>3, <3>5, <3>6, <3>7, <3>8 DEF StopInv, StoppedTruthfully
  <2>2. CASE RpcDeadline
    <3>1. /\ rpc'.got = rpc.got /\ rpc'.wanted = rpc.wanted
          /\ rpc'.stopped = "timeout"
      BY <2>2 DEF RpcDeadline, Rpcs
    <3>2. phase' = "done" /\ (answer' = "OK" <=> rpc.got # 0)
      BY <2>2 DEF RpcDeadline, Finish
    <3>3. rpc.got \in Nat /\ rpc.wanted \in Nat /\ rpc.got < rpc.wanted
      BY <1>6, RpcMembers DEF Room
    <3>4. /\ rpc'.got <= rpc'.wanted
          /\ rpc'.got > 0 <=> rpc.got # 0
          /\ rpc'.stopped # "messages" /\ rpc'.stopped # ""
      BY <3>1, <3>3
    <3>5. answer' = "OK" <=> rpc'.got > 0
      BY <3>2, <3>4
    <3> QED
      BY <3>2, <3>4, <3>5, Zenon DEF StopInv, StoppedTruthfully
  <2>3. CASE RpcNext /\ ~RpcMessage /\ ~RpcDeadline
    BY <1>6, <2>3, StopRest
       DEF RpcNext, RpcSocketPath, RpcInvoke, RpcError, RpcLibraryDeadline,
           RpcEnd
  <2> QED
    BY <1>6, <2>1, <2>2, <2>3
<1>7. CASE Pass
  BY <1>7, StopRest DEF Pass, Tick
<1>8. CASE UNCHANGED vars
  BY <1>8 DEF vars, call, StopInv, StoppedTruthfully, Answered
<1> QED
  BY <1>1, <1>2, <1>3, <1>4, <1>5, <1>6, <1>7, <1>8 DEF Next, Continue

(* Whatever MaxMessages and the budgets are, and however messages, the     *)
(* size cap, the end and the timer race, a stream never keeps more than it *)
(* was asked for and says what stopped it.                                 *)
THEOREM StopsTruthfully == Spec => []StoppedTruthfully
<1>1. Init => StopInv
  <2> SUFFICES ASSUME Init
               PROVE  StopInv
    OBVIOUS
  <2>1. rpc.stopped = "" /\ ~Answered
    <3>1. \A x \in NewRpcs : x.stopped = ""
      BY DEF NewRpcs
    <3>2. NoRpc.stopped = ""
      BY DEF NoRpc
    <3> QED
      BY <3>1, <3>2 DEF Init, CallInit, Answered
  <2>2. rpc.got <= rpc.wanted
    BY InitIInv, RpcMembers DEF IInv, Types, Room, Init, CallInit
  <2> QED
    BY <2>1, <2>2 DEF StopInv, StoppedTruthfully
<1>2. IInv /\ StopInv /\ [Next]_vars => StopInv'
  BY StopStep
<1>3. StopInv => StoppedTruthfully
  BY DEF StopInv
<1> QED
  BY <1>1, <1>2, <1>3, Invariance, PTL DEF Spec

-----------------------------------------------------------------------------
(* Types, and what a call has got to.                                      *)

(* What Types leaves out of TypeOK.                                        *)
Formed ==
  /\ host \in Hosts /\ guarded \in BOOLEAN
  /\ lookup \in {"none", "pending", "over"}
  /\ dialled \in Addresses \union {None}
  /\ sock \in {"none", "connecting", "open", "closed"}
  /\ answer \in AnswerCodes \union {None}
  /\ elapsed \in 0..Horizon
  /\ reached \in Stages

(* The connection is being waited for, on the shorter of two timers.       *)
Racing ==
  /\ sock = "connecting" /\ reached = "address"
  /\ 0 <= timer["connect"] /\ timer["connect"] < timer["call"]

(* A phase knows how far the connection got, and a timer its phase.        *)
Progress ==
  /\ phase \in {"asked", "resolving"} => sock = "none"
  /\ phase = "resolved" => sock \in {"none", "closed"}
  /\ phase \in {"asked", "resolved"} => timer = NoTimers
  /\ phase = "resolving" => \A t \in Timers \ {"dns"} : timer[t] = Off
  /\ timer["dns"] # Off => phase = "resolving"
  /\ timer["connect"] # Off =>
       /\ kind # "spiffe" /\ phase \in {"connecting", "talking"}
       /\ reached = "address"
  /\ timer["call"] # Off =>
       phase \in {"connecting", "handshaking", "settling", "talking",
                  "binding", "operating"}
  /\ phase \in {"resolved", "connecting"} => reached = "address"
  /\ phase \in {"handshaking", "binding"} => reached = "connection"
  /\ phase = "settling" => reached = "secure"
  /\ phase = "operating" => reached = "reply"
  /\ kind = "tls" /\ phase = "connecting" => Racing
  /\ kind = "krb5tcp" /\ phase = "talking" =>
       Racing \/ (sock = "open" /\ reached = "connection")
  /\ outcome # None => phase \in {"unbinding", "done"}
  /\ outcome \in {"BindTimeout", "BindBroken"} => reached = "connection"
  /\ outcome \in {"BindRefused", "OperationTimeout"} => reached = "reply"

(* What the first handshake of two said of the policy.                     *)
FirstSound ==
  probe.mutual /\ ~probe.cert /\ ~probe.unrelated /\ ~probe.missed =>
    /\ probe.first \in {"usable", "hungup", "alert", "unreachable"}
    /\ probe.first = "usable" <=> probe.demands = "never" \/ probe.accepts

VerdictInv ==
  /\ VerdictSound
  /\ FirstSound
  /\ kind # "tls" => ~probe.mutual

(* No client leaves these types.                                           *)
LEMMA FormedStep ==
  ASSUME IInv, Formed, [Next]_vars
  PROVE  Formed'
<1> USE DEF Formed, Finish, Addresses, Hosts, Stages
<1>1. CASE UNCHANGED vars
  BY <1>1 DEF vars, call, address
<1>2. CASE Begin
  <2>1. CASE LookupFails \/ DnsDeadline \/ Refuse \/ ResolveLiteral \/ ResolveName
    BY <2>1 DEF LookupFails, DnsDeadline, Refuse, ResolveLiteral, ResolveName,
                address, AnswerCodes
  <2>2. ASSUME NEW list \in Lists, LookupReturns(list)
        PROVE  Formed'
    <3>1. list[1] \in Addresses
      BY DEF Lists
    <3> QED
      BY <2>2, <3>1 DEF LookupReturns, AnswerCodes
  <2> QED
    BY <1>2, <2>1, <2>2 DEF Begin, Resolve
<1>3. CASE KrbNext
  BY <1>3 DEF KrbNext, KrbDial, KrbConnected, KrbReply, KrbEnd, KrbError,
              KrbConnectDeadline, KrbCallDeadline, address, AnswerCodes
<1>4. CASE LdapNext
  <2>1. CASE LdapUnbound
    <3>1. outcome \in AnswerCodes
      BY <2>1 DEF LdapUnbound, IInv, Types, Released, Outcomes, AnswerCodes
    <3> QED
      BY <2>1, <3>1 DEF LdapUnbound, address
  <2>2. CASE ~LdapUnbound
    BY <1>4, <2>2
       DEF LdapNext, LdapDial, LdapConnected, LdapConnectDeadline, LdapError,
           LdapBound, LdapBindLost, LdapOperation, Unbind, address, AnswerCodes
  <2> QED
    BY <2>1, <2>2
<1>5. CASE TlsNext
  <2>1. ASSUME NEW r \in {"usable", "hungup", "alert", "unreachable"}, NEW p,
               Report(r, p), UNCHANGED <<kind, address, lookup, elapsed>>
        PROVE  Formed'
    <3>1. ASSUME NEW w, NEW v PROVE Verdict(w, v) \in AnswerCodes
      BY DEF Verdict, AnswerCodes
    <3>2. r \in AnswerCodes
      BY DEF AnswerCodes
    <3> QED
      BY <2>1, <3>1, <3>2 DEF Report, address
  <2>2. CASE \/ TlsWriteFailed \/ TlsRefused \/ TlsSpoke \/ TlsClosed
             \/ TlsError \/ TlsGraceOver
    <3>1. CASE probe.http /\ TlsSpoke
               /\ UNCHANGED <<phase, sock, answer, reached>>
      BY <3>1 DEF TlsSpoke, address
    <3> QED
      BY <2>1, <2>2, <3>1
         DEF TlsWriteFailed, TlsRefused, TlsSpoke, TlsClosed, TlsError,
             TlsGraceOver
  <2>3. CASE TlsDial \/ TlsConnected \/ TlsSecured \/ TlsConnectDeadline
             \/ TlsCallDeadline
    BY <2>3 DEF TlsDial, TlsConnected, TlsSecured, TlsConnectDeadline,
                TlsCallDeadline, address, AnswerCodes
  <2> QED
    BY <1>5, <2>2, <2>3 DEF TlsNext
<1>6. CASE RpcNext
  <2>1. CASE RpcMessage
    <3>1. \/ Finish("OK")
          \/ UNCHANGED <<phase, sock, timer, answer>>
      BY <2>1 DEF RpcMessage
    <3> QED
      BY <2>1, <3>1 DEF RpcMessage, address, AnswerCodes
  <2>2. CASE RpcError \/ RpcLibraryDeadline \/ RpcDeadline \/ RpcEnd
    BY <2>2 DEF RpcError, RpcLibraryDeadline, RpcDeadline, RpcEnd, address,
                AnswerCodes
  <2>3. CASE RpcSocketPath \/ RpcInvoke
    BY <2>3 DEF RpcSocketPath, RpcInvoke, address, AnswerCodes
  <2> QED
    BY <1>6, <2>1, <2>2, <2>3 DEF RpcNext
<1>7. CASE Pass
  BY <1>7 DEF Pass, Tick, address
<1> QED
  BY <1>1, <1>2, <1>3, <1>4, <1>5, <1>6, <1>7 DEF Next, Continue

(* No timer is armed for longer than it is given.                          *)
Bounded == \A t \in Timers : timer[t] <= Given(t)

(* A step leaves a timer alone, lets it run on, stops it, or gives it its  *)
(* own time.                                                               *)
LEMMA BoundedKept ==
  ASSUME IInv, Bounded, kind' = kind, rpc'.streaming = rpc.streaming,
         probe'.http = probe.http,
         \A t \in Timers : timer'[t] \in {timer[t], timer[t] - 1, Off, Given(t)}
  PROVE  Bounded'
<1>1. ASSUME NEW t \in Timers
      PROVE  Given(t)' = Given(t) /\ Given(t) \in Nat /\ timer[t] \in Int
  BY RpcMembers, GraceAssumption
     DEF IInv, Types, Given, RpcBudget, Timers, Off
<1> QED
  BY <1>1 DEF Bounded, Off

LEMMA BoundedStep ==
  ASSUME IInv, Bounded, [Next]_vars
  PROVE  Bounded'
<1> USE DEF Finish
<1>a. timer \in [Timers -> Nat \union {Off}] /\ probe \in Probes /\ rpc \in Rpcs
  BY DEF IInv, Types
<1>b. \A t \in Timers : NoTimers[t] = Off
  BY DEF NoTimers
<1>1. CASE UNCHANGED vars
  BY <1>1, BoundedKept DEF vars, call
<1>2. CASE Begin
  BY <1>2, <1>a, <1>b, BoundedKept
     DEF Begin, Refuse, Resolve, ResolveLiteral, ResolveName, LookupReturns,
         LookupFails, DnsDeadline, Given, Timers
<1>3. CASE KrbNext /\ UNCHANGED <<outcome, probe, rpc>>
  BY <1>3, <1>a, <1>b, BoundedKept
     DEF KrbNext, KrbDial, KrbConnected, KrbReply, KrbEnd, KrbError,
         KrbConnectDeadline, KrbCallDeadline, Krb5, Given, Timers
<1>4. CASE LdapNext /\ UNCHANGED <<probe, rpc>>
  BY <1>4, <1>a, <1>b, BoundedKept
     DEF LdapNext, LdapDial, LdapConnected, LdapConnectDeadline, LdapError,
         LdapBound, LdapBindLost, LdapOperation, LdapUnbound, Unbind, Ldap,
         Given, Timers
<1>5. CASE TlsNext /\ UNCHANGED <<outcome, rpc>>
  <2>1. ASSUME NEW r, NEW p \in Probes, p.http = probe.http, Report(r, p),
               kind' = kind
        PROVE  Bounded'
    <3>1. probe'.http = probe.http /\ timer' = NoTimers
      BY <2>1 DEF Report, Probes
    <3> QED
      BY <1>5, <1>b, <2>1, <3>1, BoundedKept
  <2>2. /\ Unrelated \in Probes /\ Unrelated.http = probe.http
        /\ [probe EXCEPT !.spoke = TRUE] \in Probes
        /\ [probe EXCEPT !.spoke = TRUE].http = probe.http
        /\ [probe EXCEPT !.missed = @ \/ Refuses] \in Probes
        /\ [probe EXCEPT !.missed = @ \/ Refuses].http = probe.http
    BY <1>a DEF Unrelated, Refuses, Probes
  <2>3. CASE TlsDial \/ TlsConnected \/ TlsSecured \/ TlsConnectDeadline
             \/ TlsCallDeadline
    BY <1>5, <1>a, <1>b, <2>3, BoundedKept
       DEF TlsDial, TlsConnected, TlsSecured, TlsConnectDeadline,
           TlsCallDeadline, Tls, Given, Timers
  <2>4. CASE TlsSpoke /\ ~Report("usable", [probe EXCEPT !.spoke = TRUE])
    <3>1. /\ probe' = [probe EXCEPT !.spoke = TRUE] /\ probe.http
          /\ timer' = [timer EXCEPT !["grace"] = HttpGrace]
          /\ kind' = kind /\ rpc' = rpc
      BY <1>5, <2>4 DEF TlsSpoke
    <3>2. Given("grace") = HttpGrace
      BY <3>1 DEF Given
    <3>3. \A t \in Timers : timer'[t] \in {timer[t], Given(t)}
      BY <1>a, <3>1, <3>2
    <3> QED
      BY <2>2, <3>1, <3>3, BoundedKept
  <2>5. CASE TlsSpoke /\ Report("usable", [probe EXCEPT !.spoke = TRUE])
    BY <2>1, <2>2, <2>5 DEF TlsSpoke
  <2>6. CASE TlsWriteFailed \/ TlsRefused \/ TlsClosed \/ TlsError \/ TlsGraceOver
    BY <1>a, <2>1, <2>2, <2>6
       DEF TlsWriteFailed, TlsRefused, TlsClosed, TlsError, TlsGraceOver
  <2> QED
    BY <1>5, <2>3, <2>4, <2>5, <2>6 DEF TlsNext
<1>6. CASE RpcNext /\ UNCHANGED <<outcome, probe>>
  <2>1. CASE RpcMessage
    <3>1. rpc'.streaming = rpc.streaming
      BY <1>a, <2>1 DEF RpcMessage, Rpcs
    <3>2. timer' = NoTimers \/ timer' = timer
      BY <2>1 DEF RpcMessage
    <3> QED
      BY <1>6, <1>b, <2>1, <3>1, <3>2, BoundedKept DEF RpcMessage
  <2>2. CASE RpcDeadline
    <3>1. rpc'.streaming = rpc.streaming
      BY <1>a, <2>2 DEF RpcDeadline, Rpcs
    <3> QED
      BY <1>6, <1>b, <2>2, <3>1, BoundedKept DEF RpcDeadline
  <2>3. CASE RpcNext /\ ~RpcMessage /\ ~RpcDeadline
    BY <1>6, <1>a, <1>b, <2>3, BoundedKept
       DEF RpcNext, RpcSocketPath, RpcInvoke, RpcError, RpcLibraryDeadline,
           RpcEnd, Spiffe, Given, Timers
  <2> QED
    BY <1>6, <2>1, <2>2, <2>3
<1>7. CASE Pass
  BY <1>7, <1>a, BoundedKept DEF Pass, Tick
<1> QED
  BY <1>1, <1>2, <1>3, <1>4, <1>5, <1>6, <1>7 DEF Next, Continue

(* Every call is in a state the clients' code can be in: its phase is one  *)
(* of its client's, no timer is armed for longer than it is given, and     *)
(* what it found of the host, its socket, its answer and its stream keep   *)
(* their kinds, for any budgets and any number of messages.                *)
THEOREM TypeCorrect == Spec => []TypeOK
<1>1. Init => Formed /\ Bounded
  <2>1. Init => Formed
    BY DEF Init, CallInit, Formed, Hosts, Addresses, Stages
  <2>2. ASSUME Init PROVE Bounded
    <3>1. \A t \in Timers : timer[t] = Off
      BY <2>2 DEF Init, CallInit, NoTimers
    <3>2. rpc \in Rpcs
      BY <2>2, InitIInv DEF IInv, Types
    <3>3. \A t \in Timers : Given(t) \in Nat
      BY <3>2, RpcMembers, GraceAssumption DEF Given, RpcBudget, Timers
    <3> QED
      BY <3>1, <3>3 DEF Bounded, Off
  <2> QED
    BY <2>1, <2>2
<1>2. IInv /\ (Formed /\ Bounded) /\ [Next]_vars => (Formed /\ Bounded)'
  BY FormedStep, BoundedStep
<1>3. IInv /\ Formed /\ Bounded => TypeOK
  <2> SUFFICES ASSUME IInv, Formed, Bounded
               PROVE  TypeOK
    OBVIOUS
  <2>1. phase \in PhasesOf(kind)
    BY DEF IInv, Types, PhaseOfKind, PhasesOf, Phases, Kinds
  <2>2. ASSUME NEW t \in Timers
        PROVE  timer[t] \in Off..Given(t)
    <3>1. Given(t) \in Nat
      BY RpcMembers, GraceAssumption DEF IInv, Types, Given, RpcBudget, Timers
    <3>2. timer[t] \in Nat \union {Off} /\ timer[t] <= Given(t)
      BY DEF IInv, Types, Bounded
    <3> QED
      BY <3>1, <3>2 DEF Off
  <2>3. timer \in [Timers -> Int]
    BY DEF IInv, Types, Off
  <2> QED
    BY <2>1, <2>2, <2>3 DEF IInv, Types, Formed, TypeOK
<1> QED
  BY <1>1, <1>2, <1>3, Invariance, PTL DEF Spec

-----------------------------------------------------------------------------
(* What is blamed.                                                         *)

Blame == Progress /\ BlameTrue

(* What a code says of the connection it ends.                             *)
Deserved(a, how, far) ==
  /\ a \in {"DnsTimeout", "DnsFailed", "BlockedAddress"} => how = "none"
  /\ a = "ConnectTimeout" => far = "address"
  /\ a \in {"ShortReply", "BindTimeout", "BindBroken"} => far = "connection"
  /\ a = "CallTimeout" /\ kind = "krb5tcp" => far = "connection"
  /\ a = "HandshakeTimeout" => far \notin {"nothing", "address"}
  /\ a \in {"Reply", "BindRefused", "OperationTimeout"} => far = "reply"

(* A finish() is to be blamed for nothing else.                            *)
LEMMA FinishBlame ==
  ASSUME Blame, NEW a \in AnswerCodes, Finish(a), Deserved(a, sock, reached'),
         UNCHANGED <<kind, guarded, dialled, outcome>>,
         outcome = None \/ reached' = reached
  PROVE  Blame'
<1>1. Progress'
  BY NoneAssumption
     DEF Blame, Progress, Finish, NoTimers, Timers, Off, AnswerCodes
<1>2. BlameTrue'
  BY DEF Blame, BlameTrue, Finish, Deserved
<1> QED
  BY <1>1, <1>2 DEF Blame

(* A call that goes on blames nothing yet.                                 *)
LEMMA UnansweredBlame ==
  ASSUME answer' = None, guarded' => dialled' # "private"
  PROVE  BlameTrue'
BY NoneAssumption DEF BlameTrue, AnswerCodes

(* No answer is none of the answers.                                       *)
LEMMA NotNone ==
  None \notin {"BindRefused", "BindTimeout", "BindBroken", "OperationTimeout"}
BY NoneAssumption DEF AnswerCodes

(* Until it is answered a call has no answer.                              *)
LEMMA Unanswered ==
  ASSUME IInv, phase # "done"
  PROVE  answer = None
BY DEF IInv, Released, Answered

LEMMA BeginBlame ==
  ASSUME IInv, Formed, Blame, Begin
  PROVE  Blame'
<1> USE DEF IInv, Types
<1>0. UNCHANGED <<outcome, probe, rpc>>
  BY DEF Begin
<1>1. CASE Refuse
  BY <1>0, <1>1, FinishBlame DEF Refuse, Deserved, AnswerCodes, address
<1>2. CASE ResolveLiteral
  <2>1. CASE guarded /\ host = "private"
    BY <1>0, <1>2, <2>1, FinishBlame
       DEF ResolveLiteral, Deserved, AnswerCodes, Blame, Progress
  <2>2. CASE ~(guarded /\ host = "private")
    <3>1. BlameTrue'
      BY <1>2, <2>2, Unanswered, UnansweredBlame DEF ResolveLiteral
    <3>2. Progress'
      BY <1>0, <1>2, <2>2, NotNone DEF ResolveLiteral, Blame, Progress, NoTimers, Timers
    <3> QED
      BY <3>1, <3>2 DEF Blame
  <2> QED
    BY <2>1, <2>2
<1>3. CASE ResolveName
  <2>1. BlameTrue'
    BY <1>3, Unanswered, UnansweredBlame
       DEF ResolveName, Blame, BlameTrue, address
  <2>2. Progress'
    BY <1>0, <1>3 DEF ResolveName, Blame, Progress, NoTimers, Timers
  <2> QED
    BY <2>1, <2>2 DEF Blame
<1>4. ASSUME NEW list \in Lists, LookupReturns(list)
      PROVE  Blame'
  <2>1. CASE phase # "resolving"
    BY <1>0, <1>4, <2>1
       DEF LookupReturns, Blame, Progress, BlameTrue, Racing
  <2>2. CASE /\ phase = "resolving"
             /\ \E i \in DOMAIN list : guarded /\ list[i] = "private"
    BY <1>0, <1>4, <2>2, FinishBlame
       DEF LookupReturns, Deserved, AnswerCodes, Blame, Progress
  <2>3. CASE /\ phase = "resolving"
             /\ ~\E i \in DOMAIN list : guarded /\ list[i] = "private"
    <3>1. 1 \in DOMAIN list
      BY DEF Lists
    <3>2. BlameTrue'
      BY <1>4, <2>3, <3>1, Unanswered, UnansweredBlame DEF LookupReturns
    <3>3. timer' = NoTimers
      BY <1>4, <2>3
         DEF LookupReturns, Blame, Progress, NoTimers, Timers, Off
    <3>4. Progress'
      BY <1>0, <1>4, <2>3, <3>3, NotNone
         DEF LookupReturns, Blame, Progress, NoTimers, Timers, Off
    <3> QED
      BY <3>2, <3>4 DEF Blame
  <2> QED
    BY <2>1, <2>2, <2>3
<1>5. CASE LookupFails
  <2>1. CASE phase = "resolving"
    BY <1>0, <1>5, <2>1, FinishBlame
       DEF LookupFails, address, Deserved, AnswerCodes, Blame, Progress
  <2>2. CASE phase # "resolving"
    BY <1>0, <1>5, <2>2
       DEF LookupFails, address, Blame, Progress, BlameTrue, Racing
  <2> QED
    BY <2>1, <2>2
<1>6. CASE DnsDeadline
  <2>1. phase = "resolving" /\ sock = "none"
    BY <1>6 DEF DnsDeadline, Due, Blame, Progress, Off
  <2> QED
    BY <1>0, <1>6, <2>1, FinishBlame
       DEF DnsDeadline, address, Deserved, AnswerCodes
<1> QED
  BY <1>1, <1>2, <1>3, <1>4, <1>5, <1>6 DEF Begin, Resolve

LEMMA KrbBlame ==
  ASSUME IInv, Formed, Blame, KrbNext, UNCHANGED <<outcome, probe, rpc>>
  PROVE  Blame'
<1> USE DEF IInv, Types, Krb5, address
<1>1. CASE KrbDial
  <2>1. BlameTrue'
    BY <1>1, Unanswered, UnansweredBlame DEF KrbDial, Blame, BlameTrue
  <2>2. Progress'
    BY <1>1, NotNone DEF KrbDial, Blame, Progress, Racing, NoTimers, Timers, Off
  <2> QED
    BY <2>1, <2>2 DEF Blame
<1>2. CASE KrbConnected
  <2>1. phase = "talking"
    <3>1. phase \notin {"asked", "resolving"}
      BY <1>2 DEF KrbConnected, Blame, Progress
    <3>2. phase # "resolved" /\ phase # "done"
      BY <1>2 DEF KrbConnected, Released, Blame, Progress
    <3> QED
      BY <1>2, <3>1, <3>2 DEF KrbConnected, PhaseOfKind, Phases
  <2>2. BlameTrue'
    BY <1>2, <2>1, Unanswered, UnansweredBlame
       DEF KrbConnected, Blame, BlameTrue
  <2>3. Progress'
    BY <1>2, <2>1, NotNone
       DEF KrbConnected, Blame, Progress, Timers, Off
  <2> QED
    BY <2>2, <2>3 DEF Blame
<1>a. phase # "unbinding" /\ (phase # "done" => outcome = None)
  BY DEF PhaseOfKind, Blame, Progress, KrbNext, KrbDial, KrbConnected, KrbReply,
         KrbEnd, KrbError, KrbConnectDeadline, KrbCallDeadline
<1>b. sock \in {"connecting", "open"} \/ Due("connect") \/ Due("call")
        => phase \notin {"asked", "resolving", "resolved", "done"}
  BY DEF Blame, Progress, Released, Due, Off, NoTimers, Timers
<1>c. ~KrbDial => phase = "talking" /\ outcome = None
  BY <1>a, <1>b
     DEF KrbNext, KrbConnected, KrbReply, KrbEnd, KrbError,
         KrbConnectDeadline, KrbCallDeadline, PhaseOfKind, Phases
<1>3. CASE KrbReply
  BY <1>3, <1>c, FinishBlame DEF KrbReply, KrbDial, Deserved, AnswerCodes
<1>4. CASE KrbEnd
  <2>1. reached = "connection"
    BY <1>4, <1>c DEF KrbEnd, KrbDial, Blame, Progress, Racing
  <2> QED
    BY <1>4, <2>1, FinishBlame DEF KrbEnd, Deserved, AnswerCodes
<1>5. CASE KrbError
  BY <1>5, FinishBlame DEF KrbError, Deserved, AnswerCodes
<1>6. CASE KrbConnectDeadline
  <2>1. reached = "address"
    BY <1>6 DEF KrbConnectDeadline, Due, Blame, Progress, Off
  <2> QED
    BY <1>6, <2>1, FinishBlame DEF KrbConnectDeadline, Deserved, AnswerCodes
<1>7. CASE KrbCallDeadline
  <2>1. kind = "krb5tcp" => reached = "connection"
    <3>1. phase = "talking" /\ timer["call"] = 0
      BY <1>7, <1>c DEF KrbCallDeadline, KrbDial, Due, Timers, Off, PhaseOfKind,
           Blame, Progress, NoTimers, Released
    <3> QED
      BY <3>1, TimerMembers DEF Blame, Progress, Racing
  <2> QED
    BY <1>7, <2>1, FinishBlame DEF KrbCallDeadline, Deserved, AnswerCodes
<1> QED
  BY <1>1, <1>2, <1>3, <1>4, <1>5, <1>6, <1>7 DEF KrbNext

LEMMA LdapBlame ==
  ASSUME IInv, Formed, Blame, LdapNext, UNCHANGED <<probe, rpc>>
  PROVE  Blame'
<1> USE DEF IInv, Types, Ldap, address
<1>a. kind = "ldap" /\ phase # "done"
  BY DEF LdapNext, LdapDial, LdapConnected, LdapConnectDeadline, LdapError,
         LdapBound, LdapBindLost, LdapOperation, LdapUnbound
<1>b. answer' = None /\ UNCHANGED <<guarded, dialled>> => BlameTrue'
  BY UnansweredBlame DEF Blame, BlameTrue
<1>c. answer = None
  BY <1>a, Unanswered
<1>1. CASE LdapDial
  <2>1. outcome = None
    BY <1>1 DEF LdapDial, Blame, Progress
  <2>2. CASE Finish("ClientError")
    BY <1>1, <2>2, FinishBlame DEF LdapDial, Deserved, AnswerCodes
  <2>3. CASE ~Finish("ClientError")
    <3>1. BlameTrue'
      BY <1>1, <1>b, <1>c, <2>3 DEF LdapDial
    <3>2. Progress'
      BY <1>1, <1>a, <2>1, <2>3, NotNone
         DEF LdapDial, Blame, Progress, NoTimers, Timers, Off
    <3> QED
      BY <3>1, <3>2 DEF Blame
  <2> QED
    BY <2>2, <2>3
<1>2. CASE LdapConnected
  <2>1. BlameTrue'
    BY <1>2, <1>b, <1>c DEF LdapConnected
  <2>2. Progress'
    BY <1>2, <1>a, NotNone
       DEF LdapConnected, Blame, Progress, Timers, Off
  <2> QED
    BY <2>1, <2>2 DEF Blame
<1>3. CASE LdapConnectDeadline
  <2>1. reached = "address"
    BY <1>3 DEF LdapConnectDeadline, Blame, Progress
  <2> QED
    BY <1>3, <2>1, FinishBlame DEF LdapConnectDeadline, Deserved, AnswerCodes
<1>4. CASE LdapError
  BY <1>4, FinishBlame DEF LdapError, Deserved, AnswerCodes
<1>5. CASE LdapBound
  <2>1. BlameTrue'
    BY <1>5, <1>b, <1>c DEF LdapBound
  <2>2. timer["connect"] = Off /\ timer["dns"] = Off /\ outcome = None
    BY <1>5 DEF LdapBound, Blame, Progress
  <2>3. Progress'
    BY <1>5, <1>a, <2>2, NotNone
       DEF LdapBound, Unbind, Blame, Progress, Timers, Off
  <2> QED
    BY <2>1, <2>3 DEF Blame
<1>6. CASE LdapBindLost
  <2>1. BlameTrue'
    BY <1>6, <1>b, <1>c DEF LdapBindLost, Unbind
  <2>2. Progress'
    BY <1>6, <1>a
       DEF LdapBindLost, Unbind, Blame, Progress, Timers, Off
  <2> QED
    BY <2>1, <2>2 DEF Blame
<1>7. CASE LdapOperation
  <2>1. BlameTrue'
    BY <1>7, <1>b, <1>c DEF LdapOperation, Unbind
  <2>2. Progress'
    BY <1>7, <1>a
       DEF LdapOperation, Unbind, Blame, Progress, Timers, Off
  <2> QED
    BY <2>1, <2>2 DEF Blame
<1>8. CASE LdapUnbound
  <2>1. outcome \in Outcomes \ {None}
    BY <1>8 DEF LdapUnbound, Released
  <2>2. outcome \in AnswerCodes /\ Deserved(outcome, sock, reached)
    BY <2>1 DEF Outcomes, AnswerCodes, Deserved, Blame, Progress
  <2> QED
    BY <1>8, <2>2, FinishBlame DEF LdapUnbound
<1> QED
  BY <1>1, <1>2, <1>3, <1>4, <1>5, <1>6, <1>7, <1>8 DEF LdapNext

(* A report blames nothing by itself.                                      *)
LEMMA ReportBlame ==
  ASSUME IInv, Blame, kind = "tls",
         phase \in {"connecting", "handshaking", "settling"},
         NEW r \in {"usable", "hungup", "alert", "unreachable"}, NEW p,
         Report(r, p), UNCHANGED <<kind, address, lookup, elapsed, outcome, rpc>>
  PROVE  Blame'
<1> USE DEF IInv, Types, address
<1>a. outcome = None
  BY DEF Blame, Progress
<1>1. CASE p.mutual /\ p.cert
  <2>1. BlameTrue'
    BY <1>1, Unanswered, UnansweredBlame DEF Report, Blame, BlameTrue
  <2>2. Progress'
    BY <1>1, <1>a, NotNone DEF Report, Blame, Progress, NoTimers, Timers, Off
  <2> QED
    BY <2>1, <2>2 DEF Blame
<1>2. CASE ~(p.mutual /\ p.cert)
  <2> DEFINE a == IF p.mutual THEN Verdict(p.first, r) ELSE r
  <2>1. a \in AnswerCodes /\ Deserved(a, sock, reached')
    BY DEF Verdict, AnswerCodes, Deserved
  <2>2. Finish(a) /\ UNCHANGED <<kind, guarded, dialled, outcome>>
    BY <1>2 DEF Report
  <2> HIDE DEF a
  <2> QED
    BY <1>a, <2>1, <2>2, FinishBlame
<1> QED
  BY <1>1, <1>2

LEMMA TlsBlame ==
  ASSUME IInv, Formed, Blame, TlsNext, UNCHANGED <<outcome, rpc>>
  PROVE  Blame'
<1> USE DEF IInv, Types, Tls, address
<1>a. kind = "tls" /\ phase # "done"
  BY DEF TlsNext, TlsDial, TlsConnected, TlsSecured, TlsWriteFailed, TlsRefused, TlsSpoke,
         TlsClosed, TlsError, TlsGraceOver, TlsConnectDeadline, TlsCallDeadline,
         Released, NoTimers, Due, Timers, Off
<1>b. answer' = None /\ UNCHANGED <<guarded, dialled>> => BlameTrue'
  BY UnansweredBlame DEF Blame, BlameTrue
<1>c. answer = None
  BY <1>a, Unanswered
<1>d. outcome = None
  BY <1>a DEF Blame, Progress, PhaseOfKind
<1>1. CASE TlsDial
  <2>1. CASE Finish("NotStarted")
    BY <1>1, <2>1, FinishBlame DEF TlsDial, Deserved, AnswerCodes
  <2>2. CASE ~Finish("NotStarted")
    <3>1. BlameTrue'
      BY <1>1, <1>b, <1>c, <2>2 DEF TlsDial
    <3>2. Progress'
      BY <1>1, <1>a, <1>d, <2>2, NotNone
         DEF TlsDial, Blame, Progress, Racing, NoTimers, Timers, Off
    <3> QED
      BY <3>1, <3>2 DEF Blame
  <2> QED
    BY <2>1, <2>2
<1>2. CASE TlsConnected
  <2>1. BlameTrue'
    BY <1>2, <1>b, <1>c DEF TlsConnected
  <2>2. Progress'
    BY <1>2, <1>a, <1>d, NotNone
       DEF TlsConnected, Blame, Progress, Timers, Off
  <2> QED
    BY <2>1, <2>2 DEF Blame
<1>3. CASE TlsSecured
  <2>1. BlameTrue'
    BY <1>3, <1>b, <1>c DEF TlsSecured
  <2>2. Progress'
    BY <1>3, <1>a, <1>d, NotNone
       DEF TlsSecured, Blame, Progress, Timers, Off
  <2> QED
    BY <2>1, <2>2 DEF Blame
<1>4. CASE TlsSpoke /\ UNCHANGED <<phase, sock, answer, reached>>
           /\ timer' = [timer EXCEPT !["grace"] = HttpGrace]
  <2>1. BlameTrue'
    BY <1>4, <1>b, <1>c DEF TlsSpoke
  <2>2. Progress'
    BY <1>4, <1>a, <1>d, NotNone
       DEF TlsSpoke, Blame, Progress, Timers, Off
  <2> QED
    BY <2>1, <2>2 DEF Blame
<1>5. CASE /\ \/ TlsWriteFailed \/ TlsRefused \/ TlsSpoke \/ TlsClosed
              \/ TlsError \/ TlsGraceOver
           /\ \E r \in {"usable", "hungup", "alert", "unreachable"}, p \in Probes :
                Report(r, p)
  BY <1>5, <1>a, ReportBlame
     DEF TlsWriteFailed, TlsRefused, TlsSpoke, TlsClosed, TlsError, TlsGraceOver
<1>6. CASE TlsConnectDeadline
  <2>1. reached = "address"
    BY <1>6 DEF TlsConnectDeadline, Due, Blame, Progress, Off
  <2> QED
    BY <1>6, <2>1, FinishBlame DEF TlsConnectDeadline, Deserved, AnswerCodes
<1>7. CASE TlsCallDeadline
  <2>1. timer["call"] = 0 /\ phase \in {"connecting", "handshaking", "settling"}
    BY <1>7, <1>a DEF TlsCallDeadline, Due, Blame, Progress, Off, PhaseOfKind
  <2>2. reached \in {"connection", "secure"}
    BY <1>a, <2>1, TimerMembers DEF Blame, Progress, Racing
  <2> QED
    BY <1>7, <2>2, FinishBlame DEF TlsCallDeadline, Deserved, AnswerCodes
<1>8. /\ probe \in Probes /\ Unrelated \in Probes
      /\ [probe EXCEPT !.spoke = TRUE] \in Probes
      /\ [probe EXCEPT !.missed = @ \/ Refuses] \in Probes
  BY DEF Probes, Unrelated, Refuses
<1> QED
  BY <1>1, <1>2, <1>3, <1>4, <1>5, <1>6, <1>7, <1>8
     DEF TlsNext, TlsWriteFailed, TlsRefused, TlsSpoke, TlsClosed, TlsError,
         TlsGraceOver

LEMMA RpcBlame ==
  ASSUME IInv, Formed, Blame, RpcNext, UNCHANGED <<outcome, probe>>
  PROVE  Blame'
<1> USE DEF IInv, Types, Spiffe, address
<1>a. kind = "spiffe" /\ phase \in {"asked", "resolved", "talking"}
      /\ outcome = None /\ answer = None /\ timer["connect"] = Off
  <2>1. kind = "spiffe" /\ phase \in {"asked", "resolved", "talking"}
    BY DEF RpcNext, RpcSocketPath, RpcInvoke, RpcMessage, RpcError,
           RpcLibraryDeadline, RpcEnd, RpcDeadline
  <2> QED
    BY <2>1, Unanswered DEF Blame, Progress
<1>b. answer' = None /\ UNCHANGED <<guarded, dialled>> => BlameTrue'
  BY UnansweredBlame DEF Blame, BlameTrue
<1>1. CASE RpcSocketPath
  <2>1. BlameTrue'
    BY <1>1, <1>a, <1>b DEF RpcSocketPath
  <2>2. Progress'
    BY <1>1, <1>a, NotNone DEF RpcSocketPath, Blame, Progress, NoTimers, Timers
  <2> QED
    BY <2>1, <2>2 DEF Blame
<1>2. CASE RpcInvoke
  <2>1. CASE Finish("Refused")
    BY <1>2, <1>a, <2>1, FinishBlame DEF RpcInvoke, Deserved, AnswerCodes
  <2>2. CASE ~Finish("Refused")
    <3>1. BlameTrue'
      BY <1>2, <1>a, <1>b, <2>2 DEF RpcInvoke
    <3>2. Progress'
      BY <1>2, <1>a, <2>2, NotNone
         DEF RpcInvoke, Blame, Progress, NoTimers, Timers, Off
    <3> QED
      BY <3>1, <3>2 DEF Blame
  <2> QED
    BY <2>1, <2>2
<1>3. CASE RpcMessage
  <2>1. Finish("OK") \/ UNCHANGED <<phase, sock, timer, answer>>
    BY <1>3 DEF RpcMessage
  <2>2. CASE Finish("OK")
    BY <1>3, <1>a, <2>2, FinishBlame DEF RpcMessage, Deserved, AnswerCodes
  <2>3. CASE UNCHANGED <<phase, sock, timer, answer>>
    <3>1. BlameTrue'
      BY <1>3, <1>a, <1>b, <2>3 DEF RpcMessage
    <3>2. phase = "talking" /\ UNCHANGED kind
      BY <1>3 DEF RpcMessage
    <3>3. Progress'
      BY <1>a, <2>3, <3>2, NotNone DEF Blame, Progress
    <3> QED
      BY <3>1, <3>3 DEF Blame
  <2> QED
    BY <2>1, <2>2, <2>3
<1>4. CASE RpcError \/ RpcLibraryDeadline \/ RpcEnd \/ RpcDeadline
  <2>1. /\ \E a \in {"Status", "IdentityMismatch", "Unavailable",
                     "DeadlineStatus", "OK"} : Finish(a)
        /\ UNCHANGED <<kind, address, reached>>
    BY <1>4 DEF RpcError, RpcLibraryDeadline, RpcEnd, RpcDeadline
  <2> QED
    BY <1>a, <2>1, FinishBlame DEF Deserved, AnswerCodes
<1> QED
  BY <1>1, <1>2, <1>3, <1>4 DEF RpcNext

LEMMA PassBlame ==
  ASSUME IInv, Blame, Pass
  PROVE  Blame'
<1> USE DEF IInv, Types
<1>1. /\ phase \notin {"asked", "resolved", "done"}
      /\ \A t \in Timers : timer[t] # 0
      /\ UNCHANGED <<kind, phase, address, sock, answer, reached, outcome>>
  BY DEF Pass, Tick, Running, Due, Released, Answered
<1>2. timer' = [t \in Timers |-> IF timer[t] = Off THEN Off ELSE timer[t] - 1]
  BY DEF Pass, Tick
<1>3. \A t \in Timers : /\ timer'[t] = Off <=> timer[t] = Off
                        /\ timer[t] > 0 => timer'[t] = timer[t] - 1
                        /\ timer[t] \in Int /\ (timer[t] = Off \/ timer[t] > 0)
  BY <1>1, <1>2 DEF Off
<1>4. Racing => Racing'
  BY <1>1, <1>3 DEF Racing, Timers, Off
<1>5. Progress'
  BY <1>1, <1>3, <1>4 DEF Blame, Progress, Timers
<1>6. BlameTrue'
  BY <1>1 DEF Blame, BlameTrue, address
<1> QED
  BY <1>5, <1>6 DEF Blame

(* The party that is blamed is the one that failed, whatever budgets are   *)
(* configured, as long as the one for connecting is the shorter: a         *)
(* connection that never came is never called a silence, and the policy    *)
(* for addresses is not got round by any client or order of events.        *)
THEOREM BlameCorrect == Spec => []BlameTrue
<1>1. Init => Formed /\ Blame
  <2> SUFFICES ASSUME Init
               PROVE  Formed /\ Blame
    OBVIOUS
  <2>1. Formed
    BY DEF Init, CallInit, Formed, Hosts, Addresses, Stages
  <2>2. Progress
    BY NotNone DEF Init, CallInit, Progress, NoTimers, Timers, Off
  <2>3. BlameTrue
    BY NoneAssumption
       DEF Init, CallInit, BlameTrue, AnswerCodes, Hosts, Addresses
  <2> QED
    BY <2>1, <2>2, <2>3 DEF Blame
<1>2. ASSUME IInv, Formed, Blame, [Next]_vars
      PROVE  Blame'
  <2>1. CASE UNCHANGED vars
    BY <1>2, <2>1 DEF vars, call, address, Blame, BlameTrue, Progress, Racing
  <2> QED
    BY <1>2, <2>1, BeginBlame, KrbBlame, LdapBlame, TlsBlame, RpcBlame,
       PassBlame DEF Next, Continue
<1>3. IInv /\ Formed /\ Blame /\ [Next]_vars => (Formed /\ Blame)'
  BY <1>2, FormedStep
<1>4. Blame => BlameTrue
  BY DEF Blame
<1> QED
  BY <1>1, <1>3, <1>4, Invariance, PTL DEF Spec

-----------------------------------------------------------------------------
(* The verdict on mutual authentication.                                   *)

(* A report that only the policy of the far end can have caused.           *)
Fair(r) ==
  /\ r \in {"usable", "hungup", "alert", "unreachable"}
  /\ r = "usable" <=> ~Refuses

Members(p) ==
  /\ p.demands \in {"never", "optional", "always"}
  /\ p.mutual \in BOOLEAN /\ p.cert \in BOOLEAN /\ p.accepts \in BOOLEAN

(* A report, be it the first of two or the last, keeps the verdict sound.  *)
LEMMA ReportVerdict ==
  ASSUME IInv, VerdictInv, kind = "tls", answer = None,
         NEW r \in {"usable", "hungup", "alert", "unreachable"},
         NEW p \in Probes, Report(r, p), UNCHANGED kind,
         p.mutual = probe.mutual, p.cert = probe.cert,
         p.demands = probe.demands, p.accepts = probe.accepts,
         p.first = probe.first,
         ~p.unrelated /\ ~p.missed =>
           Fair(r) /\ ~probe.unrelated /\ ~probe.missed
  PROVE  VerdictInv'
<1>0. Members(p)
  BY DEF Probes, Members
<1>1. CASE p.mutual /\ p.cert
  <2>1. /\ probe' = [p EXCEPT !.first = r, !.cert = FALSE, !.spoke = FALSE]
        /\ answer' = None
    BY <1>1 DEF Report
  <2>2. /\ probe'.first = r /\ probe'.cert = FALSE /\ probe'.mutual
        /\ probe'.demands = p.demands /\ probe'.accepts = p.accepts
        /\ probe'.unrelated = p.unrelated /\ probe'.missed = p.missed
    BY <1>1, <2>1 DEF Probes
  <2>3. FirstSound'
    BY <1>0, <1>1, <2>2 DEF FirstSound, Fair, Refuses, Members
  <2>4. VerdictSound'
    BY <2>1 DEF VerdictSound, Answered
  <2> QED
    BY <2>3, <2>4 DEF VerdictInv
<1>2. CASE ~p.mutual
  <2>1. probe' = p
    BY <1>2 DEF Report
  <2> QED
    BY <1>2, <2>1 DEF VerdictInv, VerdictSound, FirstSound
<1>3. CASE p.mutual /\ ~p.cert
  <2>1. probe' = p /\ answer' = Verdict(p.first, r)
    BY <1>3 DEF Report, Finish
  <2>2. FirstSound'
    BY <1>3, <2>1 DEF VerdictInv, FirstSound
  <2>3. ASSUME ~p.unrelated, ~p.missed
        PROVE  /\ p.first \in {"usable", "hungup", "alert", "unreachable"}
               /\ p.first = "usable" <=> p.demands = "never" \/ p.accepts
               /\ r = "usable" <=> p.demands # "always"
    BY <1>3, <2>3 DEF VerdictInv, FirstSound, Fair, Refuses
  <2>4. VerdictSound'
    <3> SUFFICES ASSUME ~p.unrelated, ~p.missed
                 PROVE  VerdictSound'
      BY <2>1 DEF VerdictSound
    <3>1. CASE p.first = "usable" /\ r = "usable"
      BY <1>0, <2>1, <2>3, <3>1 DEF VerdictSound, Verdict, Members
    <3>2. CASE p.first = "usable" /\ r # "usable"
      BY <1>0, <2>1, <2>3, <3>2 DEF VerdictSound, Verdict, Members
    <3>3. CASE p.first # "usable" /\ r = "usable"
      BY <1>0, <2>1, <2>3, <3>3 DEF VerdictSound, Verdict, Members
    <3>4. CASE p.first # "usable" /\ r # "usable"
      BY <1>0, <2>1, <2>3, <3>4 DEF VerdictSound, Verdict, Members
    <3> QED
      BY <3>1, <3>2, <3>3, <3>4
  <2> QED
    BY <2>2, <2>4 DEF VerdictInv
<1> QED
  BY <1>0, <1>1, <1>2, <1>3 DEF Members

(* A step without a report gives no verdict.                               *)
LEMMA NoVerdict ==
  ASSUME VerdictInv, UNCHANGED <<kind, probe>>,
         answer' = answer \/ answer' \notin Verdicts
  PROVE  VerdictInv'
BY DEF VerdictInv, VerdictSound, FirstSound, Answered

LEMMA TlsVerdict ==
  ASSUME IInv, VerdictInv, TlsNext
  PROVE  VerdictInv'
<1> USE DEF IInv, Types, Tls
<1>a. kind = "tls" /\ kind' = kind
  BY DEF TlsNext, TlsDial, TlsConnected, TlsSecured, TlsWriteFailed, TlsRefused, TlsSpoke,
         TlsClosed, TlsError, TlsGraceOver, TlsConnectDeadline, TlsCallDeadline
<1>b. phase # "done" /\ answer = None
  <2>1. phase # "done"
    BY DEF TlsNext, TlsDial, TlsConnected, TlsSecured, TlsWriteFailed, TlsRefused, TlsSpoke,
           TlsClosed, TlsError, TlsGraceOver, TlsConnectDeadline,
           TlsCallDeadline, Released, NoTimers, Due, Timers, Off
  <2> QED
    BY <2>1, Unanswered
<1>1. CASE TlsDial \/ TlsConnected \/ TlsSecured \/ TlsConnectDeadline
           \/ TlsCallDeadline
  BY <1>1, <1>a, NoVerdict
     DEF TlsDial, TlsConnected, TlsSecured, TlsConnectDeadline,
         TlsCallDeadline, Finish, Verdicts
<1>2. CASE TlsRefused
  BY <1>2, <1>a, <1>b, ReportVerdict DEF TlsRefused, Fair
<1>3. CASE TlsSpoke
  <2> DEFINE p == [probe EXCEPT !.spoke = TRUE]
  <2>1. /\ p \in Probes /\ p.mutual = probe.mutual /\ p.cert = probe.cert
        /\ p.demands = probe.demands /\ p.accepts = probe.accepts
        /\ p.first = probe.first /\ p.unrelated = probe.unrelated
        /\ p.missed = probe.missed
    BY DEF Probes
  <2>2. ~Refuses
    BY <1>3 DEF TlsSpoke
  <2>3. CASE Report("usable", p)
    <3> HIDE DEF p
    <3> QED
      BY <1>a, <1>b, <2>1, <2>2, <2>3, ReportVerdict DEF Fair
  <2>4. CASE probe' = p /\ answer' = answer
    <3> HIDE DEF p
    <3> QED
      BY <1>a, <2>1, <2>4, <1>b DEF VerdictInv, VerdictSound, FirstSound, Answered
  <2> QED
    BY <1>3, <2>3, <2>4 DEF TlsSpoke
<1>u. /\ Unrelated \in Probes /\ Unrelated.mutual = probe.mutual
      /\ Unrelated.cert = probe.cert /\ Unrelated.demands = probe.demands
      /\ Unrelated.accepts = probe.accepts /\ Unrelated.first = probe.first
      /\ Unrelated.unrelated = TRUE
  BY DEF Unrelated, Probes
<1>4. CASE TlsClosed
  <2>1. CASE probe.spoke
    BY <1>4, <1>a, <1>b, <2>1, ReportVerdict DEF TlsClosed, Fair
  <2>2. CASE ~probe.spoke
    BY <1>4, <1>a, <1>b, <1>u, <2>2, ReportVerdict DEF TlsClosed
  <2> QED
    BY <2>1, <2>2
<1>5. CASE TlsError
  BY <1>5, <1>a, <1>b, <1>u, ReportVerdict DEF TlsError
<1>6. CASE TlsGraceOver
  <2> DEFINE p == [probe EXCEPT !.missed = @ \/ Refuses]
  <2>1. /\ p \in Probes /\ p.mutual = probe.mutual /\ p.cert = probe.cert
        /\ p.demands = probe.demands /\ p.accepts = probe.accepts
        /\ p.first = probe.first /\ p.unrelated = probe.unrelated
        /\ p.missed = (probe.missed \/ Refuses)
    BY DEF Probes, Refuses
  <2>2. Report("usable", p)
    BY <1>6 DEF TlsGraceOver
  <2> HIDE DEF p
  <2> QED
    BY <1>a, <1>b, <2>1, <2>2, ReportVerdict DEF Fair
<1>7. CASE TlsWriteFailed
  <2> DEFINE p == [probe EXCEPT !.missed = @ \/ Refuses]
  <2>1. /\ p \in Probes /\ p.mutual = probe.mutual /\ p.cert = probe.cert
        /\ p.demands = probe.demands /\ p.accepts = probe.accepts
        /\ p.first = probe.first /\ p.unrelated = probe.unrelated
        /\ p.missed = (probe.missed \/ Refuses)
    BY DEF Probes, Refuses
  <2>2. Report("usable", p)
    BY <1>7 DEF TlsWriteFailed
  <2> HIDE DEF p
  <2> QED
    BY <1>a, <1>b, <2>1, <2>2, ReportVerdict DEF Fair
<1> QED
  BY <1>1, <1>2, <1>3, <1>4, <1>5, <1>6, <1>7 DEF TlsNext

(* No other client gives a verdict.                                        *)
LEMMA OtherVerdict ==
  ASSUME IInv, VerdictInv, [Next]_vars, ~TlsNext
  PROVE  VerdictInv'
<1> USE NoVerdict DEF Finish, Verdicts
<1>1. CASE UNCHANGED vars
  BY <1>1 DEF vars, call
<1>2. CASE Begin
  BY <1>2 DEF Begin, Refuse, Resolve, ResolveLiteral, ResolveName,
              LookupReturns, LookupFails, DnsDeadline
<1>3. CASE KrbNext /\ UNCHANGED probe
  BY <1>3 DEF KrbNext, KrbDial, KrbConnected, KrbReply, KrbEnd, KrbError,
              KrbConnectDeadline, KrbCallDeadline
<1>4. CASE LdapNext /\ UNCHANGED probe
  <2>1. kind = "ldap" /\ kind' = kind
    BY <1>4 DEF LdapNext, LdapDial, LdapConnected, LdapConnectDeadline,
         LdapError, LdapBound, LdapBindLost, LdapOperation, LdapUnbound, Ldap
  <2> QED
    BY <1>4, <2>1 DEF VerdictInv, VerdictSound, FirstSound
<1>5. CASE RpcNext /\ UNCHANGED probe
  <2>1. kind = "spiffe" /\ kind' = kind
    BY <1>5 DEF RpcNext, RpcSocketPath, RpcInvoke, RpcMessage, RpcError,
                RpcLibraryDeadline, RpcEnd, RpcDeadline, Spiffe
  <2> QED
    BY <1>5, <2>1 DEF VerdictInv, VerdictSound, FirstSound
<1>6. CASE Pass
  BY <1>6 DEF Pass, Tick
<1> QED
  BY <1>1, <1>2, <1>3, <1>4, <1>5, <1>6 DEF Next, Continue

(* What is inferred from two handshakes is the server's policy on client   *)
(* certificates, in every order of refusals, resets, hang-ups, answers and *)
(* timers, unless something else ended a handshake or a refusal was not    *)
(* there to be seen; "unknown" is said only of two refusals, the first of  *)
(* them a reset.                                                           *)
THEOREM VerdictCorrect == Spec => []VerdictSound
<1>1. Init => VerdictInv
  <2> SUFFICES ASSUME Init
               PROVE  VerdictInv
    OBVIOUS
  <2>1. ~Answered
    BY DEF Init, CallInit, Answered
  <2>2. kind # "tls" => ~probe.mutual
    BY DEF Init, NoProbe
  <2>3. probe.mutual => probe.cert
    BY DEF Init, NoProbe, NewProbes
  <2> QED
    BY <2>1, <2>2, <2>3 DEF VerdictInv, VerdictSound, FirstSound
<1>2. IInv /\ VerdictInv /\ [Next]_vars => VerdictInv'
  BY TlsVerdict, OtherVerdict
<1>3. VerdictInv => VerdictSound
  BY DEF VerdictInv
<1> QED
  BY <1>1, <1>2, <1>3, Invariance, PTL DEF Spec

=============================================================================
