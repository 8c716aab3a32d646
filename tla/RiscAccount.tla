---------------------------- MODULE RiscAccount ----------------------------
(***************************************************************************)
(* The account a RISC event is about (client/src/risc_account.js): its     *)
(* lifecycle and its opt-out state, what it refuses, and what the opt-out  *)
(* gate holds back.                                                        *)
(*                                                                         *)
(* The kinds of event that only set a flag, add to a list or name another  *)
(* address are "no change".  Who the account is, by which address, name or *)
(* number, and its credentials are left out.                               *)
(***************************************************************************)
EXTENDS Integers

(* resets: how many times the account was reset (history).                 *)
Accounts == [lifecycle: {"active", "disabled", "purged"},
             optOut: {"opt-in", "opt-out-initiated", "opt-out"},
             total: Nat, suppressed: Nat, resets: Nat]

NewAccount == [lifecycle |-> "active", optOut |-> "opt-in",
               total |-> 0, suppressed |-> 0, resets |-> 0]

(* OPT_OUT_EVENTS: the state each of the four declares.                    *)
OptOutEvents == {"opt-in", "opt-out-initiated", "opt-out-cancelled",
                 "opt-out-effective"}
Declared(kind) == CASE kind = "opt-out-initiated" -> "opt-out-initiated"
                    [] kind = "opt-out-effective" -> "opt-out"
                    [] OTHER -> "opt-in"

LifecycleEvents == {"account-disabled", "account-enabled", "account-purged"}
RiscKinds == OptOutEvents \union LifecycleEvents \union {"no change"}

(* refusals()                                                              *)
AccountRefuses(account, kind) ==
  account.lifecycle = "purged" /\ kind = "account-enabled"

(* Variant for checking SilenceAnnounced: the opt-out begins with the      *)
(* request for it.                                                         *)
EagerGate(account, kind, honour) ==
  kind \in OptOutEvents \/ ~honour \/ account.optOut = "opt-in"

(* gate(): whether an event may be sent.                                   *)
Gate(account, kind, honour) ==
  kind \in OptOutEvents \/ ~honour \/ account.optOut # "opt-out"

(* Variant for checking NothingContradicted: a purged account can be       *)
(* disabled, and so enabled again.                                         *)
LifecycleForgetful(account, kind) ==
  CASE kind = "account-disabled" -> "disabled"
    [] kind = "account-enabled" -> "active"
    [] kind = "account-purged" -> "purged"
    [] OTHER -> account.lifecycle

LifecycleAfter(account, kind) ==
  CASE kind = "account-disabled" /\ account.lifecycle # "purged" -> "disabled"
    [] kind = "account-enabled" -> "active"
    [] kind = "account-purged" -> "purged"
    [] OTHER -> account.lifecycle

(* apply()                                                                 *)
AfterRisc(account, kind) ==
  [account EXCEPT
     !.lifecycle = LifecycleAfter(account, kind),
     !.optOut = IF kind \in OptOutEvents THEN Declared(kind) ELSE @]

(* record(), recordSuppressed() and reset(), which keeps who it is.        *)
AccountCounted(account) == [account EXCEPT !.total = account.total + 1]
AccountSuppressed(account) ==
  [account EXCEPT !.suppressed = account.suppressed + 1]
AccountReset(account) ==
  [NewAccount EXCEPT !.resets = account.resets + 1]
=============================================================================
