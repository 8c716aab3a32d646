------------------------- MODULE ObservationWindow -------------------------
(***************************************************************************)
(* What the WebAuthn observer promises about the ceremonies it copies: it  *)
(* keeps only those that reached it while an observation window was open,  *)
(* never more than MaxCaptures of them, and a window is for one origin at  *)
(* a time.  It says nothing of when what was kept is forgotten.            *)
(***************************************************************************)
EXTENDS Naturals, Sequences

CONSTANTS Origins, Ceremonies, NoOrigin, MaxCaptures

VARIABLES
  window,    (* the origin being observed, or NoOrigin                     *)
  admitted,  (* the ceremonies that arrived while a window was open        *)
  kept       (* the ceremonies held for the debugger, newest first         *)

vars == <<window, admitted, kept>>

KeptSet(s) == {s[i] : i \in 1..Len(s)}

Init == window = NoOrigin /\ admitted = {} /\ kept = <<>>

Open(o) == window' = o /\ UNCHANGED <<admitted, kept>>

Close == window' = NoOrigin /\ UNCHANGED <<admitted, kept>>

Admit(c) ==
  /\ window # NoOrigin
  /\ c \notin admitted
  /\ admitted' = admitted \union {c}
  /\ UNCHANGED <<window, kept>>

(* A capture handler writes back the buffer it read with its ceremony put  *)
(* first; the buffer it read may be older than the one it replaces.        *)
Keep ==
  /\ kept' # <<>>
  /\ Len(kept') <= MaxCaptures
  /\ KeptSet(kept') \subseteq admitted
  /\ UNCHANGED <<window, admitted>>

Forget == kept' = <<>> /\ UNCHANGED <<window, admitted>>

Next ==
  \/ \E o \in Origins : Open(o)
  \/ Close
  \/ \E c \in Ceremonies : Admit(c)
  \/ Keep
  \/ Forget

Spec == Init /\ [][Next]_vars
=============================================================================
