----------------------------- MODULE MCHandoff -----------------------------
(* Instances of Handoff for TLC: two users, of whom the first signs in     *)
(* once and the second in the other answers.                               *)
EXTENDS Handoff, TLC

CONSTANTS g1, g2, ann, bob

MCUser == [g \in Answers |-> IF g = g1 THEN ann ELSE bob]
=============================================================================
