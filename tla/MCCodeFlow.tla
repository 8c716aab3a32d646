---------------------------- MODULE MCCodeFlow ----------------------------
(* Instances of CodeFlow for TLC.                                          *)
EXTENDS CodeFlow, TLC

CONSTANTS s1, s2

SlotSymmetry == Permutations(Slots)
=============================================================================
