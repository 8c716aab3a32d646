------------------------ MODULE MCWebauthnObserver -------------------------
(* Instances of WebauthnObserver for TLC.                                  *)
EXTENDS WebauthnObserver, TLC

CONSTANTS o1, o2, c1, c2, s1, s2

MCOriginOfNone == <<>>
MCOriginOfOne == c1 :> o1 @@ c2 :> o1

SlotSymmetry == Permutations(Slots)
=============================================================================
