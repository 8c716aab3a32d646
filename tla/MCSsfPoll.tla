----------------------------- MODULE MCSsfPoll -----------------------------
(* Instances of SsfPoll for TLC.                                           *)
EXTENDS SsfPoll

CONSTANTS a, j1, j2

MCOneStream == [j \in Jtis |-> a]
=============================================================================
