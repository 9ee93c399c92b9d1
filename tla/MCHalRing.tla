------------------------------ MODULE MCHalRing ------------------------------
(* HAL rings for TLC.                                                         *)
EXTENDS HalRing, TLC

RingSymmetry == Permutations(Procs) \cup Permutations(Owners)
=============================================================================
