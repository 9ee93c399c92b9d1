------------------------------ MODULE MCHalLink ------------------------------
(* HAL pins and signals for TLC.                                              *)
EXTENDS HalLink, TLC

MCSymmetry == Permutations(Pins) \cup Permutations(Signals)
=============================================================================
