----------------------------- MODULE MCRecordRing -----------------------------
(* RecordRing on the smallest ring the code can allocate, in storage that      *)
(* looks like wrap marks before it is first used.                              *)
EXTENDS RecordRingUse

MCStaleWords == {-1}
=============================================================================
