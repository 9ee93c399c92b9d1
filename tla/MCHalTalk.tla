----------------------------- MODULE MCHalTalk ------------------------------
EXTENDS HalTalk, TLC

\* Which descriptor an object is in does not matter.
DescSymmetry == Permutations(Desc)
=============================================================================
