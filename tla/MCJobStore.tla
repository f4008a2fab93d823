----------------------------- MODULE MCJobStore -----------------------------
(* Instances of JobStore for TLC; the cfg files give the constants.          *)
EXTENDS JobStore, TLC

Symmetry == Permutations(Pids) \cup Permutations(Ids) \cup Permutations(Slots)
=============================================================================
