--------------------------- MODULE MCIsolatedStage ---------------------------
(* IsolatedStage for TLC: the two switches are given in the cfgs.           *)
EXTENDS IsolatedStage
=============================================================================
