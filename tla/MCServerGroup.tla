--------------------------- MODULE MCServerGroup ---------------------------
(* Instances of ServerGroup for TLC; the cfg files give the constants.       *)
EXTENDS ServerGroup
=============================================================================
