---------------------------- MODULE MCRunScreen ----------------------------
(* RunScreen on small instances. *)
EXTENDS RunScreen
=============================================================================
